---------------------------- MODULE Spec2Model ----------------------------
(***************************************************************************)
(* Genedle backend: the memoized registry lookups (get_word, _num_letters, *)
(* _valid_guess, _generate_game), the guess validator and the guess        *)
(* scorer, run by concurrent request tasks.                                *)
(*                                                                         *)
(* Every #[cached] function is the expansion of the `cached` macro with    *)
(* its default options: lock the store, look the key up, unlock; on a miss *)
(* run the body with the store unlocked; lock the store again and set the  *)
(* key to the body's return value (an Err as well as an Ok).  Each await   *)
(* is a point where another task may run, so a lookup, the send() of a     *)
(* query, the json() of its answer and a store are separate steps of a     *)
(* task.                                                                   *)
(*                                                                         *)
(* A String and a Vec<char> are sequences of one-character strings.  The   *)
(* registry is outside the program: each query is answered by any member   *)
(* of a small set of responses.  StdRng's output stream is tabulated for   *)
(* the two seeds of the repository's tests; drawing from a range and       *)
(* shuffling are computed from it as the rand crate computes them.         *)
(***************************************************************************)
EXTENDS Integers, Sequences, FiniteSets, TLC

\* Number of request tasks the server runs at the same time.
NumTasks == 2

\* Longest guess/secret the scorer is exercised on in SpecScore.
MaxLen == 3

Tasks == 1..NumTasks

\* Number of session records a run creates.
NumSessions == 2

\* Last calendar day of a run (the first is day 1).
MaxDay == 3

---------------------------------------------------------------------------
\* Data

Normal == "normal"
Hard == "hard"
GameMode == {Normal, Hard}

Correct == "correct"
Present == "present"
Absent == "absent"

Seed1 == 1234567890
Seed2 == 1234567891
Seeds == {Seed1, Seed2}

UPPER == << "A", "B", "C", "D", "E", "F", "G", "H", "I", "J", "K", "L", "M",
            "N", "O", "P", "Q", "R", "S", "T", "U", "V", "W", "X", "Y", "Z" >>

STATUS_SUCCESS == 0

Min(a, b) == IF a < b THEN a ELSE b

Range(f) == {f[i] : i \in DOMAIN f}

\* Option<T>: <<>> is None, <<v>> is Some(v).
None == << >>
Some(v) == << v >>

\* Result<String, String> of get_word.
OkWord(w) == [ok |-> TRUE, word |-> w, err |-> ""]
ErrWord(e) == [ok |-> FALSE, word |-> << >>, err |-> e]

\* Result<Option<InvalidGuess>, String> of _valid_guess; reason "" is Ok(None).
OkValid == [ok |-> TRUE, reason |-> "", msg |-> ""]
OkInvalid(reason, msg) == [ok |-> TRUE, reason |-> reason, msg |-> msg]
ErrValid(e) == [ok |-> FALSE, reason |-> "", msg |-> e]

\* What a request answers: a GuessResult, a count, a SpellingGeneMetadata or
\* a bool; or the panic that ended it.
NoResult == [type |-> "", reason |-> "", msg |-> "", is_correct |-> FALSE, result |-> << >>, count |-> 0]
Invalid(reason, msg) == [NoResult EXCEPT !.type = "invalid", !.reason = reason, !.msg = msg]
Valid(is_correct, result) == [NoResult EXCEPT !.type = "valid", !.is_correct = is_correct, !.result = result]
Panicked(msg) == [NoResult EXCEPT !.type = "panic", !.msg = msg]
\* Json<isize> of the num_letters endpoint.
Count(n) == [NoResult EXCEPT !.type = "count", !.count = n]
\* Json<String> of the genedle page: word.to_string().
Word(n) == [NoResult EXCEPT !.type = "word", !.count = n]
\* Json<String> of the genedle page: "Error initializing word: {err}".
InitError(err) == [NoResult EXCEPT !.type = "error", !.msg = "Error initializing word: " \o err]
\* Json<SpellingGeneMetadata> of get_letters and Json<bool> of check_guess.
Metadata(outer, center) == [NoResult EXCEPT !.type = "letters", !.result = outer, !.msg = center]
Bool(b) == [NoResult EXCEPT !.type = "bool", !.is_correct = b]
\* Result<Option<InvalidGuess>, anyhow::Error> of valid_guess.
Checked(vres) ==
    [NoResult EXCEPT !.type = "checked", !.is_correct = vres.ok,
                     !.reason = vres.reason, !.msg = vres.msg]

---------------------------------------------------------------------------
\* Registry responses

\* What one HTTP exchange with the registry can give: send() fails
\* ("transport"), or it resolves to a response whose HTTP status is not 2xx
\* ("http") or is 2xx ("parse" when json() cannot decode the body, else
\* "payload").  body tells whether json() decodes the body; status,
\* num_found and docs are responseHeader.status, response.numFound and
\* response.docs of a body that decodes.
TransportError ==
    [kind |-> "transport", body |-> FALSE, status |-> 0, num_found |-> 0, docs |-> << >>]
HttpError ==
    [kind |-> "http", body |-> FALSE, status |-> 0, num_found |-> 0, docs |-> << >>]
HttpPayload(status, num_found, docs) ==
    [kind |-> "http", body |-> TRUE, status |-> status, num_found |-> num_found, docs |-> docs]
ParseError ==
    [kind |-> "parse", body |-> FALSE, status |-> 0, num_found |-> 0, docs |-> << >>]
Payload(status, num_found, docs) ==
    [kind |-> "payload", body |-> TRUE, status |-> status, num_found |-> num_found, docs |-> docs]

\* The suffix query of a get_options whose prefix query failed: never sent.
NotSent ==
    [kind |-> "unsent", body |-> FALSE, status |-> 0, num_found |-> 0, docs |-> << >>]

API == "https://rest.genenames.org/search/symbol/"

\* word.iter().collect::<String>(): the letters joined.
RECURSIVE Collect(_)
Collect(word) == IF word = << >> THEN "" ELSE word[1] \o Collect(Tail(word))

\* err.to_string() of the reqwest error of a send() that failed.
TransportMsg(url) == "error sending request for url (" \o url \o ")"

PARSE_MSG == "error decoding response body"
LOOKUP_MSG == "Unable to query genenames.org"
NOT_FOUND_MSG == "No gene symbol found"
FETCH_MSG == "Unable to fetch gene symbol"
SCORE_PANIC == "index out of bounds"
RANGE_PANIC == "cannot sample empty range"
UNWRAP_PANIC == "called Option::unwrap() on a None value"

\* The symbols the registry knows, in the order it lists them.
SYMBOLS ==
    << <<"M", "I", "B">>, <<"M", "X">>, <<"T", "L", "X">>, <<"T", "X">>,
       <<"N", "Q">>, <<"Q", "N", "Q">>, <<"O", "Y", "K">> >>

\* A well-formed answer to the prefix query letter* and to the suffix
\* query *letter lists these.
PrefixSymbols(letter) == SelectSeq(SYMBOLS, LAMBDA sym : sym[1] = letter)
SuffixSymbols(letter) == SelectSeq(SYMBOLS, LAMBDA sym : sym[Len(sym)] = letter)

\* A numFound that counts more symbols than the answer's page lists.
ManyFound == 6

PrefixResponses(letter) ==
    LET docs == PrefixSymbols(letter) IN
    { TransportError, HttpError, ParseError,
      Payload(1, 0, << >>),
      Payload(STATUS_SUCCESS, 0, << >>),
      Payload(STATUS_SUCCESS, Len(docs), docs) }
    \cup (IF Len(docs) >= 2
          THEN { Payload(STATUS_SUCCESS, 1, SubSeq(docs, 1, 1)),
                 Payload(STATUS_SUCCESS, Len(docs) - 1, Tail(docs)),
                 Payload(STATUS_SUCCESS, Len(docs), SubSeq(docs, 1, 1)),
                 Payload(STATUS_SUCCESS, ManyFound, SubSeq(docs, 1, 1)) }
          ELSE { })

\* Answers to the pool queries of _generate_game, docs being the symbols
\* the query matches (none for most letters): any exchange can fail.
PoolResponses(docs) ==
    { TransportError, HttpError, ParseError,
      HttpPayload(STATUS_SUCCESS, Len(docs), docs),
      Payload(1, 0, << >>),
      Payload(STATUS_SUCCESS, Len(docs), docs) }

OtherSymbol == <<"Z", "Z">>

ExactResponses(word) ==
    { TransportError, HttpError, ParseError,
      Payload(STATUS_SUCCESS, 1, << word >>),
      Payload(STATUS_SUCCESS, 2, << OtherSymbol, word >>),
      Payload(STATUS_SUCCESS, 1, << OtherSymbol >>),
      Payload(STATUS_SUCCESS, 0, << >>),
      Payload(STATUS_SUCCESS, 0, << word >>),
      Payload(1, 1, << word >>) }

---------------------------------------------------------------------------
\* Seeded generator

\* A u32 is kept as its two 16-bit halves << high, low >>, the arithmetic
\* on it being that of the unsigned 32-bit type.
U16 == 65536
U8 == 256

FromInt(v) == << v \div U16, v % U16 >>
\* For a u32 below 2^31.
ToInt(x) == x[1] * U16 + x[2]

\* to_le_bytes / from_le_bytes
Bytes(x) == << x[2] % U8, x[2] \div U8, x[1] % U8, x[1] \div U8 >>
FromBytes(b0, b1, b2, b3) == << b3 * U8 + b2, b1 * U8 + b0 >>

\* x.wmul(y): the 64-bit product, as its high and its low u32.  The
\* product is summed byte column by byte column, lowest first, each column
\* taking the carry of the one below.
wmul(x, y) ==
    LET Columns(a, b) ==
            LET t0 == a[1] * b[1]
                t1 == a[1] * b[2] + a[2] * b[1] + t0 \div U8
                t2 == a[1] * b[3] + a[2] * b[2] + a[3] * b[1] + t1 \div U8
                t3 == a[1] * b[4] + a[2] * b[3] + a[3] * b[2] + a[4] * b[1] + t2 \div U8
                t4 == a[2] * b[4] + a[3] * b[3] + a[4] * b[2] + t3 \div U8
                t5 == a[3] * b[4] + a[4] * b[3] + t4 \div U8
                t6 == a[4] * b[4] + t5 \div U8
            IN  << t0, t1, t2, t3, t4, t5, t6 >>
        Product(t) ==
            [hi |-> FromBytes(t[5] % U8, t[6] % U8, t[7] % U8, t[7] \div U8),
             lo |-> FromBytes(t[1] % U8, t[2] % U8, t[3] % U8, t[4] % U8)]
    IN  Product(Columns(Bytes(x), Bytes(y)))

\* x > y
GreaterU32(x, y) == x[1] > y[1] \/ (x[1] = y[1] /\ x[2] > y[2])

\* x.wrapping_neg()
wrapping_neg(x) ==
    IF x[2] = 0 THEN << (U16 - x[1]) % U16, 0 >> ELSE << U16 - 1 - x[1], U16 - x[2] >>

\* x.checked_add(y).is_none()
AddOverflows(x, y) == x[1] + y[1] + (x[2] + y[2]) \div U16 >= U16

\* x.wrapping_add(1)
Incremented(x) ==
    IF x[2] + 1 < U16 THEN << x[1], x[2] + 1 >> ELSE << (x[1] + 1) % U16, 0 >>

\* x / m and x % m for a small m.
DivSmall(x, m) == << x[1] \div m, ((x[1] % m) * U16 + x[2]) \div m >>
ModSmall(x, m) == ((x[1] % m) * U16 + x[2]) % m

\* The value of a hexadecimal digit.
HexDigit ==
    [c \in {"0", "1", "2", "3", "4", "5", "6", "7", "8", "9", "a", "b", "c", "d", "e", "f"} |->
        CASE c = "0" -> 0 [] c = "1" -> 1 [] c = "2" -> 2 [] c = "3" -> 3
          [] c = "4" -> 4 [] c = "5" -> 5 [] c = "6" -> 6 [] c = "7" -> 7
          [] c = "8" -> 8 [] c = "9" -> 9 [] c = "a" -> 10 [] c = "b" -> 11
          [] c = "c" -> 12 [] c = "d" -> 13 [] c = "e" -> 14 [] c = "f" -> 15]

\* The 16 bits the four hexadecimal digits of s from place i on write.
Half(s, i) ==
    HexDigit[SubSeq(s, i, i)] * 4096 + HexDigit[SubSeq(s, i + 1, i + 1)] * 256
        + HexDigit[SubSeq(s, i + 2, i + 2)] * 16 + HexDigit[SubSeq(s, i + 3, i + 3)]

\* The u32 outputs of StdRng::seed_from_u64(seed) in order: the key is the
\* seed expanded by PCG32, the stream is that of ChaCha12 (counter 0,
\* stream 0), word by word.  StdRng1 and StdRng2 list them for the two seeds
\* of the repository's tests, as far as MAX_ITERS + 1 shuffles of
\* VALID_LETTERS read them: eight words a row, eight hexadecimal digits a
\* word.
StdRng1 ==
    <<
       "7e77abf12bbfaa56c00042e8324d349da731cd2aa10a72592983a873fadf00d1",
       "690e6f976202204b0654ca0ff12ddf6043ac4833b0846f16ff5cc595598ec0d0",
       "a0a60360b8b4c3da7cb0d28506b47f01a622788c90234cc154fc58215b09ac87",
       "43a9a58eeaefa0085aa6387822a9db61f8fe2f8bd9e1e70454d73f7b4f44e009",
       "6fc5720d0f69d9d77ab326d455ef483c3504dbd08b4fc9cf77d84a1609ad52b5",
       "8197dc8ba6cfe43002d7cedc66c7155119cd2ffde830bcf9c0ceb2957317f3a2",
       "a994ac2212a6214cbf9653c84718511515a959e434582f8eee6c5f00b7bf0ad7",
       "83b55c98f42e0644079c791993d01ddd5f38aadf2fff377c28664f505ecde3db",
       "2ee8afd021d2cecd7b0a7be5eb7aae8749e846890a44c63ff67a0786c3170718",
       "03d974132d58b2515efd784bd745516bfcd5cfca3dd69360f467ba617023838d",
       "a97a365d4b2feca3bb258833ec983cd4cf9feb4b2c5ba6454cb6df3ab2bc8160",
       "dd8af16c2c4bcae2d121514e26bdb63cc3dd8a2e4774384421137803bb42bf0e",
       "278ba26b95031845e8ab63749df54ec05427e60b6641d25d607be49f8d373c72",
       "5ed10e9b959fbb6078382e22d7c0804711abd6152037d5674117b750473c1688",
       "30f392b6d1b44958c706b0c3ffdf3704853c8541b9e2ee20228e93ae1ba7b9b1",
       "4924d090e8bbcbbb3649540e0c360265412723660c16836f8b9644f5c322dc57",
       "278e42bd9690aac33532a33e933a0d260cfad5c8866634402f1aee7369dce641",
       "43c93cc1fc605d8037f12ca567d5462fcc008a49a86c7f92789bee1c8d190d61",
       "fba651b00989e5991419bb3f7525f759baf4e1f7807f51e2568bcfff05e77029",
       "78067d63787e2168ec206367048be034d9dd22e91ede110cd08a8e97c879ddd6",
       "bfc03a15e6c4974e6a356b807204098e191af17bd1efcb718f56cc18110dbfa9",
       "20b8b3016bfdc42649a4235c43441ca30b5f912fc4ecb82e4e1399e30916c18d",
       "5964bd6a9a2425bf8194264c87976c1fe8f400827934e20c591c3c9cacd3cc78",
       "afd5c2f857c919a63e457a1cfeb7203a055c06cb0aee71e1167a96fa2ef95365",
       "0effa76a3c0f907ee42b51b4f532e56ac052e51d07d68f538f4ae8cf45a3ef6f",
       "d3109bccfa2852f32f5a0e0d556a62c6f6c974baa2ee97ffce67b856e431d434",
       "0952463140b0779136c688af8fa21a64ec855419400784e82ddf4f5e4896e27c",
       "4a8c4fabf88ac05b9c3bdbab4ddfd010543a669d0dc776821eaf75b5134affc5",
       "2ac8ef06e68b2c564d8c5bd102f0109c6807e8b73d77cec1865337c65449e674",
       "87ad5698f27b90fa02616e3b065b88c85548e235ba91c5c3647ca790e3aa2843",
       "b8e84571a0c75bcd95192b44512205de36df320fc589f4262c158608a2057e10",
       "f30e78f76da903a149ab61f89c745e62cb06f73bf6604e935b05d11deb4e7b74",
       "03391b08f780c21ae7f1ba5e02a32f3e27fdce52877a5470d32914670dbeaaf4",
       "9050f10c691f66fe6c03c37dd6df42aa6af71cff1df0340722323765b340e10c",
       "3b80a30495c273a3d195def83644d72b874d56201ddc293039c85d9822d6f4e0",
       "556534d1513579b95d723f2a0e51a2bf59c4a6b6d2273df311f7385667872493",
       "19211b36b5844e6a24c19736f24ec2e9c02be546f5135e7bcbe703d91a40e41d",
       "644247867bc1dcce75cacef342ff12972529cd3457636126842e8d1f945cd06f",
       "3124dd627d7bea59b4fec319afc2b67467f687d23e87968097cf47e63a8a1d60",
       "d18a670b651b773f0d122d17902f2ee559e796335efa9b0c47113468536e6eb9",
       "8ad6cc8fbb1b5444fd48012370c6f0d06dc7106d420727e5056eaefe8cbe3f8d",
       "36fefa48076a0fd1c3d1ea886707159a1e4d1a2c34ed250c44a22afae822638e",
       "2eb3a491b4d526d743bc331beb809ede2765adb82be483dd2ae9724144e2fbeb",
       "4513de6f42aa9dcd73f3c80cf18e298368ddaa7d63e99c979c275e9bfd44b278",
       "d0b183f95a6170cdf3c6d7fe689e50cf376eb43426fe8c656837b20ade13a358",
       "d96bc68f4c200c7fa12e9474d68053467e0fbd07739175e624812bdee13e7570",
       "e03fa4e5ea523cba9e4e66bf08363cc47e7ad05ce472ad9a920ba4ea76bd15cc",
       "fec645d40702d6ad09f6e54a4a8f5d753aff708c9b7d050f41f7305d0e324aca",
       "23b33b05a535715003853f381341feb049a2db2c1c424a4c0d5b695833293784",
       "a0c5683eca8daf80e193d5e863d200376520b59ce796ffd1a1bde18bc0f8a528",
       "e580840eccae20cdca726186b6ca05d6e3882e541e46044a747bc50640714a57",
       "0ba1a3f356f4b74f9203841fa5dbae2da5c28c379f33e8f5799345d28749a5b7",
       "de81f9671de157a114dfca175797cdc175101368a3e31de55e9ca89c1aa30e68",
       "311a387df576b0148c153bb2e1322738be91369c6426e482e00d842a938d7e7d",
       "776503cd74f223777f9c14bfe8a246f7865f0a39b81c138d4d7063fa24a0c3d0",
       "62424b4ec6e1cc66d7bb6da5442ed3aad193a8408a55ee76634e0d6aea12a06d",
       "e059a8b185326eca94645bc72b6b0e04e60dade563a1023066efcfc54ec34a1d",
       "fba127b3f1af3039af5808edb097d7b55c8c70f03454ca7a58365e00c386ccbc",
       "2b876cf571a7680a1561a258999ba57b402991a4aeecc2ba55eef1536f81f22d",
       "9a62899447d5855e70308f8c931365d8a526385dd3837a5eeea74e88dd7911db",
       "a57ce47a9f2225e49a3e0b77de9de2e316624ba22ac4ff388daac40866bb3bad",
       "4da6b1e4d74fa452a147814c5f3230ffd140b161163cf6577abd4c645a5570ef",
       "22ff0936924ab76449a48a98f183a16362eb56ec3b1f27556292c0f517f70e9b",
       "8b6f0bd51e12058006de812e8cc30c1857c8b449d96a6ce7f26090b4a4694962",
       "b78e0643c87a4648c8e8bbc30f77e7f789d3f05aa05c7fcd9dac7be8e5f4621c",
       "50b8fcee4151510a05af09afeb2bdcade92578f4f8c76e75911d015e4d88fc68",
       "27b39ce0ef354868ac26577a140980ca520af58f918b230c0a6ddb35bb0eb7e7",
       "ce57a816a54f29c4cb5f8dd66c5289c0233c151ad3f5bde2936073329c577a12",
       "9ff60c5d48af09e92cec794b569a276811f1fec94fd53fb0fdb495ff0e21cbda",
       "0635346b7f3f8dee3ea198490824d7daa3ebebde64b0e57221d9f6691de78d46",
       "5d81be06999b38c3a1d3f3c0ae51ca3b89dab5ffa3c9ed7040a0655ffc97f257",
       "d5be540b9dd5b15d88a1f859d00fdc72d885b214bd29dfd15caf9ac206b11103",
       "0fdd6e8e4376117c33688128f2a25da5a97a8d875905f7ac6446f6cf101a6dda",
       "c35f50bae7672eca1383d209eec3b1ba94bc66ab66233fd35fe4c4e919d2e5b6",
       "a709054d7c9441c6e5bcb8149af7b94c9c057bc38dc99941f654207fb1f6398d",
       "ee3af5d537e4f312aac42e5bd196f1db6cfa5bd60f807997727b219bb1dbb34f",
       "f3970e9674929eb04c4d7288466410e484ff0d8da5e8ce4d967a02cd9a35933f",
       "507126031266bec07be72e948e0aaebfb1142cbe6413249bd6ea48da74942370",
       "dc72d58e3cd8394a00760f6e66b115439ff785f545b0673fa1f7803b88877f24",
       "98ff97152e2fe4fa23a394138478fecbf243bc05a44cbc8635a79b6aae556f9e",
       "743bcb75682b08f19fa3a01f0e818a60977b6a7b89235f329a64d0b41f7f19c9",
       "08a87390d7a15b598f015373e9cb057a1c9be1879b9f9ccc9dacd6c60a72ced8",
       "f00d73835f7b6d459a4a6fd6c9c6ebf50f0fec7228e79a22bf6ee291d4afe511",
       "a33503312d1af898c54cebe42d72cbf17b9c8eabba5b3df9bd2a7ec9e3f8a2cb",
       "b8a9082d23efa78ef3d659459095924b3b208091073049d89c7397fe5867c4f2",
       "066eec51d61af655f0fa02dcf7b41114a149478a6f4041923ddddcfc7d61a6b3",
       "3272f55d332e944229da8a0b8f7bfd7064640edfb99591bc2f9137665f2f03d6",
       "588321b4189a7592a3fcac3998be3ee3e7e00ce144fb7b7466a4855595ef1ef3",
       "017530fa5c09c6c493d8cb63a442f86c52835e150bf6f20b8c9691ed6fedaeb1",
       "764a130b588c68f2d6affd8117caf91854077f831d4daa945fffc42597d58e75",
       "2a8db3f4eba52afe81f04dd133303ab0b4f5d6a2c5a073fb6d324bd55a2b1924",
       "327afc4bde57f68c7896fb99da72c71b9c6b51220692fe96fed9e5bcab570b29",
       "8f5147f9e767ccae7697e9dfc0b9a0f8fb7ec7805b75f48f64011915142e2528",
       "0638ab3f83386349f1514f45d4b742f0e5168b2b5f897e7eccc241b6728638c7",
       "f50e7f3a028456bebbd58760661b67a7a527e22d10e485048a0bfed8ac5b04df",
       "3406b46d636cb684b5b3fd603b762d8a7dbe293d0597ee5b03e6c0ae6b78cc38",
       "9ce8d25851364ecc549a7e1d186bd5ba49f48476fddb18b6d29d23d71264800a",
       "126eb1de5f8b77baf8e9c60cbbea72873ea8f427f99732bf43f38e6a9c8be377",
       "7015151b140a71c6622d5469c55db83808bba4007d53c81e430d9bc2bf7cbfeb",
       "882748757323b69091c69c2fcfe37af2bb73b512ad0e99e26d5b968fd65feabf",
       "76e8fefbee200f594399f413b0c5facfd160f2157cb4bd0b7fda015d11a70060",
       "1841b75b38cdf109658be72e61bea5977e9a3d90c8c6285e72d365c9a5cee79f",
       "7ff6e1668b2994518486fbf83c6da8f02219ead35a8c279333078c875efa5f6a",
       "3a275ba80ff1790beddedeea6a206ee2cd6a27dc132321bc3b4b8461b74ba7dc",
       "f67996cb7c2084df3a91bc7d0facd3d3582a34dfac235759cbcfe3d76036861c",
       "811231fceb4a2decd571a3e83c37785ae657979aa7ba9a1cf75ae65a5e5f22c3",
       "050d9ff8b9c25679316a6eb65a4fcb7222d20c7ada74a17900c62b6143149110",
       "826d32490e090e9c0b0d81a41b0bca9785d6ec224d3919ed48d1953a4341e56a",
       "26585c7028792eb2aff96e3c5a55f56515b613531619ce3286f4c5738bf38174",
       "60041171882172263da38a4add62c0049ed0d23fad63a833350af85a7b2ac610",
       "1ebbb2ad3ea68f15a8904f92b3ccc8c73adc2dc2064c7c166c8cc9e01b3f2b3f",
       "551ae92009e148ee193b819d7a2744ab7dbd1d63f9dabba86905792d796cb53d",
       "3cb1336e03950d64d8c5f37cc11918b6eba166fc46a7238ef2c521f5a5cbe9a7",
       "75190032b17de1603a6ab89e6d130dc93cc8eb03060c91e4cb3312914146f292",
       "e5e73daee274b8cc9644ea95395b3d6e0c31ea671a45e5db2df6984a92202e99",
       "7456015d18e87de0a7a92027e8ebe86daeab291d2b55aa1e21a7c43fd2f696b6",
       "bfb721e31639703c17f6d838af2b39332d01b3ca03c141e5c0dc52a6e0087a7b",
       "bc74b1512e6db002e0f8800f4b0931afc3439201296c1436a9960d1456d32a80",
       "242bc22bc8c2637012322c62bb44879f3f756c36f158e91de529512bcefd3d0c",
       "3a5323154ac95c6e28f5f01bb4e1bf6aeb855ce4b77a4661e22f95126ca82ccc",
       "3813e52ed780c8af20709c3c3098098a05da1e13028975f59b4656a58d00fcd6",
       "9ae96be9445132d125ca5fda2343901d1f9410424a76e9c3695d4a2db755d8ed",
       "e17532baaf97f448c8c4b143a9a70ac15c869316a438e45e462e4f7a6f84d66d",
       "64f0dba592ba68312628da1356ebd8a6d028000d281842d4a9cfbca1cddf6217",
       "9db7d83fe9bac6f9fb0b6896dc1119ee98ba150deb9f69bb2f4261f0d9423828",
       "5b3f3e8d3457f888c4f5378636edc9eb5a0f8392306ab032108f5e0bdae369a3",
       "aad15d43638cfd7084476a86a923dac11b9ee9b82e8e05356ab5ebb53ee8fffe",
       "b777ad06071b320b3cb8534591872b8d9de6534aa26082a2992017be8a36828d",
       "ab177e9cba04618771da900eb7d1363986490003abaa961f92125603478b40c0",
       "56f4876872a10b4f6a56a840dfe3490beae4254cdb57728c685a1308d43a8003",
       "5ad9988dd3376dca3b18c92efa731da0eb997ec6315bda176080f2432792b704",
       "97d603df609600f9d26c0a9b502e322709e05c353d8f5796dd4b615cb5547ec2",
       "98816598205d64e6e34c43c46d0f924b88c1a8d7820febc7d1fe0f4b4c1d02b2",
       "50ffac96d8293a5fc00de201748f4f86749821fdd00b388bd6486817f37528ee",
       "211920cdf79b4d37fbea1fb4985a5dce92c2827ba39b7428b51e5824c68da737",
       "41262f36ef81f3b127bde70246990381acc721aa9a835583a420bfdc561f753c",
       "5d25c284ead8af7af7caae2e76583c86cf179e48e249262843159c6e544ea285",
       "0f2f836ba5ca7e7d4e141a7e916882359ab6449f4d15a8341225f32145de96da",
       "2dd13996d81d36180b378faf1b2d848a0a2ebfddc5434c06339302d44eb43271",
       "f15925a541dd015a44254f2aaf011d51a95839c9f6dcac0620d4001ac73d2be2",
       "d77e1edff6c1a399f46d5a03250aa1296b4804acf58ef6221fdd0c267454d038",
       "c752d7d956c635b7cecd2dd2ff75701721d46fc97c010f91f02648ee3a773174",
       "1c50cb05fb76d63e1f4a2e52895453eddba847e39b3c0e8aeac7c58641c8f858",
       "34057c6acf9e1d12f4b190aea4da9b55c3dfee53bffc924b2b1eede445c0d48e",
       "17a32c989ad4bb682bd6a8dc00aa37eff769bde67c55bdc656cb9bf45e5b9f53",
       "52bbe11984b96310bcc6cdc5e007f27718f3ae98571ee1718998a20081e6fb30",
       "e8194be997811636ccc5e52b02c14a1de79116ade34b541873538788feeb9fac",
       "bd985681765c9c85c44b2ad4e9845d001dc15266c215e8fbd71dff8b9aee5369",
       "31c7c39eec5dad702f345b4bcd2c9a52863a534b717d4425705d9a611807b096",
       "2f52c5fc21c914c3cee36c0c1e355c3335c56a7571815803d8462b42155a6b62",
       "1b90bc3d5b7141dba56765366b934711106ff6406dd7aef104e1ca80fc0697ab",
       "3d5668c12b71a7f9b8833162d1db5107610b7af228bd125ee48b69da3a735609",
       "ae6736a43f33f77ddea8deea27471ebc51dc904f34286ac8c28c2972a0844551",
       "bc5e44eda61ce4c25f1fc1b2fa26a556b53989c2342950e58c2cf29d02a8fafc",
       "c31ec7474029e327ddb47a9c0190573ce96bfa14e3e75bf1f3408005d29a424a",
       "8bc56e47f5102e4a37f706695b04bace6f8510f2c65357b8c67cac718d1fe163",
       "b12ee65302bd19144dd1dcdc4abb2c5438560575023967e7d9e9c397b957ff14",
       "c97237488a4dff17ae707ec5cae611f8be4650c47c223bd19109998d6f9f969a",
       "6b95c0ee13188eb57fe21b0ed8430df44cf6ced51f51d835d1a940c91895260d",
       "2bfe4637e3feb8bbd6227071cd13b8be3f8af002c930ed5b365c60da614e5514",
       "842ff8ed74775e3841d61d85ab5f54d46455b04444ef984a4933adcd85c9ab92",
       "b8d799416c7beafa741c9973bbae1dac6141de65a892665ff4c8695e1eb9186e",
       "95c97091ca0ba534e8080807e5519cc7cde9cd2e11807a8aa8194eec9f07cd23",
       "f4d8d3c2662610a79e126b9cebd212b645fe84e389ecccbda8607412e8b4e1b8",
       "3018124a4d08dbf0634500b5897ec931c920ee7a10c31765a59ac9bf3124d93b",
       "4692937172d4939fce0a6422ef4ea8d9fdb9e6a7958231be86a54bcdf0352467",
       "36c1ff4b7811328664f24b46de14fb5ce756df96cddc077d666b95c290761f21",
       "7d744efe7f56ba089c460f125f15a69ba134590c88aa1eba0e2a8ab29e1bf7c7",
       "44a5444367ccff9f25876b9812ca837a2b9850fb1fdc830bac292b5968d7ed61",
       "1bdefe8b329e660ed8ba7ad3ba7e4f9a7b71cc4862fc2744b97eec9b4d1632e0",
       "6e1944897a79a10089c54d89f603a3947c93cb8854a008817ecd46726ac7feaf",
       "8ef0439e0ec660627dc95f578aa3c558d66b0d9b24f99301c03c925d1328be37",
       "f2481e313bc23f445de9075687291773b42677cd479a6525290adf13e90f13ae",
       "44dd446dc9992f466ee5c3dd8a2c28cf841bd80715804679d363cc76df334914",
       "7ea1a6be8f307a9a099d5efd038978c23c7e6c19df25e68049df3bfb6436e138",
       "179623459d39ab72c85421a129f1992a05ff18c5d0a32c61b94490d2716d14bb",
       "fc168c97695ae25badb0ed0db15b6f3c45968b9dd80c32cb0c36abf38200f474",
       "f7d83c8f5856fe2aeb2fef0e0922037375be439ffa9183d6357f29e6e521262d",
       "e13478cdcae034311ae38b35a06568bd83dd861fc61f3729d58dcb9821c0ce1c",
       "a618076d3eb56fbcc12b1905965da58c08cb3e6a3eda46ffca2c5d8aa98c9617",
       "a9736b0856f307edf52b2f390cd2bd83cd369aa953809022d17b51ea74cd78e3",
       "0cedbc524ebd34835066c68d90c8f6778908dc8af95a7cf6bc59a75da1622a89",
       "34bd779b83b9b370008342c859a915d4ce1540048be2e4bb983118e4025424b6",
       "08cac794613c5e3d663a4534b86606e0dae4dafee18cf3ef9a7b7fdb76b8489d",
       "afa7359ee68a9d00523d19021074c0cf1543d68b731b9e4abe36c9f6bad8967e",
       "a4b029224e196cf38377c982e8c4120df3dabc62653915d59439df945abe623a",
       "07667586ea9b0993cc8ac314d7644f88d2b4ca10a951316ebb0f2c1e5f6dfe8a",
       "fa25d916a23cbdefcb4338d84152ad492f6ceff02d79be7d7892b68b66d82d02",
       "b82d35d4afbe9b2193e178c90add5736d5f436696f575575ae96f392c46f4035",
       "92f00db63fdcffee60b5b3a70fa0cc0be4639bb93369c78d7ae3996a0fce7a78",
       "6ba3058a96600e67986f416eec205cd6dc560a6af6677aed1af4b673437db0a6",
       "9712681a7dab448f9b8e9e613317726c87a412b7a81cfb8b4aa0b3fef6a11200",
       "0326c4dc4d94647e88e934490e2b7e21116472ba405c8e2ed7a22fd534fb5377",
       "bd53ede26239ecf4ff0e1f57b5529d65a9b52f93bb0105a1f52b0dafbda725b6",
       "fd3594751c5a69a3037b53aef8132e5b9b5791a0b0629f6a755d9029a417d2a4",
       "3f3232e970c0f779c4d6dc1d2482eb38932f5e930815bdcb541864c9d29eee06",
       "73061f7385bb0f411293a8d8371d97e8c5437631ea7bcc3a7d61e63908cca407",
       "5c28d6f06a2da4fe905694436c5129262429395fd13f58f794ee7d9e26009d1a",
       "abb150a4f20798a4d0b4af0a81db275e763201ba363dd27005b42c08514f0718",
       "db40b440e0c3cbbeb1cb7a8b523c88658528ee2c0839f94a1b598cce56997a2a",
       "29bc55d3a1cec982431bc2f64d59e3b4fd1e908d9e20f803243fdbdb965f8bc0",
       "6489178ecfa2d5aaa863399c6336ce44633e80210d614c84146a81e35b663682",
       "4462752f1ef6f02a0a12c966504baefdcf833979bcbf415c8b170ab2ab02436d",
       "2b559d1a6034033f6322fd5ac74b320da2f0c6f860a94c74b9e64f3c094ed3da",
       "df172a027fe1cf307896685141b316cdd6716f28110df7e7dce2ccc5831d4ef8",
       "3ab117009a8ed7c5627d0ba3829ed1c937f78190d382c11c08e5331a5e5b2f63",
       "5ce2963b6140a1449c4adf9ece28f5553e2b162165152f9e8eef660f57661e37",
       "79c2d2c548688c88a4efac697732e7db3cf88a2bff3aca929b4aa1d664eb088c",
       "df0746fccf9719130c7240561216f8fbbf422e32c9f84d643b6fd86a4f313b55",
       "724c42ef2ea61a28de29ba9274233ed0da9336bbec76f078946fd47d1f242af4",
       "1596027c1b3a1a1836dc6039005684dae4bca58f46a62d0472da6386586ee299",
       "2ca73d926bfb6b6b9ecf908074a5209b975eb7e9aa8fef5cda3603f3961a38d4",
       "f868e4e6ca8befedd99d00106df5a8f7aaac2d8f4c633cd87255f7f0525f332f",
       "43d69cd37234e8c7f1db928edc51f883372d901759ba6a252303659221e8cbbb",
       "67489ee5b3ed50f67865ac774db90d6f393ed0a75e6108d47cde5c1e411f6d7e",
       "1e801760e9366fef047684ea885fb03e3b13d54fcc004f3a9b91057a93c75437",
       "70f782af95e794114d497e28963841642b9145414c82666328eedd76ee724875",
       "f2d9bbf57716ba65184e9b3e269930d22adc33dbd7b645cf29a481bac339390e",
       "e9838dd1145d556dc2bd21d93cd38fbc355f4b661cfc36b341b151028eaa5236",
       "6b6b8ef0b279f412408e736a3199f6c90df6480a6eccf5142eb48b57c6c91770",
       "61ea27bc6f7c7c3db06765a097eb70dbafbb47b9cbf47414b11b5489b0b8813f",
       "9f10d098396ca8d2b834923c96d4407a6abe86a39214ced676a825879536f291",
       "a76cc70cbf4cc7a4eecfb029eb95e67be20687a8e678f70ae79781dedad05199",
       "b257ce51d603235c255494d70922c05ca590b534f16714c0c26aea61bc15c84e",
       "d57acc3e54bc2778f365d9e41edb5a349e316cbf918fd6f9a0e0f66074c61fcf",
       "1e41ef0d3032b42cab023582b6a7b49ca3e921a687fbab92d5f68be98eb13b97",
       "af375b9ed164637ec446ecb5637e11a5bf7ea657ac6b7f44920575f41c9fafb8",
       "82d0b7bb89f559a488412db7137aeaccce4d77dd7cda0d27769ee9583a18e75e",
       "2322da897ae45177e8f517283a053872d6420fc02895fdc9f878b42330e982cf",
       "f17b06c092941f42905d4ce12dc75dcb6d6c7dd6a2138de5bdf74e5a66bc9ec6",
       "ae90d7c53e6f06b408f799074d77247223d16263f802145c22b1ab1b4cea608c",
       "b0ae3d464f39441b289691685c9dea07abce494b1fd62b6fc9040fbb84d9fb0a",
       "4e0e874876717612864d6117a3854d173d6cc3eec7407f9cd53649e1f3d54f18",
       "d23893e3195b6d28abf93e5af1522f8b6b6fcadb9502229caef0e6afc50e425b",
       "276fd13740f0d8a7682bf23d7f7a0ccc559a44055ab9b2296b0167270a0fbfb2",
       "ff243e8720adb7eb8546e6bda3c65a9590363c2db72b2d4d9b399bd96424666e",
       "c21bd4f26c39dd916c77e1530a1dc7f34bac49bfffdbedb0b76df3441861b4b0",
       "a6d4ebef12bbe99d8d9250add0547179b81909c812df6e55e066d25de83ef454",
       "1bc77f4a98d72da8a00385ea86b484a0cbc261e345643cf223dc5f91c90433c9",
       "94e0cc34078dd2a95e7bdefe67e93320b3fd74b4be3fc0051b2b769e6c9c11da",
       "73e050e4ca59455844fb2043c1baecc1392c098e3fca7932aa78a7f5ead28445",
       "dbbb1ebf2ac17308047e961fce6238e3cfffd070c51cea2c2b4606e9a9e53614",
       "22a221ecc3f426251f51abac3dc1b74228edb238ce54daf36c7cfe025f401b50",
       "9d9fa436ad8ab4361b740f911d25040bebfca734b36bd5e6c3888b217de4adf9",
       "587805bbff3202c7d43102bdcd6586eb4451888f7eff21ce589e54c281573fb7",
       "fb2dc4fb427c95428bc2e2017274f576f4f45e15f0a2647152d5242b3ea9c510",
       "cc4bf8a35c13c8410e85fd0940acf877b1723b8f8750220e47c3a0bbe85bd13a",
       "0aceec375d8bcd0945676224e960c7d027030a49277c99072e8a242dc900ccfc",
       "a30322dfbf6b86610d50712c35fc192ca27d8b3bbfb4bc33d0fc0a0ce68df506",
       "c9ad612d03cf0d97359545c2e10c6842342db1e934895d535ba7d142034d4b02",
       "18273baec76dfdd26e17e1447fac9a56b8f3c45563be2e3d5271e485b5a41735",
       "41e194eae670bb918946ad4154eacc7ae623a9302b1fb91e7cd83bcbcc5bc47c",
       "ba1ed8c7f26836c875cde8dae0013e0bbd4ba8a95db42e6664446b4066c1587a",
       "0919873971b295b36c6df1a5c1c0ea4c61240179e9a5daf2eef37d2834d3430c",
       "cbb51b88075aa7990df3c4ba41837df465a7e1ee6ca5f78dec33971b25a07d61",
       "2dc92db99320d775dd860799889dc28b83cfc0617ebc0a87b7967f467c32b24e",
       "dbcfe8a2af422dc01e5aec82788c6acb11b2a058660a23a708d671ce48194b0b",
       "cd79de1acc6bf022d8b0de44b98d1ea82fb5fab34a78fe2fca6fc831d2ec1453",
       "affc0746399425c2f6cd1a9f1341e72868ec8b89ba401ff00aa9ce0e8caea082",
       "b75b35ed94d1720a825fd8a0142111784017ff41db433ba6ea86cf5f17956c97",
       "7d64c15fcf237b947635b7126a0540ffde099cbfe14a23e6212372ce6860e3ef",
       "10647385cfb74942b1d93abd2a505fa307d677cd60507933e224ddeb1a0635ec",
       "eb2bf9c726abf0f744ea77b729c77aff8308d67dfa6ea741979eec79e1d44445",
       "eee7815ab76b678a2828964d55a760afb2dee38429b792af6d30bb5622c6a687",
       "185b7cfb9dfc92399b0fddf91fe597025e6d0532cf8f335c6345d39f83b1a9f9",
       "f62ac8f547d3f0a6c2c6831d45522e64e91c4d194c81b767ac1d1eff61572699",
       "f661b8afa2dac6d3273813fd3f9cfd15912cf4b6cd32a59fd6c725f3861c85a3",
       "4c9cd85e375d90546ae3e5a9fa571cee3020d5a02e2cc963e848278f57694e18",
       "84003ca906af0feab85bc4e1094e962f288bdf1778d7956d2c63279757de1a19",
       "4b19595446017ef72ca5c592271d9e7c705568a2efd2935e953b85b3c01f0148",
       "f66680970b5d5313b948c63af6f3921756f0ad2a975c9bc93124f9a082afc433",
       "7614e4a1a1aa1ade8dffcae1148d57f8b33edc507d4b9bc31c296ee11e7a51df",
       "7f721e213f078e05a837526178bcf619dc6d30470f7880fe127b6784ea3ededc",
       "c323bc0450756371594887af52124ef7d4ce720118237fcfe985493ae77da447",
       "89ad4f51f046d282f883b2d81610fb929eb953b9c9d2bf591a238f8d68662de1",
       "ef7d81c295cfa08a2a74b66067bb584fee2236a59856600ca1f37e051ecb76c4",
       "0c7024871476ae70a1d8c2c2e04401b5f9dce7d91d4bb84be8bb7e9e28ae80ed",
       "50774369efcd8c7508bac89e2e60d0ef17d3be69d967e2f66c295b675e1acd2b",
       "ddb8f0e618f309b0c0561b81d82a6fbfbd4c89104ab376f210d2611bba6cd67f",
       "854a64fd31dc377940f46fbfcfb1313b4756b9f46874bf4a8eaa2d819027b6da",
       "aa497bc8ed6c006f0bb1fd31adc02c3e3bcb5e4a27e9346b8821581fe3b12b52",
       "14d1701205825e61314ee8aab4d6c765e1d8ef5225515704f836d972de54e1be",
       "897255a71dfd4d4c2716a0855044b6365fca57153ed5492488fe77438e7f58a4",
       "c939d7ab1cb70bfa70612b3f1c9a1ce7ffd72d9e5078b305d9dbfccb00fe8ff6",
       "cb6187ecf339ef478df5b55b3baae873a3d6b8c2202fb618a395b4e90cf07fae",
       "27af278ca61cd7f2de3d29a2f524ee08bb944efee4ce75dec8520704764c8f69",
       "c84952bc79b4062a128cf72bcb8ccc76fac480b3df6683e5c0680e67bfbd901e",
       "a1d3a3a5f7bf2602af01fdd125176a809d93164cbf924d56fedf8836c55e07b9",
       "417ef2469e80926dbd7e24c4d94d8abaeb326a3e1a911df41de55f9805de4b17",
       "5917cf38f66f75b0f0b855c52f2823548784a46c314b6da58665ccd36c7591ed",
       "4c19db14207fd6ef214f744c52f16708860715aae239bd8b5ffc0e1420c795f8",
       "33ec9cde5babd7ea8c0761d47354f1041401001ff0b28d8a41da207bd5802272",
       "42e23da6bbb9d8b9bf24341eb77c8dedaa845cdd4bae7f2d8daa32af28f53c98",
       "f22ed00ea5c6ec5e733b0ddf2ace484c282a1e556b65f6fa09bf8bd9be5e0188",
       "6bb01a63e1def2736531d97f4165f5ccf796d069fbfaf68a0c00f9a2785f3f0c",
       "404147fe8ac8fa078cb4865b9bcdfe69f2165f0553dc4bc507fe5b62c841a249",
       "cae1b4c0e2bcef785623d8ee80dd4a6fadbb39adaf53b9b4ed0bb9a4c1c49b51",
       "3210a00a3c397f999b2046556b9dcf515427139dee4cba1baf9314158ad255c1",
       "d131cfbc847b1dacc42115f82b51be7433066eecadd76f3fc9656d50751f0798",
       "b744d3185bfbb0cd282fd013599c041041865ee03aaa224429b7d8970cec01e0",
       "974c7a50605fa7ca842be604edc7f4df9c1a5940bddaf0e247e5479683b579d4",
       "880729e27ed7174f87c7e96c22e266e753250a3af280daee76292ea306a14633",
       "16f1b253ee26af731eab91d31c863bf5f1f1d9bc1a3b2fe74e6b5fd5e974af44",
       "11da5a9b7712066f699676deb9de7e24e7a90909f934f72e20aead4fc69cacd4",
       "c6f2e393b72c7841a64577a0fa3f4b662bd7ee87550d7809dfb2317665ad6fc2",
       "fb2cd52a84c0361fd89c9e01f5289e8e5ef30e1f070af130676311a0446216d8",
       "ec6ab3b845090b12a32e167a220bf043889043a7c77af000ed30630db22bc875",
       "69e8f9d2a67aca3b1f8a2d6afcb7127537cff077ebea71911a59517ad8aa03f9",
       "4e91ff4e051b144281cc3509364ddfbeb5b847b0dec296d1c2a9b2a16c093e45",
       "ecbb0c66e1ff471b98d8c287791763f715ded09c200aacafc90f48863b1a99b2",
       "1c7815cc75d7a66577b4d25fbbf1a69db3d18ada5ba49111eebe913965a12c94",
       "5fbf670228e85025e96e49b2396aa07f21d7274823cc84b7b20d7fb29137db4f",
       "e496a58ac87f5777e68bfa58028dafc0b2e4e4171ee10e6bd346ef6069f8799a",
       "334944dc6360908871803187051cf136c4d6d9a61f866280a8b68b25731defd9",
       "ed8cbf285327dfbacc8ac56727372c56db0340eb123e03c0b63cdb059040c122",
       "f7de40367553ec11617b57f0a86d64573d7a456f47dc27a8bac0c4dea4daced9",
       "d66b7d23f1fd2aa44672a76337f8069c0921df4c39b5866bdd94f2b253605454",
       "59c7c786bf6a112793567fdc74cc521295733275b509444f98b5feb6a4a93e39",
       "e8f50f3490d5d002623cd5e82bcfe83914a539e8458714a5a67363ee80d2e677",
       "9f397d7ee836a3b358fc6d4810a2480473a694a7606e03599e9c1bc293ebfd18",
       "cd6e59ac43a4dd17ec0b275dc67c86f277ad182c6b019f5d4037c6051e625278",
       "32ec9db185af3be71a247f326f5edb0c80b08c4f349907fe1ab4095c9faac304",
       "8c7cf15f2c6cd45e5d05872728dfcc877848031027c1f9c66d3f49deb1418a63",
       "f04af36d28108d76be6bf18fb543c2e315c0dbbbad155bf9d71f40fe56e46f0a",
       "f329ce1f0e02b1eb208401e51e2dcef1bd39065219b1a6a34937a28a1c1af80f",
       "a71956214d38a813bd46a44f41caf2e43b7863de64f8fa503c296096be920f2a",
       "242267eddf6adf53339fc8fbc4005231665ae5e3147a3382211cb2a0a62bd0a3",
       "3a49e58bf58cdfac9e3a7b16c10ffaad4858d0f597ea2b7fc40412b4a778665a",
       "a589f8770a284773f26d10837c9c5b46471a0538eabe08e37dfa760d4ec295d5",
       "4ff9bbae92c91f37204b160b57c1f38e5fbd42788e90a19f47cfe7fd0e135381",
       "738b7368a1f59e66d876d8b393b685ed16a001576019626c6f39fc7356331999",
       "0e84b4d86a32c2d2c5ec015793c1c19f56bec73bc9e224f4c7adc644c902ca3f",
       "07d156726e8f292e898d0b881bb5fb5bba9522ccc6e78edccd0d0020fab4cb90",
       "929d86ef5f5254bdb20efe10518e5bf79abeb789c3791828b3830c5bce793223",
       "8f452dbacc88df2b0c7ceb8b546c17ece48e23f3c2ada0f645c477011ee890a2",
       "e09ce2845afe01b4fab6ba0f6937f79be75de3381e0016e19ad2f4e25f6965fe",
       "0cd3b3d2f87f7d7865f0a3d606d3499c8c481936c684730b73918fb24de50c1b",
       "9e2787b2b188dfcf91ad465fa6673d9676bd627e844a26f58e95abd9119917d4",
       "08587574cff973a451b978340e30e628c294fedc48a4e4539e70554647877259",
       "07265ceab50cdb3b249267ac437b7180abfb529eb12734fd79a56bafe4772090",
       "09627d6273e2800d6d6a861b40cc33b7fb33662f5e06a5752330c6f76a13f578",
       "44427796bec1b5172cfd4e5c5a9bca99819a0eef2a8f51297dab5fac27b76c71",
       "8ab4d6782b05af1d69590cb24a1054e5d4d0701c960ce96a9c60324c5cb86f14",
       "808ff20f3a682d2d32d7057eee7bf66bae1735d9b7c1310900850c6fe2d62314",
       "aece33d1ac0f15e11479e17525cf1614c2ae9784bda87ce7bb6e686fe4db1efc",
       "42478cb305696ae5c145875078ac9244eeb274d377620f79232be614f9f79ea4",
       "94a1a2edd5db713485f26bb026d2497946e4f16c75646c01691647b5ccc59563",
       "f9ecca35134bb84d821f07c3129cd3ada9904c8cf2b4d7a7740adad7842c2dbc",
       "4c51d9661f46a2432acd640225c0a85cb0f2343c807f23f922336e22b7b8c05f",
       "07807789803d07ef8c1b15e87c65f4841ab5749597a9edf94ffb49cc1b4ed823",
       "9011eb476bda7d305397f6c46f145a9b16122e626d7f483c00f1be4600cbc6e9",
       "1328d3e0af37442814d738dd5bb96fbbae91de7d5770338d44f7fa260c1b1cb5",
       "7ed9ba385539fdbd02d9e526e986bc875da4665ecbbff240a4e88d08c7e3cbfe",
       "a831536c8e1468f509bbd66b5ff917cd4ffed1cd290b3d8fb3976be2dc84515d",
       "128df5a97c783a9c2a1648d06bf8e917fae32d4012948c2ba54d44dc0edf2ada",
       "62357af51ca8253499249a42d9063ce1057fd4c249f7e76c1d6b678dd6ae1a3e",
       "ad6db24bbff24369511bf930e025cb51619393212e54035b55cc0c2499db02be",
       "56fc9f2cdd5ea3ea3fb0161b64398806eb34579499a9508ef5d7b2805e7ef98d",
       "454969fdad4f801b61c200448eef5d135d77fd5bf95c010b2e96109f69be7da8",
       "00746dda291db2a011e92eb4787f7322596da69b4c094ca303607fdaf015967b",
       "48399ca1b82f4d4b5dbe86d8c3fd1ee7c10927cd51a8a12e98805c10b94225cf",
       "d29b2ae40119763f4f73b633c81729d1f8588ca35f2cab3024d85ca9352e5348",
       "21545e79d15140952c6a0e87b7ed5dd226cf10c2611b72e471122cfa445321b9",
       "ce80f2c276e798ca8581aa2e7bea890f33fb8683d4cfed074425b8f33c9d82de",
       "57a7e44718e6d705c7a4425d50f9051d70ab5e96a6596e32631fba7ef57d3338",
       "9fc0b8bf4f33d3a5e8c3b041db389f84012ff8af16de5d3569d5241fc9dd2c9f",
       "157984b5eb62822d8d8e6bb2706368e334dd551907456543139d5890dbf846d7",
       "f2f2c1d92e6e352c957b3546ba6fdc74d83fdbb4e8f12898a58b16c1051d8445",
       "90716fc0d5499e7a661caeea6a6b7c7c2bc0e4449b9efce4386cfc80d0dc63e5",
       "4af3738ee67d72cc18df729967ef4de6824a2974ec88116a8ca30ea1dd4eddd2",
       "ec1544b0474815180dd5a6026b807adbf7e7b2e5500f7a515cc4d719cddab8c7",
       "432cd62ea0c56ac7f242103e39a47ececf42357f0fcf7b805292cbb8371822b5",
       "877858fc1ee172f0257381cc15b5f10ad7e663d6aba64e20c6ba3a556b2ad024",
       "889c3daac6afbea80f899765657992be25952d195534d5f321528e3d3aa01947",
       "e1b21911a015b633c95b1afe758e756cdcb511e7ec6cfdca2a6a4ae7496a564e",
       "c5cbedf0bcd64901d947b8e79360e594f98c8e3f7887a41839d18c1833116df6",
       "c8719efdb63ca20a54c6b2b12e8b763e98fe22e1beb6bb595c91f2418daf9921",
       "f93de4b97aa043967c1202bf40090b9c267d0625fb8135bb8442c48b8062bfba",
       "2382212d3edb350e4f937e3ec5dab11aafde7c3d85597fc9e736908cdfc07df3",
       "a39f39f0db9f2246b18e5ca72a7b43887528d901b9df3a680b562d4e5e69faa4",
       "ec6a2963bf977155db3ac81a55838de0a2c7d488623778f0b4d466ddda5cdcba",
       "cfcf4317a5405fd2c9788522dd45a05f47d23980cb19b202f523976d5bf3509e",
       "9bd79b09b27ee485542225aab129b05d089ceb64183f1c64c514c2686308cc48",
       "b3f7f087d619c3e2a4ce3b32f98950a439a7974af0d9698bc2243a998334ff97",
       "e44bc363a11f0a4d1149838c6123faf143ab1a704b27a018f6dd3711d4f311c9",
       "e2a37cddb2bfaacbfbb4049bd05ca6a1cd7928607f66cb71c90ffb7f024737c4",
       "e4d4dc72772200ddea73445a2609f6bd962d3208d15f14ce6038317e62eacd3b",
       "1126ef572fc7e56a1a6550214ef8d29e9702e9ed795149349707535404d24e68",
       "9f15c1227feec1ebcffa816392117947123aea6c0818a89322dea88e0af84cdf",
       "dd89536cc46c2355636423c8d9bd00ad25ac432297227ff61e14d928cfd31355",
       "0f1ee770cb524a2c09ed14f42275b4bceb734fdb788bd338814e9f121f670043",
       "12039fbbf5bfd29f12a7645193ebfa1099fec23776a136d37976f09f66ec15e0",
       "0ab10a94a524ec6462f749abb1b5375ba3947987829a1ad56601f1aa3b87c940",
       "961384814be7eb5d351cdbe94d412bde65716da37675ca053716ac5ecde03687",
       "2cc2bc32d250e9d6edc62e219f09bd27d9c1dcea9f2ab8e82005fc6d08dd9b57",
       "56d5e05f0e4bf617d8e892db375ff8ca84b72c84535d135891dddfaf924411d0",
       "f76681e6a07151a0b9c2abff9c12d313bcb2125b70783fd0d8e3ab8e1e8e63c6",
       "8233d4961d79cce0cc33f9c4618ce536b73dd4d8f889df420d827fe0edcaf26f",
       "2307d9c488da7123996d13bf3be352d50a94aedfc8785734e6757d4301f84e0f",
       "acde80ac1b6dc595b5ad0e3f27baf8f2a02d65dd697bd185a6f33549d95fe316",
       "0827edbb8bb26da3c03745e0be139d2e2f27939975edcd907f53a55f5bb0553a",
       "0580ec4b227add259fafce6795b983ce986872572ff0c85e1375837336452932",
       "4d16a3f19d5d66572f6bb7d0209a4c32cd2d9556538945eef0e57a677a6ed889",
       "1f84a8436bf8678c5a5cd46607274582f16da1fc036bd0b052ea61ecc7e8c953",
       "c61506214497a09256e6e7304b55dc9883cf80d907dea696437b58604cab9828",
       "a3f3e068706ddedff0e63a1bcd827bc849c97baf375fa36c1f3f5ba083e1e1ec",
       "c7e8367e21bf9870450ce5581477350f07d248f26f822373316f112f168892ce",
       "16f1ad5bd9592d8d956ce1c5a37e4f29d3bb2b623bf6a15c27c0ef81492fcd68",
       "c7b469e6d5b79548e8d3684a0d38ebc283bcf149c6d1cac6da963455327b25e3",
       "f0d28e59380e0a833eb4bdbdc54ab438629d64991b38cff3404e1397a966abf0",
       "7eb19b2dba6c396c7d064053a4e676b86e500d86bf87d1822ced975d5cb40bae",
       "248b307a086b02468940a15b5dbc7606521c5fbe9f9766a6f460ae329be8b454",
       "68c8aca7de5be463b5f53bb5f4b2879cc9c9fde87574316b3274a347302352b7",
       "c0cb9c13461912d1467ac214d98ae33225d6c48e17dcaf0ddf52be4f1de5de0b",
       "6796890892c82698bd1adb456cc359395b6b0ca3a11892cdb655739f8fe51bea",
       "97ae0665612ca3512d0cac26a1904806b3f41a091b550949a38ea37103ba7533",
       "f5a0238df64e1c7ed757cad9e8c059c5fa0f92ac62ad1204e9abb6583357c651",
       "ea2bbf9d23d0415e5532e4cb31ea06d52356201d6d842bc75bd70d2ab8d8007b",
       "650a7249a0be829ee51a5ad2ad4a3bfca57a65356be6761ee0f0e22f53273ed2",
       "7773771a37d1499ceb0ea08f88672660be8783e9de46723a572de64c51383eb3",
       "480ba6c1a02063e7c4f1834288b24686fdabcb4f773c977a8dee2edb607500d9",
       "b8226567919fd3dad761a30a95bceaf9a912996e24c386c858679ea6d56b38d7",
       "ff4ac47e2525ee4ef669aafdeb789e72c693cf2db6323152bb8a679d926ff1a9",
       "9c6bd0e12ed309ee19ea6f6d54b01c6acad7ae685589dd62721efe07d03a33af",
       "c4afdcd16705f5a0b9dc2e5f2dcbc610813ac5d51645c83898d0e39e3112cde7",
       "7477ae4b3e86873f03a9dca3fcfb093c737bf3b5845f066014352b6c8a51eb9b",
       "d108482d729409569bffe3c72a70ef0531682593aed2ed3b9223a1821d11df26",
       "6f34c38da88b310ab47bd4cd33d04b298e05604f948de7abed43f4e166980ec6",
       "0413f2d270f3da96fc866c584d9c3a117b7ccf67de0d983cd2eb734ad311f6ad",
       "2da0b7dd15f985e97ea1a129c5844155253ae67c2a6aace9d337b120c4c34304",
       "4973ed47da14cf9c441c428e64001edf4e121b042049ef09bf7751038d270dae",
       "5a1291ebc5c1f3b156163beb889e979b8a13badd86fd39bb4b21713dda5690d6",
       "75f55adbb90e7acb1c81a32721b3e059dfbe0e70c3dfe711ae950e639a87907b",
       "803e0f4cb6dab310269a092a2511e917e4f929b6cb8f422e0b033ba23031de73",
       "6aa289528dec9a433f827ff88aa85284e6ffa94b45bb5bdf91b47b07046c0609",
       "de98862a30e3d9627b05f0c8fe6f3c786418e17c29093685899696cc9465c70c",
       "6e4a8af537349e374b5e85271d71a56cc453f314427c6040b332d38a6db242c7",
       "9295cf387fa397752f3b2f06a9a48c453027939fa7e032bc663ebdb3758780c1",
       "9ebf87c57e0cd074adca1caeb9eca5ad05d7a366dee72296b155c0ba561396e0",
       "9230044da738968f6f510564a5672213441aca4862756fd6ac88ebcd4c00fa0c",
       "33047450c8012eca301a92bf2baabf2c43c04d1a156c58a4c77c6714fb39de3c",
       "bd96dcf09af6deca9efcf678030335a95441fd9983297c3e147c0970d762b2cc",
       "ca0e1f4b92aee7be10fb02d2e9c8aa4a8c1ff20febef281b419fd5ce558befff",
       "f7cec71decad355c4d0c7c55cb1215ca3873233396dbe08ea4149f687ee43b8d",
       "464a0937f7c47cba11f7f6a7da8fab8e84d40a00517afa11f86b5dd7e6381e6f",
       "9bf7d0ae6834a8ffa82aaa9727f526af529858843c0152730225617d77cefa74",
       "03583fe27713269ec60ef2a1bb324e983e0fbff4d690ef2cbc57867e52c1ffa0",
       "0789183680d333d2bdb46d767b780e1ded535a208e6416b099069a5c98d0f2bc",
       "0bc0ea38fa5944f4f11f477ed332e935a9130ea06e2e0aefec0dbd91494b4b5d",
       "fcbc05ab965592d32a8a9b6979c74e06140007bcef6a252c86ee3536c75cff40",
       "02d0aca749a3ec8de9d976dd8666c84d09f21c8c5b154e3b1118118518b2c3d9",
       "5b99b7acab1df22d0ac89c015570d012344d97c74601082d5e58733473c60b82",
       "84630ad2fa1776174cd822f76455607b32d7c8b0361d44d78b83520234a07af3",
       "5111a1681573d4984b57e7c08e7e36d9268721c552f4b489cb797fc31140178b",
       "a0d06b140127294d3a08b89dce35bd186ffcc530d22acb90f3a8bcd549fa14ae",
       "d280c6f6071f7846f88ec3965c705c3e309e46aea797c9fb67fb2f8790dc6313",
       "bd9e47f31e69b4143f27a985c739e8aefdf7024a38aa94746c993d4f433aef6d",
       "27fe2486a20b97086b981b6515f0287d38f27122d475c586c0933f0d7e2506d6",
       "004d745c5cddc9719ab8d02bc774b0a65c63320c75b546006b75c6cdef651cc9",
       "3a0ce77f55791ee8a92d49b6ed0fb553d9e5f3d6b796b454584b298ca1b9a3af",
       "73a8295452f700c83680daa54fb666342377921f570282e9ca4f327288ceaff5",
       "c23a8430e561f02b2343a614709bee1619c11f629576f1c1a52cf20e7af59b92",
       "7d0b315f78b9c41c3e72c2cc815daadd89a0535aecb36e0d8b52f2eb97bc64b6",
       "4941771f1b824e451f9756a438f3ba09765b8f093a1bbbad14d8759fb755af28",
       "0e8d461930a76e44cd228b2d5fb991947d4b61c0f4e77ec21466012a44448f16",
       "7e609784a99cebc3d65e3aea902fe5ce6913f75e9f8ab8075a7cab51f2cb5c95",
       "e5101a85ca68e8010c43035975bb44ca8090a223b7cb60fc04ab6414bb36734a",
       "42c670ad7453b4d10d2ff37f00d6fa0a67e52c1bfb3e341a5a08f487622ae76c",
       "7d48bade344714face272eaf62411f8249458b253ae0b8eb16d786f9b6ba39f3",
       "b552cd4920861fdaa36a99d33655ae5e58e00e3a973c20568e4f32fb88e0466a",
       "92770c5869d6f1aae6d47bab6a5ba8f8f0d07b03a22b6a79ba094407844ca4b7",
       "5f7a984690d2fce783f2c19a7c348308a5f1e8abb42744d3cf9f5ddc84ecc48f",
       "14cb270c7c73fee62bf7b145752391753f838d68d96285a4bfe7035636cdf62a",
       "f05f07c964e0f5d7e6a9d2fdf91f855ec15e7230206e3bb978d6938fa943ee96",
       "b950773fafb9d4541e7c7417ffe01b37ff54247e7be44b857b5f62ad15cb1001",
       "058ae3a1c90333d5fd87bab5e75cd2178be77c56d1a46677262a2c4fd4671128",
       "5b8b166d8b03a835b1edcb3290f42ff46ff97bbd1993da69fccb71490e597b3f",
       "54877eed09830cd424fcb245c3907b2e3386ab949c5361551a61ba7b94c0b3de",
       "9f7e9860ece6a604075f852099e02a9d28d88097898c5a30ea7d1348e109a077",
       "13dfa28973a5fb9049e7f00595225e87b42c0bdb35110716040a7981959fb42f",
       "22e05628e8dda0e9f801eb8c2e3f0900f1e535a44821ff2810143d317cdbcf00",
       "ad4dbf39245e9576a105a304183c8d540e126095a2df43cd46f307329f62f8ed",
       "bc90c24ac9ab6b28adbf3fe2bd9cb1ad80cb2abb5d2217b32bce36e04f6836c0",
       "95efb0e83f700d6033ff9e42bddb9505adca45fac67627721ef91ec1504be359",
       "ca15417c9bfcb916b71027fded2eb8e6f0b7918493f0f210e1cefcabf63519a7",
       "f13884d2bdd2f0594bf9bb993d8d928288e053c26d8efe2971ca58e3116f0a79",
       "49df11b66b42a20badaea2a1ce65caf50e1b96ea2c61dd466d21c876d1450fc8",
       "66ca4730c964ee35501bd1afc6ea58435e6c020e362b214f42a17655a8c86567",
       "4ea21db24bbdf902987efde93ab1292da253fb8fc09a673fb74d3b22bdd27d30",
       "0623ef04bfb609a9bb0802ca7a11efd44eaae6a93a99803cd06f650205c71e67",
       "cbb331e635abe3ace6a51b1910913fc5616ffb27cb2d295fb3baf7db1e66bd24",
       "a42fe907a4a4c0ceddcb54e26a091dbae7c537068c295f3811682b7a6d961b53",
       "b92d6b4acb89be531bac5b9225b90e3eb419ffb0ad00559ee9a95d2c67da3616",
       "53c5e1259a48ab1cfbff1c32d6eb7e61e2fed2d90176617f09def44119346913",
       "e03c9fc204196921c6005d64f30665f61175f403b68b34b87197d02d278e439a",
       "7b819dee814d1992cd4a2baa81a8340e492fc35ce5d0f9ebaa670051fd767a74",
       "a55a41f3da7005d700824e78c2e26a5dbc1dec27456f682cb49f717856027bf0",
       "c652c6c2e03410d94c78f87781d03ffb2527dfe3cc777db404f0e913fdb201ac",
       "b4d0c6729cffb893cc671f64182cc4581bb83f4907a69de9781340ed687d0571",
       "65ca2d40813c1a0c252a129507857cc094b8d486337d3e92696679bed5a52d1c",
       "35ab28e5edae484428240d43cff0c549acda4fec0624a936c6ba6887631dde37",
       "db0fe5879fcfe9d647a95c5024ab7de90af589c2078cd5fd7ceff39305959023",
       "1ce50026dbe4575c39cb6a27e278c5b0f5b9121f1c7afab7ef07fc8c695c3122",
       "51f0d6fc7001321ed8de2929003c5ac4e437b119d7137ecc034a8d2f82410319",
       "172b4dd0e05b40a6aa603b80983da0188e8dd42e58d058e06d4fdc83c4a709c4",
       "72a1f761d9d897510cc6ba2eb1df7598597a801ad35c4867e22831935089cc3d",
       "489650528527433827567ab902c2efe54ca48d8ca9e0416650d1eee2d1fb9ab0",
       "c90237445fec145c39b789016a870a668e0bcfe12488bdd481ece9c2d5825c91",
       "992d97c3968213959ec6bf6aa6ba9832ca22009302f52ea275a4c573c16061ce",
       "ab2f90b45254bd618097b5ebf73a3eef1bfae734adda561be0c1e797d4cd3aea",
       "f8d4ee46cfeefd399d842d590968a26f5b7d11980bf99da4ec1beeecda22e598",
       "78490ca9024286cb46053f03185a0315273b09f3977a12521c52d761c57a3cb8",
       "21f8fcf6d6df5a883d7258e91e0b945cdf0307180e24130f8c8325df18ca3c3a",
       "cce6af49b76d81b43f2dbdb654294cfe9000d3efd85ff56bf22c419edaca3f8d",
       "f758b7d418f790a6907228e2dac8f5ad20cf5d009acc8b16d110cbe898895744",
       "fe3ecec0c218a89946213a5667a63a55b5ce3114cc045e6ed74b9845bdf30f7c",
       "f95b218aa018706861f531b373b1332840d7ba98d8c24ca1f35eefa58a95e9b2",
       "c3fb5dce5cc1e6d0d40f73a637e5e3fa9ccb414a88e4ae73a81ef8e1e5c45afd",
       "0f8d8dff469044a358b681e17642a1bd1ad73e684078d15b8269de46de881a77",
       "692284c699f2d0b0ce616434843e6d787c2b9c89f92091832a6644f4132a82fb",
       "6f5c753bcebc02f7246dbe080b4cf0a7f84f8762d9fbe297ceca22422df47849",
       "7b51345ef80d3f0c494a1eec90c5d18ace20ce5b008e1f60d0a038e41be83dba",
       "59925c809ec1e1daf0f63fb4bc5a891f43201f4bbebc5d2f6afdd997ca45e664",
       "86bf1e405c336f0ab6c40c6caf224bf0d9666dd340c60a89c19313b14a8b154b",
       "c694e8bebe28707d129c2ceb0617fa933be53f56a4bfebd1dbc66a1767869431",
       "d585c90637eb60a55ffff49baedf4d368581181d45f7328907fe99827eb97bd1",
       "b5468aebc92c5cf6d1dfd79ec73c599c0b8b2b3588e643037e0253733352a865",
       "419aa20e4cc2c110afb89a262858923e9c4be10261dd58c9c9d3ad9067a6ebaa",
       "6c9f07521fad01f1aa07573defcb87132dd7f7574556c08f3d2fa68c186e4c1b",
       "efc6c7a81acbd4fddb517b770edc08cf36c7fb31236d7ecfbcac2d01c91ba3e8",
       "a4ee621aa8841acb25a11baae90833e9143366760c6ffbd8258c0177c9e689ac",
       "105e4f89d7c169e9f514379345ace5272c89ecf7fde037b7d1016397601f935c",
       "c2c9720ed35f0d862488dae78ab032ce61c0cfe4946cf2d82d79ec02085c1cb1",
       "ade7fca620af715ae73258ca5de5e9a7e1cfad27eab5022e44425947f31f0b04",
       "5e5ebc9056af4662f78c85a52795a6588be2b5096a94b47b6032cefe56a313bc",
       "eb4836154c6fd9b6d2ba365efd83862bf17643508c7e30755bd1e37d119765de",
       "5305e8393cdb76bea8c11e13471eb659a60f8057a7c8d847ba68dcffb5d0051f",
       "3dca2d181d34c9ce45dd6453b0d167af1161884e1156201e53e5b7860d5e0831",
       "3e4e05eab9e4aae66a374a540384f0d9c4ae55a16811cab5b6e24914b45f17ca",
       "7ddb752d3e6cb140004e9f94afd957adee1e5c1df5fab11805e00023e0608520",
       "5bb45b0333a2bffde94068da55bc276948287c60a1bc74677487f961ecc398f9",
       "29b0a7c5e7f6d14c391617bffe64d2de630ffdf0a2761bfcf4f03a173c66e74e",
       "2ad10e194ca1d88f977a78cfd140a997703dc555c2a421d7ff11cae63c01d734",
       "9b55b7bbc06609b9f5236365926def4c2e34c625d0e0d215aab8f2c5f32f4660",
       "8722e6bd58a40329dba9766c80ab847fab816f8eb4b29231cdda37a224c4a9af",
       "0d1ce22931392bc2603f8491ba59e84a08b1aa7b747c5966af32bb01d73c9c93",
       "2d09b8ea3ca4c89c821de509d553e70db25a43c6afcf0caeb8f3d0833fa51a57",
       "7287d2d65f9d7ee3e05fce832107f763d73554026a0f3e37b22a3e131f62aaa1",
       "e67588d0d11f83dc88fec050b0eeff0a172b90af5ba2610303ae80afd160a89c",
       "c7d149505cf2fa7ef3488dd7abb12c8e8766732d61038fbe017a16bcb5a6d89e",
       "4364c48a917cf9430bc8565437cc5ac482ea21389739c969e4d290911198d9dc",
       "70f41f2ab63657dd4986578eacd295136a213688c72b9dc45ddc84c05ca38a0b",
       "8246287d98bd89ce785c9de70e154644be48ff236199acae8937034857c834e7",
       "3dc4a7a19c532bda66764ef820737c7d9dcaf0fc54e5c923fcf1de2bff0034ac",
       "044beba861525688b893e96899d4e3639d9acedb22d377d184d73cd5ff38b572",
       "e09408b824f94933d8333041e9467e6ebf2bbacbf4255283f24498c26ec7438c",
       "f7781adbacdf894053787e261649641d83585a1ddaaf3faf545591f500e58726",
       "bcc934850f47c1d1a5defe5a0fd8bc1d1fb7a8c8b42dc457bd5ce2248fac2a66",
       "c79333297536d416631f752d3d202a720524e9dbe60942be54e2ca79699fcda7",
       "8e95a0ebb935139cfa3a49978514fac7dd0f95ca6837d80eecb785296fe69ee3",
       "090771effa4f1af3f499532bf5628501d7d372e01dde8e9f1057b23952b07d76",
       "572724efa6bd9b8c55bf23b84a2bc3dde71e8f0dd41785c908ecefacd0997231",
       "5988eec5e01cb0538f54ca06b0588caa6047d924de7d7bc474e2933683e6646e",
       "f9adcf17db1b5e10e43736cf03021966c065dc90ac710f0a9d7b79e25e35c481",
       "82930316f41f28dd02a9666dea6cc35cc0e61448f89a3359162cc1cca05463d2",
       "e76f1a427983af952ca1f1b6ce9f69bb48521f2affdbcec4fe4e318948c000e0",
       "c798082eac93467f77041ed5bcdef1ad3ff75a3b9d7883bfe872a0239431a35c",
       "241f979f5f836fb40930090ce236c2ff55ff1823fd2212d5033d42fd33215942",
       "061e09dc48955aec6e7c1b7b85571efb5ba4c4aa10dcdace85d032431b7226b7",
       "dc187a807cfab24647b285649a6751c993d55044792e720b2cc6b3eb215aa7b2",
       "4b44a4015c78c840a49a8aa33cd6af372881f8ae3030bf991fef7c9c9a067bc4",
       "14f4a028b6ec06e56b88821933072139550046772f4bd2999b8ba97c78440681",
       "2f445ed219d5a95d8e7deac0ab663b6fb2133edecb3d2da608cfce709a37703c",
       "b332d88d2ddcca42a74fa2881e1894c3c388a9205d08d837707252808941f2f8",
       "e2f32ca07c59cdf93223f856269564ea090aa0db7a89aee6b7bc4c6e49043a98",
       "f6da21c2029a5eea8ad8119f276d183272bd7b76feb41990be6926fd950e3517",
       "0feb92ed99cd0b900b0db8fa13528e45b5bb228450b3f754dc6d20ac17839c1a",
       "47dd46722f4970633a7e6bf8e66af7c62b5e2d54fb08c959ce4c078d34ecc55d",
       "9e92166b595cfbe909195932ff83d666a43fb8f9b9a6ac42ba993f864265c9b7",
       "13de9220d2cc1767556692b68ed726a89ca03505705b73ada0c4165e3126a2c2",
       "df3ed862f07b835de1a8113181ed75c53f7a72949d9fa3e2427b7684e951285e",
       "9bbe55044a257dd0cedb391faab658fe3891390edd4d87ff478ca0ce2b41f6be",
       "caf652949bc99e28ae4bfdd475ee76eaf034f6a458981eef4bb1295dab60922b",
       "6200b5f47449321c93d9830fb394ab5e3dba8ad438b8125d26845f3b011df3af",
       "07ea61f4d27667bbd21f162e99ada177678567f20b8339850d8521c6d8689603",
       "fd24efa7e790db46b54d59542c1d15c26a2e751ac8fd0151ff7252ddd74e3ee9",
       "1d3fda9a6ec2c806a1f59a4448fcec7c9d885e19278a6e089969f49c5675d4c4",
       "a70e17122dc590a53f06b6f3d30eb16ac9989fdaee58d04c65a2d425fb2e7cd6",
       "33b6d4fddc6cd7fa24a986903304210e89903f1a0e9d096c67fbdf6ecf09904a",
       "32a444301e975621b1a7b0fa5c309a85d526d5a9d9aff08c75fa82cafb36cc0a",
       "3ffb0e58d754d65b3896267910b82e393f71d0a285273818aab228a683995033",
       "43da43f1bea48059924e00b5372be3382b8ca70ac017f6b8b06fd80acbaa0097",
       "a339732b375d564e8a19e2e0c85c6514b465c5007c9f10e7b3f56e0edfc1645d",
       "4aacd44c7a9d013bb824adbcd793f472466dfa466292e0cf22c71587caa73870",
       "d670ecb5e47a57b32cede8c8a4b8cca24e1a4e681b355774c8efb52c444cc582",
       "4ea8144b3577346c35ec724c9208dfb462162b40840ec1be24e7b01f56b9a8d8",
       "9ed3df0e48129fcf374887090ec80110bd3fa997f5a5bc620a244599f8755e17",
       "d755dcc30d9fce307d27f502e8478401b05b8b7c67a92ab05df1610152cce661",
       "2ea354a6a3f286870fb955db24b01171d55df3e1d6d57d1b1e5f8fce3a7e0d56",
       "04e72e9ff526ae5cc712f81ed5d9c4c9805bb1c252dfe6f9a6a62c96fd767a74",
       "1a9b24305ce4e386221f46be8baad9160fb85112c23aa7f9fc97858d9f49b003",
       "fa3d6a7e3352ff4a94fc690b528940ff617894f0f0a837cbad373134773a4a96",
       "00d1b711c9e8fc3823c79e452978f321b1e22a1a5fe77647f73fbd1cd976dffb",
       "dc2aef14991373f5e71f248fd5d3d4dda3a9af2891d20cfdc6e7c9f00074b6e5",
       "3970d61d2f7a1f16b8de5ae6cea148f51eced0cc973722173c49bf1215d86358",
       "ef7c84a7adc65d1e1dfa0d7312cc50e34bd304e45f29009dc29117a5225d90a8",
       "430a6e9781ff5d59d36b78dbbe4c38aac5af858ce86a692d3581185d2e0269b0",
       "9fd526afb57cba3e0d6fa2ed03d4ea521cd8506893f47accc19668b945c0b086",
       "d0a11d97e9498c88dee847f2eeb25da63100415f64c386b441577ac3dd999c0b",
       "f7cfdfbc9f4bd3aa4128f81104a11eafd70c528660be76642cfcf86c1a9fb6e4",
       "42a5c7f387e6be39ee3f01abdc5da6c0c19a5e48bf0b11b92071068f7ebf454a",
       "ab2c7e6a31066053b0370ff98f38eceb5d8185e63c0f8922917136bd58afa219",
       "8ca59340b76c9985ae24a10e8c6b256af7021241eb82b25dc8075ffeca2e63aa",
       "3034113e1caf46bd9d3261789964b22d67adcc9b64e37c095cd1fb28a71db31b",
       "e589db0d17baacb3004740639f123baeddf964d58a163d45e36d74f9e42c6d62",
       "b4fc9ba2866ccf1923469b1d9abc20b72b6b28ae441d365527bc6fbb2a1f8716",
       "16f35f2dce98711af2fad691663f542789a351fee343a1dcd41a02d5a2d53efc",
       "036b4e2ab3987f01694b87c2cf68ec50514ba637e46abca4ad27f637fc09466a",
       "903ce49387f7d36fa920fecf86b3f5ae3f1bad50be7bb6077eaccb71ea210d2e",
       "01a4de3f9267d890b21f654d53db28d845b9e9fdec3665651417ad44760cfd4f",
       "065d4dc91b8bf4e3514a13a5498ad375eccef631280737490544e2fd8998381d",
       "7a59af144a02716284dcb0f6c17d92d632ff6181863eec7a2c12e78bbf970b21",
       "07b6a8941669c33f5da10bb8dd59de48a8cb75f1c22a94c7e0e9504b0e9e03f1",
       "62f5c25dcb2217ceca3ecf5c0c4ef0cd33ef6697b4abec4f072d3585cf049d76",
       "280757a0d3279a83b4cf952b33286e257f73a7eacd02dd2108a132faeeee14ed",
       "9b11e3002d2f49c375856c9858bf6b69fe252f22e999d723be6971f2911da9cc",
       "ff7b127cff4ae7955f715dc702687709256069b9bff8d6312d7d03049bee06b7",
       "815f6d514ec004dce5c20d299322aef49190d77597060e40ea3bcd566d35df05",
       "8bb89259a1051e42ffdbfe406900c83fa754453c5b65fc2afb29f9af3bf653c3",
       "bd8ab1b97164060eb52c90a5fdc8a7a52ae2f681667423610a1a81adeb96c1f5",
       "12adf97b98fad6be4c494714c206a3b2e7279442b697b70c5798813f5348dede",
       "016c87854552dfe87a8251590158761456260b1ca79bcde4896202617f2cf30a",
       "b2b5c132c2cb641084293b63d2c53358572aaa4cb9bdcd1ac39b8180956b516e",
       "2cb7bdcc432934b5b239408e2963194e07355414b6fba40cfe46fc6e9fe983db",
       "5b9a8ae1de8cdaae9d0d7c69bec951adcd15dcec47b637875b106d89204d3b9d",
       "06770259df6fddce3e337e6d52309defd17dcca433bb97fc8a405c9754aed87c",
       "ca0801464d9d5a94160291ddd3ca7f75cdba9c326536f9f578735bdfe6a98e16",
       "50b57f190c44a4c2ba17fa20286183d849c1c813d393c76f7f724e57f17e6c42",
       "200d7f571b1f15d6dcf15bdf8f6b775625e0545e33d609200a85be6ea9efd1cc",
       "ea061acf17062b8a2d8e0281dc38479eeb546d4090ff451edf45c47c1e374222",
       "467caa65b82eee7ec65f80eeac599d3dcc9a1ba012f32ba36c3b93f8b5ca8f0f",
       "c7571db34c57106ec003b2cf48495d7b732906a81d52c6e3c71fd14218f41c94",
       "bc497c05988d1f7520e276ac359200fc635585f69fa565f61457b76332597860",
       "bcf2d9fad2ab6a9face9b73d8ee11dd52d1cd7ce9db0e6ed5068b831b9ef2eee",
       "85d2406e5b295d7de1cadd77bcaf4bb376849fc30cf0457af37b8dc78c206c58",
       "2be85e54dc178e0a8d6bbc75bb1616fd278b9dcaae0248d04c8b19e6f00fa7ff",
       "a73eb0f8fb6d9c9434d618a8d526e4ba1404e98a8c518c6e7a70b92bc2d44e9f",
       "4c15f61883ab994b0c3ec5c390c826d741db800c70c0b5050eac918491b1b2ce",
       "41761a7eed126509a4165a732f38b543ac71816a4844817105ef28c663d189dc",
       "9c0b5e661a25050dec6dc743ed0119f9e621acddcd7d4a882395b25f33c3f543",
       "19747410639f2c2fcbc9c8bf1fbc5fd95cb0c8fe2ccde7a35c2181220b4c377d",
       "87e8c5c5b8adfdbd02b04c08d811a78031f7f6d542d852f9f65ee14ae21273b9",
       "cdd0b6fd280d98af5cdfd2e726b69d65b2a8f8fb8b6f9b2b24069b5528c2c9b5",
       "e0b2e673e4945f800a0b85f105452f53f3959984ca87a7d1dd107ff4ba0cee80",
       "b2614329c7b8b953faebe30150efc5a87f925254a7e4957f8490893fc47d5d03",
       "f4bd657ee5a131a28d4481ec6d7c7c5ed1a39d08c96a9c53a27f917f8f080175",
       "d5f5d6c17abd96476fd9cc73f74dc180a02f63beaf30ba38f227de4100f631e9",
       "b718b8f13c65a64cd216ce95a2d3ad825a4f75180450f2dfe2e8ed62d90b75a1",
       "671ca45ee82ca957e08113dd25deb36d91328c9d61b47c5ed29b3e57088722c9",
       "89d8d59ed56f20c0deeab8764f7f39eafbcda190324d8559cf1b449ec90b3cdf",
       "68ed542c05dd132517b76a26d065f6b0df3d038ac6b4a4945b8e298d3b91f652",
       "f8e5d17a8c5c5fa256af168d394a07b027564345dc74d30eb805ef19e1b2662f",
       "2a6525484f13e4e4040d59d1ef6139f1649724821879c2ad03fce523f4e45d2b",
       "097de0a7a6f111bc277298565508eb552011e5c40019323952567f2c50bdab88",
       "b1f452c801917e74be8300423e80ac4c3aa58c9766762e462133c7539b0a1cb7",
       "ef15e21e2e185820f6a5d0816faea45dcdd2d0fcba40369d8fdd9d9f58ad11a3",
       "14afeabd7d7d4ad4ec63f10645aa92b2114ed93b98edea767e206c159dc5be60",
       "984ff3cf2d7f53073441fe03dcb626dbec5bbcae2f6d4dd5732beb45d720e366",
       "18a6c20bb5053243fb04435d44dfd315db752f6c49c6a4e7ff35f91ce64dc5c7",
       "e09d6f05ac1ef2b4747d165c64e7d35f1845f64408b6f09ad9df497a2b1f51cf",
       "6c9d74eb9f9f39d3f7139149242a8e475a281cd0544319429ba54b6f8993e8cd",
       "a7409cde395b1af5fb453529265b4fac813988fedd1f08d95a24491b32ebbdda",
       "32bb06780531f701ac65f7c0e10e1851cc4b3be4a73b75ad5ca24f48bf4ea317",
       "8a0f5ea888d25afbdfa00899efddf14d28320d111b09703aa4480b1069c76138",
       "5f0bc699d60bff3a0080d570f1bf4c77005345ebbb657cd44544312d7cef5af6",
       "aa59ef0d37f302beadb139630c6add2779482a0d97eded747438384d42b89ebf",
       "396257e12159e7cc041a6921a9daba3f66dca5f4e17899c0027adc579b23eb8d",
       "ee8199e256c5d20e3e868da64751a8bd82cbb24b228dfa7c2ff92ac7ffc1ee0e",
       "0cdcfa84d93fab616300e3239e72f23f2635f80cf8a707a12237724c9c3a1525",
       "69e8d0116da966f9ad3ae966dc30e8ee7640b6ce016c3767f8e7c4e8cfc215b8",
       "657c9f0af0da85dd97ae29a5e47e60e9711213f2cc90dd567bd1236e866699f3",
       "4f81f775edbce0d6f0ee509b6ffe49aa0e2f606d17eb70229b04af6f391a0e10",
       "eecb8baf156e63257b6343b144a58dd334dadbcbd6f8dd3291325fd14fbc4615",
       "07c55184181dfd1841ec38902d97dbd40a24004e2bb19afdab53352f6630d3ff",
       "72d3ec99f735017e01e8350c03c22f85da389318bb7921101c71e6b91ef2e85f",
       "55d51f5627db00ba34dbcf38e3e60a1f656611ed882b6c228bb82ae98b1ffb52",
       "60ae1e8223605c633a3e71c332890e0ac7b1c158090153e72dcf3d092116792e",
       "650eb38f46c092611f16908ddbb3d7e74d8d1f103c622806c33091e024775930",
       "6e011d423c796d8ff58e643c16a1c335d7c5155ba7807ca56f576d8f5ac60b51",
       "72063fc6f61482a2dea5da9a0a8ecce3a1b785953c147ecc7e1cbf8f847d3e65",
       "094f01fd09bd8382eb795480630d81e68cb195d824eb9dac37125b6f82467268",
       "7dd18a60d667bb44a44530c14ff34299fcef946a2fa21dd93f3e94037bd0a6eb",
       "9906d11213305a56da0eadfd4955d971aa0b9e12558d4c234ae8f2c74e416a2c",
       "5c130205cd72efc5fecfb69914b8b9eeb25c72f361d085e3a0023240dab05864",
       "b10c3a43b50168b222618da3773692b3a4af04ad58751e78dd905e82774390ad",
       "6021f855877c2d1ddc1cca33f2d5c1623dc9e7db053246a81e6b93706f71a679",
       "a620621f823060410aae8eb37a482a3ef62a5366abb65250ebe3a2ed17a771fd",
       "e694780cf2864954fb5b4babaf2cd34bbf222e68600e4dd07650b8e26db26db6",
       "287a40f6c6c47e72bfc7a0c06155783947c22411f0be107ae12dd039fe472e74",
       "4b9b73d3d9ce835fda47ab95f3ef9fce56a79119e1c2ff3a0d50c0155747fa0f",
       "aba577598a65068f525a77edcac572fac61f6632acc351d4e25af39e2a1d8b0b",
       "461fea87c9f879410193cf9f48d53ff6d9e1e2389a36b05bb80cf36deaf95b49",
       "40070dd545a02f6e5df813447b3797e5da79a2f52e0493414e85afb06048cd4e",
       "053261ef8202b015e3c4bd7ccff04f20d1c74d08798d3c2bfdc22fe8d98d2beb",
       "d298c8a59b0e28a2f397dbd10bf66d91caed5346f2994feaf2608546fce95185",
       "68ff9c5e4a1f54d674843f49bf5df9769abb150d056825e4852433ec14fb6d4e",
       "37cea0f9a0f2a9e262e23ad70b9b3a501f80889d8739311112f3452e6c22f400",
       "0c3949a16e804b46659bb48c10d54e841b2259e8560839ca685a73e90e48e483",
       "30357ddec1f6a215ec7e7b88b7d84b0e930523a2d74865fd4d048c8b70aef84a",
       "ba2a112e5ccee72f4dafd59ad75216c6dd26ae0c12c6d4e220cc27e8d5bc2911",
       "890901b5a6d5184d3744db141688f131de229efde9b38077768a2025c33fc31a",
       "58141431f2801e50ce86a35aaf80194d563c3e8dd5fd76ff356f534d9466d11e",
       "c2da117a2b9000b9384913103fb46915046ae4e7a15b9ce14109745eb20518ae",
       "775e4054b42d3c7e3ee64dcba2ab8a8deb00567f54c9138bf4f0763ec18c4953",
       "42fd6317f9d293298acb4cda3934a61a4cdb9c2fa5a9c5ccd55387c395fc5d2b",
       "1b8fd5b3d8dba551c04a7940291607fdffaa8eb1860d94cc5a93f35f3e47c26a",
       "f233d46ef5e0f2f0b3d988f22c5dfbbe9c21da73bab4df6736f983ff166952f6",
       "82d470d59d04606fd13dc2f443f016c27d44078cd107e52e8df302bb9de510d7",
       "1ed7608532ae459211edc1631b9f130823ef4f98718b94176e098db85dc26cec",
       "3263165263194103fef52136571a9622fab9ee2f18b5ffd584d16f81b572c677",
       "5d9eb2059530a3298974e94c28bc53ccbbf0517f37e1323a4716c71162200535",
       "5bc116a6415c0b5201621dfbfe59f2f29066eadcb5bf2dc0aaa06d87080b6fb3",
       "73351f1b94cc6ee4f3a4695aa7465c52ac8cd0199f6ad27b7c0ecec50811c7a3",
       "3668cc236718c858e723b6708e5b32127b1665163f1e8b8f4895a8a94c656107",
       "c686520ab90a4910520f59da0e90d3b332e2221ecb0be4a5032746090419dc24",
       "791a3fdb31bb8bb692180f208a3408f5ba4bf924b455ddbafebe770c40cd2fd1",
       "55699e3fda85cd04341a67acc9040df174459f2776dc410e3e315467153ea054",
       "da83b6179ab70e237fa0a6118ac3a3572cbe7ee276240da6fee918d434b8beb7",
       "f8fc02c3bdce0fe1e7405535ff423a95d7e15dab03750603be147758bd4b1030",
       "0cdba26adb3ea8de9730594448746d9304b351be4ee9c3592d24e7c72c08f878",
       "00da5cf4f9796b45d3925204a42259f8e2404eecc7c7ac4faa187047189b39ea",
       "5f3fd90e7c421be1210fcfc0c400bde3fa1e668d906b3576eababe8f9b3041a7",
       "106a067df117baf10b7bec89ba2c8e621bf668b4de6104e2df145183eb55d893",
       "1aadc4ec4084679afb8a2a256de93bed566140031cdcf36b7c91fab999edefe7",
       "0ddf73396a6b474611fb11c26ec8aed6756443e0dbf6831f8b37910c1a12b262",
       "9bfd5a079f0df3389e5592f5b642056b5c1d57bc2947870a4e579b7b40696c6d",
       "5f2ab0b8811cc02ac1d4f72e897cf9a05e33405c4b3ccc487e9425deb2bda448",
       "ac113650a6de7210cbb148e5426f235af79b904fc1616f724e1fceb415d934bf",
       "b72cc9b271268953466837dbe0d1200811b152f7f219516e76c2aff529733170",
       "acfd43d951af02127045ac12bb2ff870bbc1d60af954316052b053a169d1c26c",
       "13b3388fc38852253d063e21f5efd04b18e647a8f8e412188b6ec59465115c94",
       "dec47e0e76f9fb6f0ace0104ee737f889341ee587a6e6ee2ec4aac73e420c21a",
       "0eaef4aef04ebb565a77e103a3ad0cca804e023f789494a5e9bf9bbca69fdb5d",
       "0c043066e6bd232da69d860e5764948a7b2ac35494c30448d8cf3fb667ffeed7",
       "690c551326e4ae7bc34c6f1cb9b170363e0ca2529b48bdd8840225bd718403a8",
       "1ed98f92dca03b6b58c483ff43051d6d86bbd06595d9883bc3fcae48832deeda",
       "a3c4abe68513fe01fb5db7e87e5bc5dd40dab014fa7ccf594a85788a9b5319e3",
       "9f7ee3c76eb89816566b14df7fe1a654ca2600ecf4ea715e8344095b06ff8ca2",
       "06cc3ea0377d39ce0484273a19cda91ac69e08a2b5f8f4b6918dfa122456a326",
       "09d16961eede7792516463db48e0366fc7a0decd756dec1dec2efd0b5eeab8bd",
       "6bce54777589368313ab030fd715ce650a63673fa06680e2d416244efa078158",
       "528d6f433de3e888a65129095ef370cf76f307dca130c984274de0cf38540fab",
       "6cc72434905788e72c057c9d5685b9ed55a17ec699e594bfab83cb7d5f2d8cc2",
       "08057c1db719707a609c6d466a681c20b9ffad439b06172709b0d9dacc40892a",
       "35d66534fb3b07d9b5f0570edb3c7c76bcb95953cae1dadbd92a4fab3473b44e",
       "e9d047d599b4347af8927d5017f1527288c9ffeea08889d43489eba763af1544",
       "4ad35dbbad80415b152086c180b58e3722ee00cfef88709d63136b3085e9ac5c",
       "f6a131746ab575febca40769878ac3b41f80d7ae05184d9fa9db228546f3bf6a",
       "98a1f98bfa4376939a256e635e4c11db8427debb152ce0fe65ad7c4f2be92ce2",
       "b2bdda7dd1eaf476548cd575bad31a57af7c2af6c99361c8dcd32dcbb6b45c9f",
       "3574d254f730ffd0472be3674772ba53f05a591b5e1f34a9e9655ba213256b4e",
       "07240a98d38a946c814bc7942c263d4c80a7888200a6fd4692a7fb072aa92958",
       "b8d10348cfe7a4691002781c53287ef25985d754e1a02b06393efa358f196a47",
       "84d048e96628ecc3f41ad29652d5cf903bee0a554c11f7d9e48b0922b89d3398",
       "9585b6a8250af7897f9ac9e63f46241cce93585951a38a5cc03c318187caee87",
       "a2702b4aac35cc3424debcb099326729261b2ff3049e2318d2ec287e624c8a24",
       "c00ae66bbf3e992539a700c5a635a4e7639c12e2fef4a7eacbfda908451c2320",
       "b9ca908400067a770219aaf4d51589aa0e7f58cae28d29e8222f6d58e669066f",
       "ff15117c7dd07b4c5b2997f14c9dc47fdc387956ec42862a915cb33f13c33815",
       "c5a53cde9e39d8972baa8a685e3a54148395439047d6a33c30c5708cfa1a7830",
       "425bb72aedcbf7ba927342dcb0ab49a0e0492571def93ef803df532b7d209972",
       "69542e8ef0b72e11cecfda8080368faba1782f1203c48508c95637fb2bb80c91",
       "7b32b1ec7471d9bd9485e453bdc5122e9ed8813a0c07bf68b859802d11296cf6",
       "763e7c23f2e5820eac5fbd715474906f8213e5a0725d44a600e6245560425fe4",
       "2b9bf60493f5304a9e04f358e73b260822c51b27451af8517535adb98856ae14",
       "f383f55b7ebea9d1e8c46efebf11ebe88e7d75b4640bfd8a0536908241c19195",
       "041969ac94435c5daffa7208bfe81c687d7ac13a0ad473574ff75ed88ddb1efd",
       "8c505876f30b44b1800dc73c587a355c973a0a01e1819bd49d5d142fac9b2e9d",
       "be0495b764f0d10de79ba587257a8b181e0c8927ef093d488fe5ba81ad5d9df3",
       "3fa0c0400ef7ba44ac7e69f6c40b89c43780ae57c5ce59e4562d4f9d1b06355d",
       "4eb4ba150a1a9156be6e4d2b6a6de3f8169bdb2becf621bcf5f31526bf174608",
       "3221c34d0b460fa74ea7eb5f1f81d3dc8c3c5dbd6366b9460d4317e7dfdeaa3b",
       "d40365d1bbffcfd5b392216fcfd922bc61cb00c27ae19b82a7c1327414c4eb6b",
       "7d2e78416b71a0858491077279992c52504294044c20c31a8ee6492e4f34d8aa",
       "1e8349f6ef9657e5c33fbc1b9f4b14d775c97e5a86051e53f9795587201d9916",
       "8f537249afef3ec9f1be60002877955443f5dd7b368e4cd28243a066702a8ac0",
       "cc54cf5075ac9358a32774c152581b823876d043d017d85eac2ebeaf74a62e6f",
       "0ae9edd17a5db6e25d58fc6a41f4007f386539983ede173386e11e9685815be6",
       "27eb9f228808a6383e5d0d32838c3d287e0c91e41b36454860ffc2722edbbc44",
       "57932d00aaa7309e67e732dd04ee5c7f1a40852ec49dfe214a8f016e85ea2910",
       "f104df9da9d43eaba4778813ddaa9191bb998b869fe840674566c9ea44f72e68",
       "a2eb16ae583437b78034ada482ab638f5945580d303317fb770b881dbc294336",
       "987c3ea39cd084c1058cf6eb8316ed3dc8686bc3aeb0a636b2fdfbaa52e772f6",
       "7f66423729fedb624a417500df7fde19e9c06d97c4b6b41e5e98c78646ce2c4c",
       "b52f89a769d293acca2091e6158c99f7be99a7381b2911ec1a7e481d9e4e55a7",
       "acf883e7fec63cc21816a5bf757fda286c31b7cca490f9533794bc4b374329b8",
       "617a56b1e7e6e8f1e5326386434d90205491913f7fee7ff6c9c041899ba12abb",
       "ed5f745c5eff85990b94a68ecb3ed16ba9d1282f27d7c9c3f672b779fb6d4071",
       "d9bd6b4e6b1e7368f238ef73a12d049d14771b3e70076d77475df96282e95f6d",
       "ba416177fb2fcfd253a3b7afe680c56df41126088c70d2427e025db4b19d79c4",
       "49fab023f64f1efcd1c6ee9c57fee17725e93d9d46cfa5ef35a68baaa0fa9193",
       "781af233c881d5c7ff96424e44cc4dbdd70da695d1902065a235da9dcb257fd5",
       "08b4c1384bae4d6409e6de22a7317f85c4d43be8e9bceca3aecd20dc37ea1aa9",
       "7c437e39651b40629ee0aa7652beb2bf596d4e3ea6421e9d477b1c0bbc1d8c6b",
       "90604c9d75f7af16e26589de470e2096d2ce1899e3a2073bb89f09e75331ac76",
       "986af58a38363d378f21002bf03e97c5404c73430551e3f38464b773ac096a2f",
       "59e099f8e00ed34121aa98d9917a42288692e2911327ba9b09950d09e4376b2c",
       "bd69013c2b627d283c936e5af96feb1a930a03a35e3343cdfa8a8d6fe1a4c30b",
       "9cc14abfa1bf41d931fc024e57b96a34ecf4759c76f9ad337e9bd1b7456d3614",
       "a2dfc15b1c74e26ac349feb4e66afdb75174a9959e0c36dd20298767b1268ccb",
       "b5235d96d3a65814da06fc945b7bbd2f891cbfa90d793085e2f17fde5d7874f5",
       "254ecff1d5891a40a506569fb72f641a06e28e751cb9fef9d07f5d365de64069",
       "68efa18b2bb8a71548e27ef3d7ee5322d1f56972aa61afb2d3cc265f1befc4dc",
       "85125edf6546bff76ba98d5aa29421454e18620f56240283a36acd7b7c3384b9",
       "0ee1904c7e82cd870a30bdeb55c190aa746a68940758b36288dcf90df35f663d",
       "7a64c003c1219a18e22501a4c74936c5e47750104f7f087a19f4ad3b327e90e9",
       "7a634c8366a95bb526c5fed9b4777878e2172aeb19b7240e4df0965ea47f0e5e",
       "77ec0cdc79d3aa1dffbabb1bf59c07da7b4b99f54455f14a93543ab3982609c1",
       "609a0e2168ac035a54cc4546841da006761240429ab39a9f04aec51a09b8d82d",
       "062c2034819d078c66f970a209e51dc18421b8a55b71307c1cf81380fcd6eca6",
       "72086b5f2331840d2d8b291d6dde065d93f8fdc8b629d4b08e11f55789dcb8b9",
       "6c5d791532a06dec21ee3136789d054f918ebc4767f923c055af83b3940ac8da",
       "4f273d4143b034a1d475b1a5d19bbaecd6f05bd49f93dab09b95959ff7735032",
       "15d05353af9530e7823f40cd115d5cae551ee2ebb0a275dfd29b6cdb6e15e009",
       "fe84bbf99c7cecac44ed49477a01713cc06027160e381f6c49e46d73cc1a4079",
       "1f060205d1ed689a7d1eddfb561dd9e9190c76dfb4318ae2770706e079b6854d",
       "2fea0be4f9dc67094db7f5667e640d0ceb702a46cabda83afb0a7418c439c37b",
       "6064c0c421ebf7a96265f1b3b6da8d59bc9a4a783d1708d19019cb27417df3fa",
       "9d88a528609d6cf62570ae25abbac998c72b8027918ef26fb0d4c607147ef965",
       "27cc8f5bac0be6e553132b0ee0b21093cf7dad233f9d68411e32b9dccef36102",
       "b528cf27000346df1dfb826244fc81ee5b664e7686dc73514ac11514b0c84d23",
       "92ea84dff371ed1a8a1586f47eb5a295c9f2cc22ce3f318b4248cfcbb7e04674",
       "7f7f0dd9a3d42ed42ae43f6c2012e8bb07361d7c7fb88fa414537a52b58a016a",
       "f4d089c723335a5b04035f7741ef1196201523d047e86b93fcead7e8ee2b7ac3",
       "31907f5f6a859d13bffcf9871f643939fefb25ffd5803433db91a60134e0a892",
       "35fdcddc5020aa06fead238f2819a8d43ad4ea12cb1a0181724d63316a938e2c",
       "db62068013fc2c9c65cbd52a5b529b0a48e0c9ffcb0a33252fc8cca989eba4f3",
       "57646b0b10117a297ea347820e069ef67766038a638a7b2427084f2b6fa16b3f",
       "5bc8ceea3815c235773ee5f47e539a3f7e2cc7e2a1244a02793432fa4249ca43",
       "b88513970b6f711dfa1a235b49bea41ca131129fbd6901d4ce6e5dbb63a346f3",
       "2fee4bcf607a10d1742539d1c3c89e9c77bcc983ea58ad39b35ab69f0d0c1854",
       "a9833ee1bc4379e864fcd5057d5f0598dee451a01bd159c7a2fc342aa2cb1a3d",
       "2e971334bd1a680fdc44cfb93f1731607a20099c48ab46ea414a5bb3c0baf658",
       "82c1eb9e55035c4da1ba8273b1d151ead34b867b5ed8a2d0887f03e533634a49",
       "54a79198976e3a7ad73102d36b25103b4b37ef1531a466465310ce5faffc0474",
       "217c060c75179a6ce1d868aa74a199edac4109bcfd6f29fdb406c358b8b93177",
       "045eb7915bf034e5a481bff5ff413be322e7f09eb4a4b94209860de17d2a3444",
       "0386df37177934038ddf87c74925e7176cde86ff7c61095a4a2b1b0e63584868",
       "4833bdfbef4a2f0d4c69459c4209f64992334e7bc5ec24261834df8ce61e108b",
       "ad8c570434617bf8b96564e0bdc8febe6420d7e5bc4f97de43139b2e65827e3a",
       "55f557bc2736db9add6b784132d49fddf3b949c5936712f33d7cc68d4d942c92",
       "362c50713423f8f2fcd82a529292a20f8bcae5eb23c1d0bbb39ee5986fd1754a",
       "449b8e1204be30a28bf8c0b8da17ae50e4aa95bd09914e2edd310493cf640635",
       "84d4aa227148699e24246c63a5d87262061b20f568b702651fa441d166817d41",
       "b456c214c10255672f638b156961cc9e0f2b9d7cebb882a6eb779f610465c93a",
       "2758ecfbedcc6c186c4746b01c6b512686e8c713593a5916e93c0163fb5fcb9f",
       "59352036da701f7ea050a44c20ad19bc01b99452c612269d0164d2c912d72c7f",
       "73b1beee54a3c153fcf1cc4c7193229f9bbd1f169d4a7e7d9dcb8c37b5eba9cb",
       "1a9dce2f98ff99bbc0ad421cf0f8222173ae19d93d2c7308985c146873f6d2ff",
       "1c5d5712947251a108584142ee3378da6c5a2d5a0be626269ca1c09b5b6ae35e",
       "4adce96045e3a91eca07d9b03f2aeb66455e1e77c25f49f65b7013166610ac54",
       "1da5b666d0a7b89ad74c9c4986cfd0e63bed50ca2eb4094f5734ffb9a1f948ce",
       "94094a14d06012852615c0868f466815687474e7e84199dd780ee218b244da3b",
       "70889b5ad90602073d14d88002800c3f785288a851e9379fb0218a95272157a8",
       "c4cc75c2e058f15c27c480ab6d0db3a7380176b87b4c23d6ccedca72c873dfa5",
       "a98aada3860b260fcf60ebc5cb9f3668661fd90c532b88717ef044379fea76cb",
       "5c4528b4d953c0fe62aaf35cfe57539f6a60df368328f543aceba459a8b27583",
       "759d84c86ce81ff493f6b129e28bdfc14188004b48c925a96077abdfa1d9043c",
       "8dcbbe66403a1bb161e839c93584df2d0ed3c32aff9b1342e4bfbc836e6f03e1",
       "e5bf6f3ddeb05c3c890eb6ba8316c2a2570f5dda6c889ed18f53b2a6aeb32a88",
       "a24fe0df25fe8d62636ca0e176cc9a798632545b2ab6bfee626b44ef59245abc",
       "3ada4e01442b4f77771997f833507cf1433808db986942c0fefbbc8d295de6d1",
       "81c12c5a71b88bf6c34ae0358c8b15ec76a66545e6007f8d058b505923c92d82",
       "411e0bb1433b8fcc04fea8fe50394065803bc8926b965b6885d03b11170e8921",
       "0eee2f2ae09bdc0c02f260fbf6de4272a95e4e226182f7dd437242821fe7bb6b",
       "3ac86cf27f52eb99d1a43a8c714f13001b694a63aea5a7d521bf4e4f3261af13",
       "ccd3f5e20cebf98667926ec3a01a44d85562e99eceb6e5020ff357a73fd86d82",
       "e96493e6bae34c80986575a24d17e0a5e7429748a343e8da649c5a45a362a02e",
       "f25ee5decb793e844275c9eefe512548f85db302a80f972fa44b7f7f551a5127",
       "1ec357ae191a1c4e4c19fe44d01836188f020fcf6e71c6b60c6c9f21b8e070c8",
       "800b80a51d4988a28147cbc257b409b8225a8e8372ceb91fe8790299df61c2d8",
       "eba49822ac81d1e054f3a0ff2c778ed6f7aa53f2a561594638596eb1bf58d6a1",
       "21918363d61fe6181e24855715b71bf725288b7c970f29aa84ec554cde16f7fb",
       "d74da24684de04680f3d66a2fbc833b3aabbbeb32642bf925a4fd14cffe7fc2a",
       "addbccac18b1a5bb02ce455da5c6d8743ca98e8fb3b30618af746555f8b98016",
       "4f1eb7be6891712ceba54f78f2202eb49735fe26b375c5fda1dd52117f577a33",
       "9a32cd3c43ef100cbcf665f4f53d5638950effabc8b4f14276b76ec93dc8d8d9",
       "c151f6d14bd67137cd36c4dfa71a1ea719d49524c5dadf13067add56fdc0ec5f",
       "32755b22f1dcf3bc6c33ac4cbad381cd56c8c4713f20082dd439e53b4f099fbd",
       "38c06dc209e0c3ae3b959a143c2697143e7877a303fd05fa8cf72b2280aa2146",
       "10f75f957fb5f733a78730dbc09509c15b8904fc15e4d21eb63162139c977ba6",
       "3e67afb70ace0e1af0a37715279cf158f8c4a855ae577b569d5f68463de25fbe",
       "b700d60ff7d964597c14ce366d38647f9f96b34ef5807314943288a71f66fdd6",
       "d265d0743032b439f292548437cc2b12cec0f059e81fedc7b7c11c2a9fa11c22",
       "ba4ac2619a98a423286754e4e72a71d39e16a63913d3d8c89e20b42873c83aa4",
       "4cef47ba0a1f68574675cf7afe7de8c2c4636b78509ba13fd6a6da3d6dae06a2",
       "035b3990c51de5e33082a7eaf15891c64910ac13f6d8250715c0ff1463c93dcd",
       "39b3e0502ce6b9744335307ecef5fdc40f51fd9f20688b26c07a2b43960a0883",
       "b210ffbea32d9a680a1998d4319146bb69e7e7aade171675abd09dd040fe659d",
       "43e14363f72a853212a7701e038021377e00c361b5ec720a7ba1fe6ec3f71ce7",
       "0ec0e66a8e5f929396f4c419b13e9641e268d77aee96b46b846096c68285fcd3",
       "f71553824700b37eebb0a1b2bdd8bc3626828a4a3414aaffb0acf2e9bc45b0c9",
       "dde9d6f2443d859d8cc99d2d5a5bf598573efc868adb1e02a2ccf46fa6f82569",
       "cb1d1a8086805dcf2d5bee5d9a52b58854cbb1453094d1d1e3c30f2445ac989b",
       "4b3b9e0261f6464311b8b197f0e8b4ae4cd2bea62da3c234530a40279d02a513",
       "c1717dc9b13fb8480de543419fa016ad31296a9d29e5e5f900d95233789c7afb",
       "60be16c70744ccaa2adb1ae397fc2820c8a102be259a04afb3d809fabfd77c10",
       "3a6c4da12477e4771b70415e5248aeb067253b20070dcbf55df7c97acdaed1ad",
       "3b5d5008f5f1bdee65083f078fd8389a17cc45f967a8e8f2a89991792d3c7277",
       "b044447a3b93aeaa3265cd0300bb00a45d92f43fdc0e3b8a8f955ac77e348c18",
       "eac191f9277c2033ed3f5e66815c7ae0cbfb8300349d532f09c56b1309ce6e28",
       "1801e9c214e2c9459209271c09ce3b7eb0b21bc90a9e5fb96a1332653879342d",
       "f265a9ab2d03f9843722f0de6de69bc35e01f6a69fae5335e640954c1188eff3",
       "ad5f22136af82a98e24d5c5aef75151762b757ff83cce61320648cbd5c2bf08f",
       "16e282f3d85654335c775783e6aadf845d0630b477e126cd80c76f5992b0d8b8",
       "f871bccc1cd90eacc3012efea9b68503acb94dd2a85eb652baa9d3fabf597965",
       "373849b6b4714cc925449d052f7b309f566d192bc190fee728f96db2149ce765",
       "8db4cc4b998c2ab57c17e97c896d5e5a8aea8814ecb359d416b4a8abe03aa1ce",
       "f8518a60a8016f9214d2962ea476ba1e2df5406df9d3e2f194c0e82caf072398",
       "7aa05eba170e1f605e723c7a908c66d9203431fcd770d3ef762881a57bd92c3f",
       "24ae02513eda589e22a0675bcf983ebf32a71aaad548c4a682a136daae572d25",
       "e855c0bde393b68ad6200ed741f17e9f8caa389a8d39e5dd411776e83f1385bc",
       "106e1f5fe76667eda24d6ada62c1f568a33b01a52e0602921f2ec8a3e08912ca",
       "c66a10b0a8fd80f0fc836a5b44e4d03b4d0a85fc2567349e1a204ddc68671243",
       "31afef64839a0de7bb79fc80d8b1de44572f5788085355314b8c6fe6d1da92f4",
       "3dce8dfb769739ba19740a1437c0811a3af6f4d8c51fbc08a26dd656a3cce9de",
       "65fc92762330338ab0792c60d556e24aa2eec708247ec377e5bbe5147a1311a1",
       "55c80e57fa3c89b0311c52c96c238c3ffbc56a194cbf88f3c9f603649e7edecb",
       "7f74da519c29d43340d2a7f44b7d1746472ea083f8b72a39054131998887ffc9",
       "55ff65bee04cc728cb0ca764313a7926a721fdeef38e40179f0999ca56afbf40",
       "4b42a83cd63c844a5e8fd54e19e3d19bf0887bb49eb4985f5be1c717b9f9bd26",
       "2074616357ddbf203fedf3d97d39159cdffe0474ee75af46c7468b5934831df3",
       "cec74552a3f0e3ee8128be402b32037345e107f15d2e7d49604ca9379896051c",
       "23c939bf90724a2756c19718d2b203dd0e3c1d831b5ad8373f90ec1faa6f6e8c",
       "0aa5a681a2623328685cb91bc26b9cce24d227ab55f0842f40c8120f5f002729",
       "cc06faf536394b42678903edfe6cab910274e308ad165f86b957e475064be718",
       "fc54fad163925d97479670d789335b17edaceaf358e6bb0b1bb447a947250cae",
       "3933945e12574227e6c2ae806296649eb778988721361bfb7d69987f37d9a637",
       "0babf0e8848018dff88cdb9d736beeecad8f055d929910a5f05c4417a42eacd9",
       "d513de39f52ee91185f7f587ab533a5af7c98b1222d4fca3258e6546763330c2",
       "50755955a9332fd8f3af891f481ee665a126fb38ebb34e2229da146dad8cf257",
       "f9b4e00f92dc0866c8de2a9d67aff95c75593a89925ae5ef82468a3bb926cacc",
       "102cf06b839d9a29872cce03ad2832917007f9c2bcbc02950a1478cbc383e766",
       "2a92befdbb5e59b2fac2c7f36e54799e1b99b79ec471458e4f6a8b1562f19cc6",
       "70f113c8172a54f51690f94c305e3d877dfc885f28083e7b63acb2b9c5966d49",
       "25d64cb7e86a7d230e739d9194ebd47c3fd223501ce260590ccaa3ae2981f85f",
       "d4424b36eb477adb6e4a0099c0d37e92bf04925bc1af502b0f2ad336c856854a",
       "8ace34bd2bd24853d53907d2ed697fca80f1f29a61281d01bf432ace6b23375c",
       "c3fdf5d5722dcfa009d23ac1106220ce0a295ca0b4be48e9a5c87cf5cf5684f8",
       "1300d3a6b0323f7e9a1f6fdfaf94956e7d65f3874d93d572f15d89100da40806",
       "baff4ce27f2e815d7c62b36e566fd9a26e681ed05e6127774a702ba10e5276bd",
       "2df9e805134e85b8762a04b5a78676a964a59afa2141a6be092d256b66eee604",
       "85c151ba8d892700b7631d9b5319888754722614098ec20918a4b7a181d8be30",
       "8ef6be39ea636d151fcf896814394197f962c428dc5616d6c0ee173ee7da634b",
       "0019d92f51fa06a7d2ec70a58032d3c6d01e62ee2eb9cb9b9af500ab33a3e876",
       "801af1c8366aff8e598aabf4dea7ad38a9161497f6355cae8601376da375898c",
       "c247d9b4c93552a6c2282d97b51e4e3c4cbcd264b8fe23aeabd6f0b02c6aab45",
       "fe5fb958a4651d1964dd8ae1fbbd8f549159211d23bba4441c9a2d52016045f6",
       "62a0b6502c95cc935474e3175a7e10db3a1c863da55f75e4a352879cf8bf14ec",
       "436c85be282979fd21a3197f9a0bdf54713d62b57331ef39f57ae647f0001bd4",
       "737e717f15a16f5965bf054a6ae3070fc4ada3565ffc8c5063cbdcb4c3616a8e",
       "1b3f90c42e31841192970f1d05b7edc263608f2ac6434bb8f23ff0c6022b534b",
       "0a22033ede971684ffa1c0cd05743f19dff23179245781b5696a1f8c59501fb0",
       "458e07347b2463f92fd903b5fb2b42def1a406dc92a688389378210d41c261f4",
       "74d86589c5336cacc1069ebe5947b050360890e36a0899f22259ae365ae1f5ff",
       "4600acceaf59aded0e56b365351d86127b7dafe896a1ab8f718b345e10ae87c2",
       "933519fcc05d03aa00bd028f89d3c2f6972b903629b70fab07ded9804d66ca52",
       "f5b2d2c5d60ed85d127edf1d66caef2770d8753a9cb9feebb0112b15cd056776",
       "1d09aae14ca65986ddccde20bcae467ee80320dab753cce47962663b4233621b",
       "b1b2fe5a88379afc028bd29250a653920ee79b8494621460547b3ed1a032f3a5",
       "faf3be1bf9fd630a2c522a6233541968468172fae537877f06b6b33acb6c2d9b",
       "ae56928cd32090434a9790ef2a1f27c49d8f264cf2bc4d210d66a5a5b1bc061b",
       "a558e2d8e1f9d56f96caa2cbd0a1f6541c28dc81e45ccb1f8641b9238a330026",
       "81d7e1f5fe48c5fa2f2c5f8c830fc025e8ef815e6c7d164f114ab83aa66dfffd",
       "e61fb75beb4d785544d098f060e79a6307f43505bd594a815e07b865b47eb2bd",
       "9b1df7e454ff56ef2cd065b0229c6810444aef890e55bf38588017e4bebfbb3f",
       "b1d568f608c12ee20494d9dd997c0849fd1ee35aa1ced77a7b092edd5f165aa4",
       "8040cc0b5c6075cd9668f53779297df5bdaa7b40c81436d46d414557711054db",
       "244af00981e1e68db7725f0a946e33adc8ae703fd5c89895c66f042f7fa29298",
       "c0b141451b2d6d93fa8b95484e89da3f6014d8f2137f745c11512e818a27a2ec",
       "563a046c438ff8c1e59e6e7ec5222249faa0a638ceae5a6eaf17edbe95366e5b",
       "5bcd57b39a8da1289b4c997cd29f70272bcf6525578ba6aa8cd5b550100eae18",
       "b767e04e7968ce67e036b96cf2b505dcdb68739c8a2a2e720df65dcbdb885197",
       "5dc941ace1d5be05059a51cfe2c2a6829ec05380dc1611f32d68e8a1296fdf7d",
       "c1aa6df87770d08696185905f9680aad4ecf48b41db88846f10374b3c84094da",
       "d5a87db9e07fc5cfcae0689aad9b73a367ffe9d6ba6795de7f942e538d76a620",
       "bb17154f573bddd1051dc5c0fef89bafe9d91d44248064f0fc5926887d1467c3",
       "032e007faeddd4e8b3e7d1c6a794a4db044434be3dd7590aaa92922de3bdae8a",
       "976b5bbde1b911fb30fd088f041b258d75938019e10023ba901bda8d71561c2b",
       "4c8ba344359fae21aaa7c506d9294830dd2619dbd53a4136c1f1982dce63819f",
       "9799190fba2ae89be316562b5d2a95161960e383b53dad1379c1ec24b28cc69c",
       "f76c1f625c50653c217f7871f2b29a726becc3707a8bd95910dc67ec4d5f6a2f",
       "7b1a370c22ce793af415388304b2e57d8007526d32e28b5ec2ca66e4be8240af",
       "b5d12370ec7ed3090283fe5d6e9caf66922b3ed71c8c0c57eed37a7759741e36",
       "b1fe0f551ac9744122015c6d3497fc66b1f0bb34c73ad1be3cef96c1417b82fe",
       "56a13c352721e1447cb82834f5ae91bf9f866d2b71fcd8a9c63639b92dcec9cf",
       "93453fb090798f68f98519cc06e62e910696d9629a4c07c55a2bbf9592287949",
       "b5b56b2dec0fab9b8684d4487d65b56d9fc0fc46aaec5ec7e3d5b07d24ca78ff",
       "51e4a2e3d77704e2139c987ab59bd13c1bd9f819acce7fe20d69e5f4162f438d",
       "715a7f4547790100c252b09ef1ed25fbe5d365d83f805a601d86b5abe8047180",
       "b275bec187447f56ae8c2307da64402fb8882e3f5226d5d87ab90f2130563fc4",
       "8caa958a247303799be83bd0ffff952040993535af1fed926569de096fed06a4",
       "02dcf7b5b53716bec3531852502a19669d440e1ff4e8985f01e6590f28ae1876",
       "6011f649b1787f9357fed86586fb877fccd0e9d6b65e7b2ba2edf26f8049b415",
       "615625d0687cd457a17bc4350dd2b065246e880b97b398d8fc2ba17888853c4c",
       "3ac2833397526e0d1e390162944d05e2b36e17faf0bd68f534430ccff888457f",
       "09b79e96f0c51f5e9133cd89762c9ef4aaf18d83aaef1ce5096281ca80f1f684",
       "d3112a1c89dd1eba4e353de16f642724eca8e306e3757d9c6b557663f92c28ed",
       "0b167d46a55a8bf0f000585450add6415f5cf12e4f3830bd6f153342e60d0ee0",
       "9b4ae80d79dfa6a26441b251fe98ca779824bddaf1b7b24163d26c4d3ccb7cf1",
       "191e6ce31c243529c0035f9d91042f1eeb2f5fd719f27731b424db29922eb9d3",
       "3c445d81389b51964169829d55828f764963db1e2d14abff1c519ee9206ee3cb",
       "5cf200cf27afa5562c4bb274d4f40a8909a290504e099f3db30451a20c5c518e",
       "157033abe364283e7c1c22794679f4122f9c99a73bea972cf1aa563bd60c978b",
       "d04cc3d3d50f3ec67082db326c9f1665653ce74597e422b206337ddfcc5ba137",
       "d0ac36351631d6d3cf213a25474c14c4e4370ba6a495c09c9080f0ea93af4b17",
       "03be0102c93c6f6bdf0dcd753cf47fc9ce81c8a116ace6926be48e235fc4cef0",
       "8a7f4295a12dcd4579bdbe513bc2bde9c1ab62869c2e3adce256c7d8e94ee68d",
       "fe2c22f18477c8f14ffc1e076d4c9ecc08205a3187f6b4e3f0be5e85130413d9",
       "5e68b0e50c79c97b28d37c059fc81bd3df7dfe45c6a1d64c9e8f46e3fbfc3550",
       "b54b741ca68d823363036fd13027989b283b413aaf2bd90b7b558830b6e99660",
       "6ac567fa4a08a3c5897157b1a9557abfa8a00ccf4933ec3038db533747246a0d",
       "d76e6ac1187a36a5fc306dea5ad042f5d00686c8f4b147af3e3e5c4f46a8d850",
       "99bdc02e8c619ef877761909787ed757bc2ec9314a8ade0ca70c7713721a6765",
       "1a0566ef68c9c8148f92002b35075b8fd84acd3f15808c4303dd45c0edc1259f",
       "537a23acef7a412d6e40d0588018dd90f90a46ca905bce55f26452ac56cd6c13",
       "87a257f279d71a30ce2c615b4aff8eb961533b13605ca9017b0875412734153d",
       "ad6f9ddb1acb1a49b6d54d3bff634ae50524907b4af13e152328c0ac381b179f",
       "a73744586fb24f7247500181fec14addee73d179f0aa015409a226a6bf42332a",
       "4c3cab11e82ac43a4be944d72a1f427df92f613f3baf88304c5644faa49c9655",
       "e4358a0f12c57d8845fbcccd62996f95f10362b88d82da06d18954e6d83612c9",
       "767bf148d2d185bebd67366174b4e2adecea2a3c7fb53f4949d7e6842a78f6bd",
       "ff18b6fc5f31a37bc4b9037eef7066f2cf8b5c80a1045a0cd64ee26245280606",
       "f1af91d11c9c45c6fd2ce950165c31ada07ce35efa8a995dca99e1b591d5ac07",
       "f636b7c32ddd09337b80e1249fc6a2646f8b7c8e45877cb5041c7d12a25f5fe0",
       "c362a450c7ea9bf55b4db0a00c89e23fe8fc0cb09aa8c347f4eaa61dd0fc5e6e",
       "b6b6f682cdd4098057b5965918390012d71b59378be2b3ef5024eabe4159224d",
       "9e39168cd05ee48f5c59935165764aa9ffc98ed3bf101e9cab89f0ee88017426",
       "598b95fa09750d5059227fc75b9e39e12750f5f942b202b8bc03437a440696ed",
       "d654845e0f8b2023466c5f19f3b788b4cc307075f8b96df781e4a58a288875c7",
       "887ba6f63cff8dec81c8017b3066434921e20b3ff5d17e7253c0c8a23565802c",
       "054a32a7237c70ff320b4f44be0ea1b75e18751e742f17773764565b85f132e2",
       "ff30b647443f107fb44a38aa0e99c6018f22b70a6bbfa200190a7165d337dd11",
       "ffd4606412323529c8eb068426b6492196e09cc699225a3e4639dbdf064b1a96",
       "e42a02ba23cf395a0d6af42e7b62d38bb5d73912eb57c1c00123f280b359b89b",
       "ed51793da885575a5316cfff3f8189484a9282b431fab9d0355a6497490687f5",
       "880c2c12fca941dce70a63cdfbe5cc7aaeaeff5dd7acb46b2e0b13a14d71a97a",
       "6e415040f46bb2cda622c97923b6dc064af2369eac0048d6babc28c07f14db2a",
       "6de19997420f4ea71113636ce720d0a2b4b69ca7cf13ea90080baac230719f20",
       "ddcf33705a0e45eea203727b71e4e16ab89a4f1be523032beb95352e182bcea5",
       "6b78563334c33ef0660d9df72e6ea33fe8dab639636ed6c3b331b2512397d2a3",
       "7ffae766ddddc7e7b14541e09cf22747446f51b902da1040cb6232631aa33048",
       "77b111043d4b79f4b561d1f38c063db3fcff80478d632bb74341598cffbe2258",
       "9070310294210eb6043b3578e434ae78316d86089739c0997d17930165c8f2d6",
       "d97b5e168bf5daabf84860e187a5f72c7f15a43a1e3c367941a3d3683385052e",
       "f89b6c08307fda7984ae7b7266c5dfcb10bdb9cd9a02ac65660039b53dee516c",
       "172d0cd0e33534506d8e50f276d47cfe3b5566d580beb76972813525580ef1e1",
       "053a6aa81541046b918ccdd0674fdcae3cf446abaff1264108d2ac650ad03899",
       "70829963aca8c6de845dbd49779431f8992a0ab8364922dffc422190873bfa9a",
       "0363aa87a487a2f8577b58f679dec0542b2b69cfc783cbf45fbcb01223a605f0",
       "b600972c7297b9c4bf25fb8e909d9d2f140d14b69f3c324b3b448500e8f921f9",
       "f8b2075c7ca4e57f852ddb124da54b205dedc6bac12ff5c2c42163e31b6a32e8",
       "a1474ca5c29d391389fdc9004687f61e028a4d5c5ffd046fb3900c9c21872101",
       "6dc161942ae48139256bc5db41790aaf925bf567f2a43daf07e0d1db728ba63a",
       "a7deba8cd50934c317fd24e9bdd2c5d7f148b27913ea66c60ad6ae2e7d845441",
       "7b47a3aeecc566cbd6a0d089b85c3c785879a127d3567abcb665d59f5ca14574",
       "ca448e6d541f28f929a5fcb82ed2854bc2e23f7dbefcb93621ed499127534b83",
       "a95a11b96a5e26b41f6bd01a1b47f37dc557da1114824a1ccf2fd42b80c202b2",
       "4d932e3fa11d62a6dcf418ac5ed60d463e0337f37880c866b718e4bd6bc24d7c",
       "a2e8b2ce5f0353ea2505d2b74509ae775d496b00e72042f1cd00178f86af6a6c",
       "6895e1093b7cb669b7ea564f5ec7aeb8647cd583ec44130dfbb036b8a17504fd",
       "99a7c1faae889ca6cb49ed4945f1bf738d4732b3e49321559ecf591171822baa",
       "ed882bec3fa00f3510881b8da2258933beac52b45027dd4848a621330ecf16e3",
       "d817b6b18651cbd2ce1c3f61b717e5efc68830d900717251099c128132ecf4fc",
       "3b6380297dcfd8f86cf5572277243b1fa360c180b7777c4053ead4fbf67d66b9",
       "f62fb7ce01bbea0e853990966102f81436707abaac2c29ba1d96862e09618b37",
       "3e853beb41973e46ea9b7e64fde3e96f860f7ac698e428d0c13f954826e1ae55",
       "e1fe9cc9c7b1975c813a87d14182d1effb9ba2d2e934b4733082786b3dc43d5c",
       "d77d22f81fa633eca0cb71dc21e00a6922187a828d177ca20ad8ff247babd274",
       "a463f7e009cf775d88724130885414325bf838bd7ac5fbc6d7b48d243164d4b6",
       "5f0de03d0d09d18bbe4545b28b301a4c4c18986a807deb79b48e5851009e094b",
       "a1434bef4d8882663926f9ad7f8314d9ee5c74e132b7b0d2be978e41b4da48ba",
       "42240e48dabf6810ae6da7829fe7ea5265e0d58c89024d318936a1a32f156e21",
       "6fea1e378b07f0c6f8106ae2d692d4cb946c03778d56f42a8ca0022e54ad470b",
       "26cf0d2945750e82e6b987039b6e8148743629b7f01a5d878c425a96a1c7e8a3",
       "6ed0a8590801c605e7800f4420d074b112d864b6cb8633f0e4840c4a54fc6f5a",
       "c37598f7b9a71d6cd8036f300a3be2f5c2048b6ce726f4ed558f0aa92a674ddc",
       "1b84bc4e85d90142a84a5d82930640bcbc06baf8006db8390870de377caed6c6",
       "0ef30537c57cbdcc04926b6a436bd60fc15a000197f9ed86f1cd656891ccacbf",
       "d0182c5549fe8cd4ad045c1e54de3cde61719a9adf2bb42f57042afe0eb08849",
       "ca248fdefa691eb9438e2543ac8b16267c6348b4a68090ba4aea5c2573c81ef1",
       "49cdb54d82457f703a277fb26bc240ea3380e4efb74d80cab6430fb75fb4134c",
       "8065fa0181be0795001098ae7a031853843369b289c36b6676b0622eb4bcbc60",
       "f0f0d1bf9aaf5a409d72e688c117a7af8273f32a6bc151a36c070b14325ec039",
       "21689d8150c4349be03528df8c6ade1fc5b72a02b1bb5e075e5ae2ab20f55f63",
       "8a72fc6f09ab4fc2cf284a11f0aa20be43e2e95248679754f17388b0c7ffdb5a",
       "368a29e5a050487f6c8c21f87d00fc0e5244937cc08843f825c48a2866884667",
       "67d4cd5255097a4885c50b228c6f15f92dd5ee38a3d23272bcacb3705d659d93",
       "77b2b5df36a4bf91acf0281d647e4108e2121baa497d1bb62c10a6504737a423",
       "4d98610b8479713cad3d245a71237f829bb81e0a8c3cd76cfb989a5e1c27d1dc",
       "ddcd1265b5ae114c505f7f678e31b24b06861dafd0644ece155aac535eefefe3",
       "a6130d279362b63b09dcf76f2deb2f5e86496db7eadbe30fd66ad18d343e80ff",
       "986738dfbc3444a7b77fe63c4bc2b1447b9a88c76fd88a83f9b16f8ac6444b73",
       "01c1755bf4fc3c9156521ded8edf8bc4e63f10f6cafe27e49bd07aa9dca2be95",
       "48278683b2bc77c54960ab74ae6bfc04fcf5b8faa23733085cebf882205852ee",
       "0cf9a23c6927abad3d60c8077cee7060583184c8bb7af6d1d1753f2e5520d80c",
       "2e2d4ed715891fe4f8ec4005cd83b801798f2c51a7884c41b1de6680a03de313",
       "0bfc0e655b8f9b6e3cf0469b6fc855aa554fa2103580d993fd6354e407a4e23e",
       "0a550c9e765a5836dd2e10aa3c4693967b2b3f14906d10e91a086db6a7bf3928",
       "fc09693ad2e8f9cdbfd29f682f40aa25d1fd0b5d177ee72c418f4c9878f6c6fc",
       "37cd9fe6b91581eaabd829a77e148f5fdbda513128a8d120b422da1b100f6dee",
       "4f4e259091731f21255915d16ae87f788d6ffc0dc96e8615270cc8b1b300a510",
       "ab80b30126f56e35c232079b0c92b41e0799f9320b5dd324550cc2bf3141f80f",
       "68e1de12bf1da2cffd0793f4c21fbe494c5ec2f5583d6ad9bf641ca3e5ab6fdc",
       "eb9299801364203097df605bb801ce6c80b10c6aebdb7bac68855a381686f775",
       "581670b524231a2828faf8ba9a087272989741a2e8fdb8a94aa7181c72929971",
       "1740b22c840e38d2e506adc48c8ba2defed378b28c007b00d82ea1ab98ebf1af",
       "ed655e2668a8ec17556f26eb51f2edf7cbae5a645b6004c80aa2f18ffada2d96",
       "f59f89b2c6180e37c7d4dfc8a84f99807d35f0ffd5d61b8e1bb2b0168e328126",
       "019afac2623e328389ea26f606afc0db2fd3e89919f126a34ad6d30890b73549",
       "66a4999c76e57044e4b23cec755745bcd4462371d920a928476f7d11caaff6e9",
       "613ee3df7a61480c295c32812d940a8b808ea36a76be970369756a2f6554dc41",
       "057df3d2260d5c2271e9a4411651caaf8e870cc63ada07ebb7f9f37b3b53d2b5",
       "5899247408758d95078a059bf0a0e3f0e9570fea9d1eab8940288d8f04611868",
       "dc9d2d49675fe1a5e0d3eea91c80ed9c3577fc7a290e417d865a1029ed7c2226",
       "48e7bd8efcc805b7c909781c21b0e28f1b1e24c63d0036b260cd467e11ca71c4",
       "eeb34fcf07fdf8053f7b0baf4282807b26ef667b62c5bbb90679d07c6c4d0809",
       "c08638fc1c206bd243ee06e5db8831b77a8a0573da583fa61125f1cb72d630e2",
       "7956557ad28bc240b47403763c3fcbe1bb0b0ac263d6d6f6bb57423c1c4c3c86",
       "e08676d3ed98b8e880f5893078fc3293f5b62db923bd81127439c2e780e7a362",
       "bf49ab9ac2f1c7355051c81f49fcfbd1f293bbf9b1d9aef8685cde462ffc5498",
       "9268d5c0acfebcc6c76beff17a77e961ae9021f7949d7f391ce1366bb8e09554",
       "5988ee2d039bfc3d2fc91f332f5df3243e562198406eec14e5a57c3fc8203aa6",
       "a8c48dcf02fedbcadd733c48f713f6af1f3ae21e69077e8c055d01b02739b014",
       "5cd47fb97a636ddf6e953882817eaac844959f2a89c09b7f5ac9c7c35152b066",
       "ac27e7d70b866cc0a333040500c7dbcc2266caa443b2fba24ddd4bcf96bbceb2",
       "127615840fa4b0f3b33e20a68281756ebd8a8af10ab574b1bc7008c2130b3b5e",
       "901a6d6bd859a0c2b4b5f6e473c3c19914d0f58168739208b7c0c3c323756b20",
       "c0352cc20355e55da6abc1ef8198fcfc2931baf9c5e57177caf741bce06db8dd",
       "6dfe9d881f24c80385fd95992b56661a6d659468f6d5026d330b380aff657914",
       "2dcb10eb5bc77996e69f13b41e9d17912815fcb48b30ae9ea002b516805a0fe6",
       "e7f0773e2480364d91fa82f2b9c7a89e13a2a1a1d5e6f2889716bc2afd6416d4",
       "afe71828c301056657573d9b1105b95706136c108b9dff65644eacdd954d241d",
       "e45eae0e08e5010bb1e029627f27e479222daa90df75f5bb73a2b5243ac885e1",
       "e006cac82055d0787efe7d1419ba7c482e9cd2bf765c292ad92e71a8a2e90660",
       "fcc9afaad03e3c106a7a3e8eedfc4702efc15b3de3569e28b9853c1726387195",
       "5be01fe43ebc7003f21b50818be32b4458a3a1266b0679a00256e3a942d3ac65",
       "387a832e637a89b896a3f50869a6e3cbae51e5577d6ec354a1d5e20ee8c44946",
       "917dbf987ae40e7744f50d6c85f3672e530a011db0979eca88efb66c2ef0c407",
       "a3ff496cfaf6abc399044e00c775e8ea9c783227ec5103e6bb029ad0f3ce5f0a",
       "58ff0a687856590d5a4331b114647587f93e1572a5dd27a1cc8639b2d483952a",
       "c8b2b4129be54472037757bf02d5715f98df246d4528188b9c767d7096b0b869",
       "75e13c10bc6eb77ec539fdf107e3b7dbca8ac85f44d95217696a17dacbbe045d",
       "cf2393fe644aa3205073f8101f8f32e3c1395e0ed82c11e94f1e409bbc57f598",
       "0668db236e90eacf23694e3cab341e05d82a9d11a92ea36e29ae9f3e73107620",
       "f023db741ac2b742c049d891d326e326952047dc5abb29d32221684543b3bb9f",
       "a8e311ebbcf3ae146907a318192de293837b948b006fba8cd3d7e5015e338791",
       "12588d0ffaa401e214302c1ec29bb4d206ef59f029b2375023685158fe4a338b",
       "5414163e752d3f23b88b7cfc38e92a677e9423988badab6ee52e5c78530fa6fd",
       "d5d91f1e6014684bb9cd43944a0e6bcc78cadae92fddbf64eadd34e73a206261",
       "df5651f5e219aaefb398551acf864a9f05a24ca07c4d351302c19ead355add70",
       "250b0aff15b4da4b3e91b2843399e35b5ea127df12e8f542e24c6042a834f9e9",
       "0290f5c9ef5507d6e172b6bac2156bf9660d4a5eeecd63fade7c073892866484",
       "22f802ba5e9b65f2999e3a2cfe40ce64b068e922c05934ea3b46c6543bb42f39",
       "45441bc8a27fc1b26be6b21a9953f0a86078e0d76edf544bcf2397526698c3e6",
       "6d9f863a9924f0b8c54d5decd6a0bab2124b16a8f3cc77f628949863e6bf764b",
       "ae1904593ac1810198a26bb2547e3a67d566756e1e354a7018f0a1ceb8d144ed",
       "f73d1ef572e571d203a16094e29656eb4349405386130da2a59dbd01bc00c240",
       "14ca6f3e23929a20ef84ae0d332ea4f383b219a2a1984a85633b4a581bd8b826",
       "785c77d2c501772c222d014d7cd9eb39853bda8a17d298515ce7449cf95eab9a",
       "68070280824740d249dfcca559056f67534ceabd9097c685bba75f054eecc2e6",
       "7578dd0c6f988eb933a504232efcfb7e312bc003b7e7199fa1366687ba51d31a",
       "4db845f8c4fcb95b6e5c8d9947f9f1e841c41de80e4297854971130edd46a019",
       "cca3ed8f21b792dd554fcc9a5e30a3da3c8a208c08dd89bf6cf0ec8ffc2b05cd",
       "06a8d50198fecbc9bc5f97dd34e2f1c5f44435ab1d380ecf99e5ee233d831df9",
       "fa3cc929b7ddd9910f6da77ee5f22309e26afa49874c679d92b764de22ec912d",
       "d75f9772cbef1d3609fbee4cc72fd73606f0ad54a272a41dd6dfbc1060278482",
       "5dbc6cabda0dcb4b910857925f4882fc30b74962435ed53b1ea9b7db355ac84e",
       "b15044df23544d9f54e487d0f3a233fe4804faba6dbb4f46f87e11a45706236a",
       "5c8d4722a5dbb2dbdf764d3475c050482894e361a52a693aaf35513078b0f855",
       "cdc81d5777f3d6ef981775a293b688aa56e8a31bb5bbcc36cd9fe359987372d5",
       "56fae43692106ccdedeee6df7f4690a9097fda4140f53e3f84265be52e2d01a2",
       "371e840875aa043bfd2b6ae42d68f3d5ea82ff2cea1129a2e8c26cf7aae303a6",
       "e5285365129dd286f82d67267f056bfc81b41195da6c7f11844123421607e4a3",
       "0a5022b094bdda811e849d7616bbaf26ebb6c6e0df750efabe98371957a93a4e",
       "9fe1106543412ff7b67cf028a6f0c0d97b36eb78bd475b35f40a845e5a3db383",
       "9e47f4535b265aae6b1dfa9de28abd741ab27a74d2d5bdfaf51ecdf1d50c8eb4",
       "5a2cd963ff8a5ea65497490ed5e9ba58e583898de58f945c0e4c941c228f86dc",
       "d4d23433e60b51bc0d627172b4c2be8f79fdab9bfb027efdbcd4440ba22c8c6b",
       "906b5d7d6de47c15778b59955e7fb4e62e13d0b50cc35d368de5828a911bf2de",
       "a274922020980d17434be05a8080029a40f606e17a324fb4fff6b0ba949219b6",
       "e0531f1c20a3a7e44e3956bad1bce22a9bdbe1fb94624cafe7835ae6fabbb13d",
       "f3fc817ebde9ecaf4abf830875a98c25cdc6bc153c850ef989b51c5ed016a4c5",
       "9a00e57d080f7b580dddcf89f1b3df0b5488305f5826387d12ac83ccfb95848e",
       "330ab1995a71aa734377dcbcb8fdde3b194072e7f06ed938a6a9f1f1c4cea618",
       "9c29baf9a1b9f1c8a51008f0647ed4df3e093cd6687576282e9449cfb3c38b12",
       "cb27d06f6ebb2503ab4af5b58e0827f0f6e3c561d78fae3f04b080dfef2dda74",
       "43fd0e25487ace7b66dca1cc0f73d4dc4e09fc40cd7f574b4cb18849128f4d5a",
       "18d770cf0a01ed2ecaad3647a964098a96c9756ec8ebd6f7f80241d880673259",
       "fddc89485f15e69be1d57d5e5c739691db72c3743a24560729fb1dfa35219165",
       "7be4d842dcfe3165b8dcff82337c95caaeef9ecb2f935eb1cea84445266fbea5",
       "3099796168ffacbf5611da917271f710f2b19a24fab01230d8ba1eb15f47065c",
       "39fac9574c0fcd405b62a9abc39abbad416348c0a4da2fd36d041bf9ba149358",
       "cc06fc16985d1e3d042ca90f0c09ea975ad6a08c0d445f073f5e93d3719411f8",
       "819228a762141ae28065f53e0c9750fc34b5355eac16c513b76d5867cc4f925d",
       "eeebed755fcd564a95ada1a2c02918f88a67a0a67422ceec427e03bf903edf4a",
       "8f1417b8dd8d6e38e46825f1273c5bc82d796ca780bc0fc4fab41109bd190b2b",
       "4037a4f12223bf38d650d1408c24b42fe7dda159d8254acf250707f49c31a940",
       "37df58fdc64514bbf96f8635836f2e4b4bd76e673fbfae8c61fbae6ead12da57",
       "2ef53d0276f18944439198ff6400710df94735a83d6a2597e2ec2165085e4e2f",
       "5d2a8312bd2895d9c6164e63a7d33c1a545a68e935694a7c2d1950f1ff0c947b",
       "0c33bbce92484defd5eea4cb0bc09aca653b5b9baab3ddb1d58987f3c0deae8b",
       "2b8f84373bea490ef150302191a7d85e63f3a4726d61579dda147245a8fcd2d8",
       "f5e7e86971091c1c214ee15909c1ee62ba6af6692cde9044385dc4709e452cfd",
       "0cfa36590dda437d2b59f93fd45b9b166fd6ca301763ab585f602d918bbbcf2d",
       "4f154e03c8113f1000b6b3bf4f1eb298c892b94090ff8cf77058124bbeb55b91",
       "430b3d4ff59edf316457c9500c6c3bc3af0c49dd54047686245874e691a31561",
       "90a190533ef6897f7ed42c0fd22e3b992e210cd51f27db956cfd344b8eb75cf6",
       "3878741b70ffa716e0c0fe207060e56b2ab58f9e8a06f7cea5c1448c55393a41",
       "bb849f98ef8bdb2d0a975c5148a4a3170a5e9085ac2dd7f4dde1c405a6c024e4",
       "adfe9a75a26cf04b66839e980f5e754aae5f93d401484d44fda34c6f9aae075e",
       "5c3449508c283502cec0f8c50792ae7385e38af3d1afa21923f8954663605a31",
       "e3e3583b2ca22bc6b48934a72534acbf581629cef1de0a3323773bfba2e9ef10",
       "bbcedf3e7d2c15909fb5837cb5e2fa4e2f5684f634ebe03eeaab9b28c50513a1",
       "132be6e9a89865d9be10de218ddbe0fdf19709d15f12ff1b2267a42f0c1e01fb",
       "f82751f72bcf624b419d3892641dcad4763a554adbaf2402826f16d46a103e28",
       "e2816c1c7fdb0a6727757b11fce87629e22f66eb55cb5ef301c9b774832aefc4",
       "f591a33e3d871da11fffc2c4177e9036c4a73e7ebec479d9792aac9b388c4c96",
       "7e3d4079c2e0d62ee699cce02f146496c78e729ff4853bfbc0df1d668a981593",
       "90bdfd0dbe0c96770a0b22c26aaec87ed28fe3cb2480da435984b79decc06813",
       "13c63da8a8c3159c054cca8bda0c808532c2ccbdaa2b38ce7d0853907aec3b51",
       "ba983c89d728235f6bd112ab741c53b249f86e5a9cb99a7f4c28be114e7e5caa",
       "492ce8c81c0bcb1f588ac543a870103e40032fe673635aa8661c276e2c869cff",
       "dbbf2541e208d2ac3e851e535dfea2d151bf03caccbd222dcf9bd5f26a7e5b92",
       "066bceac15a61e626c48e95f2b3b935ba8f5d53e9215fbfb4556a6029f4ae706",
       "c474bcf6fcad719bb526125ce55a7365cd980ad2281cf01cdfbb6ac57a63f1fc",
       "457f94067e26971e14e9ccab28b838cd1f9523dbdb8fdf08272e201735b05e50",
       "9a36f894691866ef8032a87daae5540486d108aebfde9659fd107d9345f4bc64",
       "78d527a4a5234e1fd2383fc16683e53adf24b90b2ee706ae20699f6b2e604fbe",
       "4cf3bc714f9c8fb7599ac6055e4b1045ba27133c7a176b138f3a6886d514c647",
       "a8d7e8c98ab42542573bb696cb015993a570290a4343d9e27b4dc29f2cebac51",
       "37db1562c2ac23f55c054281d9e6d96e86a0f5e61d0afb4c64f17e2987ef25fd",
       "8a55b4ee1cde1c9212c8071400b8bcb8d0faf0e94e43bfca108d0929fc849382",
       "32d2856d408052273637e61bcc02328209317e15eb333d52f3aacfd7a19a2865",
       "aca3fdb838efca6ba814686910de5ef503a33959491e317d16c563d6b01d0f52",
       "3cec3e45773edc4ae8628569d1f1675e69cf0f2ebe46ff6465349fbf18925719",
       "d9534e4ae5d97fb59ed137eb7a9eaa06755b12c886c900dde37451075adad512",
       "f31f56bb07e8bfcba670acff200d2120759f6dcaea3f7a2bbff2c58a1db0d9f0",
       "b60062010bf368662a0460320f4bc7ae641a228a6224527718f17c363a193558",
       "0056c2dc3bf4abe7ccbb1967aa3b91896a5e49fb028ef74507c1bcaeccae0160",
       "01d220b4bd26dc2640060060db27ffb66eecea220dbea81569a580234fef26e2",
       "59c8dc4d1a76109d67549f4e61e4e75b922456de8c83bb8c8fabcae8fc651cde",
       "cc229037649a27f1d6b1cde0ebf80f86520c711651f6c113968f2e368115bf29",
       "cf95c11944d056a53e9a0ddc4083ba131d77950e1b446649fa00c4ee16062269",
       "4306cb95f94a055253a42ad55d55808ded4f7c4703387fe34f94d9d3efe69ef0",
       "6953e8718e43fc05df469d2061c8b320335e35827cae01d7493890ecbe4f5293",
       "30372849cc0c601d01e181995a045213a0ce9968e7c597d7988de52843256fda",
       "d40151f16be235a22cbd63a32e7307837236fb72400ff7a1ccb8c1816949e2d0",
       "4c6dc803e2f2e4ee62d8c69f8a7a44456086918473b4deae7f17ff4334229c79",
       "32fc2a2d3e55bc3425c64e4a19d4487eebbf65518be845bbef0915815dfab7bb",
       "ec10944ebc9ba12ccd902ee7987bf244f986cd33493be8ae348c90c4b4b6dbb3",
       "ef2e0d6ec13997506d20090ade3d3e92f48ad15236f03024df3794902954dec7",
       "02402a9adfedf66cebc9b5b9d73b5a272d44caf8cee6d2dbc8bdc5018526d372",
       "c277c9b054fc3ff77fd0125919c5db0af6c6b128f1664c5f512fcf368b0e833f",
       "6d36d4dc1fa5d397df280fb6a0033deda928cc6ea7ed3222d2dbe6fca4d582e3",
       "9692ca39cb3ac3a434d642c8f924e25923fd31632a84c14f9e238303b6027a7a",
       "e2976f2433c63ae8c108572369d35b579836d37136ca666bcba7764ef002d406",
       "f8494e601e630f3e57767b42e1e9fc0219ff6db17333e066dc033279fe95a136",
       "a70fe79bc53b72671053072f5edd82ccdcd476828d6be7e2de97ff77fbd897cf",
       "dbe0c7ec696332eb587d9063e6563de7d9b769429dd2f632b9e907b2b4a40e79",
       "f36dc4f58fd6f717a5da9530ba02bc5425faf03d29e542014c5fedfd89537fb8",
       "7e8b6558a14878a7ead9236d94406c3152751c7934538346c9e59b8f0ee8cf12",
       "b878424234419d4a0b49cbc62a892f49eff424176e412f441429b5b3f0899281",
       "85f81bb7e86c74d73713ac4c5966ac43dafe8465ee5d0884b7712734048d4e54",
       "0bf04d6969b1926d7f206b9fe3ed93d04d3ae444ab5b24de99e8b66c7fdce1f3",
       "b4842f44f8fe5bc64e7619147c1868280f5256e1a604d0e0464c959650e2eb3c",
       "9599025d6b6c9eb3ad8d14a0d288772c367e1236118f973bab2673a6c3b18b33",
       "902e4c4a2239890d48c8dad19edff96b9e92a66fefbeb34e042681f791ad16d0",
       "6d22683172d068b142fa3bc4b6bafcecb90684332911b5d0e901c0b0b447e446",
       "1e5ce6a46b82b528ba766dc6e40a7f589228b735d74bb4b0deb9e18709faad3a",
       "0ee2ea0aa01fc7863f87eb55fa16661dd53fad1670e9dbe257767f802af3c098",
       "6265484c49f283f5c5272cf1ed32b0357eae3e16affdc7112e5bb49dafa4c9da",
       "00823c1cfd3a6c7aa98053fff2be92865ebf84d3b575cda49f0d9403b740c87c",
       "fc8de28ffb3b439aa23da0c900327422a50709aecdabbfd6d3538e9476728962",
       "e2b0dea796368b134c517eb32178cabb3b0316aeea2d1c93efe3a36fedcb643c",
       "10a669dc6eb11c114cba2d7505761eea102009d556dc4a77934e6cca8dc510c9",
       "cee9f04be841e77e472ead6fa1556c98b19ccb3aa43c828cd5ea0372393fdc5a",
       "2ccabd0faa0eb4ba3b73470ae7d89152c24899973bc3bdd2a8bd9b188ab4820f",
       "fe264d0027ac9c5a6fa28557c95e5923f7a65a15e0a351cf543bd19d829c727a",
       "8207d3c7f5e4bda2fa85932a811444f887e9c433326819af02e92766ad3d02b4",
       "2994ac01a779876800fe67ae7f7c0967867cc71efd4b87545dfcbd7d46ba4d96",
       "beb60fb69ac87392299d46df291c31e38d364fe09aa2e979ad122dd86e6bce8c",
       "cf5d218d976c61af3b098157319177f078bebfe5e84a6c4419f750acaf8ac26e",
       "f16ab6a1e2f45adaa1fc94b43e55657a699ea172cd35287ebc1a20e90c0a1984",
       "823a1209bf0f0c318d166087bf03cd03d26d8973b3b91f1ee3686910eb74c2f8",
       "d58cafce7b34e2aa3a5f0ab2173461dc60388ce601b37fbc9920f6860c04b460",
       "272353c3c238c01789a74267f03aaefe2473933aed62680bae561ef7f7779ac3",
       "4d5b1da289601a9b41cb1608c930c8dca2fc72f1596d3be05a53ab4abffca938",
       "e911601a3f76e8b98766f0a6a717f71c34bdad33845bcb89a7ee460c1191ea4c",
       "5784d9df391772b539ce8c480d0c69db415dd36727d98cd70026bd1a35a961bf",
       "7daef8063e0c4b5be1af4b6db14e0dfe469fb9f352e108eb04b7731f6b50651c",
       "e424be5970c0d504ba54a9a50ca7c6a514b07d515a2c990a785bb3440bdefec9",
       "20a230c689c0cb682dcd3cc5b28282e3576faab5679237169b17918316907426",
       "02928e5209fddf6bdaf705191c482d51fbbee98b0add2e7faff8b5ae5962090c",
       "d7fb9bd1b58edbe2e447ff1452642afe505872e5950119e1d9318c64b214bd85",
       "094fa5feb6e2d3b2a0925cb4093b9b5721c41f29f501d39fd6b9d5c8a10d658a",
       "2826654139fed3ec8d39c1b0a4b5c9edd0a50c878f9ea5e37e7f4e36f1ea8569",
       "7774ea5d79547f54c3a37ef4a36d81454da3a4f676613fcfb6381081c3896e09",
       "d7790ca18ec82100e0a8b219cc1d2d073103809a15ae7761be6c3f7077a7ebb0",
       "f2cd5539cead96a25c7987abe95d194d153fac0051e82303ebc559c4b42be015",
       "5986792682bc9e2ef28d8d259610de8e2f8022cbeec7feefc5db58e9ed8cb3f9",
       "47eb8f6ea93e95eb8638c197b1f87da5dba2a77895cce18077d29c2101505cdc",
       "55c004410d005493089137fcafc1c70a6ec18cdaea15ea53e99bbeefca07582c",
       "4c0fa376f1cf5c756a3efb01d8ff0a46655fc58d0e33be02e0c3d2790fbbe2bb",
       "aca66b87667910c0b3b04bc53442b6b8c40e88e0f68ccfec4bdf0ec73d002a69",
       "0d886234c6d50e516af781ad09d07c0d7b9ec944ecbf425ec2e14385f2c36f63",
       "7256aa3dfa91d898ca1de6c1c05688b8cf098fbe5b60f39d784c0875409ace17",
       "745f45bd8e1978a90ce8277b04751ad16445be5ef0f7c117aaddf8fab861c2a1",
       "a1ba871485ac7ac3f7f86071c07fc1449230d62107c839c70707cbeb09535edf",
       "7723aaa830d96f4539ab8480dbd090a1b5cdc888852f3e864a64dea14a14d742",
       "ed5affa8a7eb0456a01e612bb45ac8b2b63eb8ddac3ff459bfd5642de7ed7736",
       "4607703749f728b924213f55e4bb882bf0a033b83bd9228fe81db1ef064196e3",
       "2f4507051e93ce3cdaf4590539acf59d1988bde5f9d8a55889b2f1a0ded498a8",
       "bc530bd51fd55272734b7827abfb7f9f2a795897b43d52af566e697c0fc83b42",
       "3b13f3eeb3ef8f3dd4ae869a8f75f9adf871b9ef9756b3ced1a041a26af21c0f",
       "761eb992945f43bcc576a00a28547eee75339d7237f8b68abae578fe5799bdba",
       "c79b9c1b8f045dfdf5d489468c435078f6585ee01d810e133345118054e8f0d4",
       "b70bcca00f3caf78204a5fb15b935cffe2b4788c15c75b46eb4ba5c5eeb9e8b3",
       "b5d7ebb2e2ca46078f136f0e67a1ce1735aeeb0baa0d38c482b7207ee6979d46",
       "da0c75b6dd0e4945a8cd1a62f58981d99c56b0cca50ed3d62c654b48b0bb182d",
       "afcfc3f6fc47b676c4667bf22d0934b0d994d5c3e93ac34e87aa94b57623bc3b",
       "d25c24d249e8176ce969dcc6e4f2bb6941bccfe9862bcf006ed15ff4797cb67d",
       "4f0daff18ffb42feb80e362a2ba89ad34aec3279546a04071d809862d4b4057e",
       "bdac59aa2614bc01e062b3c1c618139b553396b846da89093ca88f78152ed749",
       "bdfe0013b45c8b255b5722c599a778b68db519deaf8bd7412d4d3fd0af90d24b",
       "ed21d4b5f60f05f87d1e8d1be3d1d2d2b13e1646ebda6cbb165b970dfd071fe4",
       "6aa85b9dcacb9a3edd9d53473fc05098e3201098f4558917115f6e2c047331c1",
       "b2a135c68faac7d52f5b8d7ff5f7bcf6889415c19d8655b077c0abd932931212",
       "cd559e38c84c979c69d13d6bc779feb9a5773ae7b5c4087d9a3002a0807db118",
       "eef01819aea90bc672c5d394b4a4b986c1f61e400c5e1c0c08dcbf6491887515",
       "a1acf554e755c8462fee445352ac777bcf74ffd2bc94ee5c6da92590a64a5212",
       "3d37fd16aa7bda184ec0ccbf13f2ac54e6f7d9ff9633060699f2730b2c4e522f",
       "304326c0aed62f1037407ac91a4ccd6302aa0a75e83684678dd4059572af0681",
       "b4a9c15ce86dfe6331de33d70d2ad2dc23cc11dd6620f29d35bc74d2b6c9bdc4",
       "3c2cff326ebce548a0283e1f400f89fa3d131107a153a3cf3c97edfbb8ba3d5d",
       "a810f00c16eed3b2b8691cf4e072921baa0c13f68742aaccde5084bb0b2590ff",
       "586ea42013b6c69c66ab8f7e060e646797918cce25ae6e7bd9c7b72a0794a141",
       "7a430d30ac12aca77e72a9f04ec262018c1feba1aab1362c3de4b5c899712a31",
       "0ec015002c228660f36cf46eb096b352f11418418101aa1f91e078c8d4d623b6",
       "ef95853da7aecb68d01b30cbd4e917ce6da82f447974430bcb65346464c1ab12",
       "25bd9b93f7d0d0a7dd7f0615b3c94340c6708e58a5adc1892b8766738965888d",
       "7834f50046da6c7a564a3ce9af1d5032d9c5cc001c291440ddb19894718c920d",
       "41c8d379296c6825572bbf79a784d83ce09af591d7727d6831ccd5efed4e5eed",
       "420a56a509d63a01c843e00f05e9f2802c53504656c7bdad350eb29c85982ca3",
       "0bcf6937bfd089b4304129300626d569a36bc5ecc08d8d17b972f73b7a4cb79c",
       "4b1d1f54dedd1b4573eeb3eafe5f97ac8f8ea4c028eae4060f0a0653fa485f8e",
       "ddc432b92a249ec74ae99537823733ca4e6cb99bf507ab2a00355e9d326bef55",
       "72abc619cbf8336eb370a61c1973d28fc605d4dd15d4c85f5d3b7dd2bdf96519",
       "4d108b356675ee8ee5f96cf598b8f11738df8c338102020540ac44f65f69d99a",
       "322584e72dcaa883d6f49c1414adba63fa13492ade32a273db7c72f5885801e8",
       "71f847eb01c58067d4155476496ba972b554cdea20e25bbe0724a6286a974c16",
       "8806fbff1f8afa53adbe78d844f05895be27ef6f7e332e60bc51316de0c3181c",
       "125b228355ea6e233f1305d1cda5a95c48dfd6faf89c3a83a7d5cd4401fb6e06",
       "0ce44236b149d0ac8bfbc91806734ce5217dfb19cee5f8537e773de432dd5013",
       "4a7122eef3302439ff26b545b88a8a69142727c0645cc5b1a9ece8662b637252",
       "5986efaa951f3d7db13ce5432c7eedafa7500c083b1153961cd87d5b9d579e17",
       "37030f56b5514a5a8e053f68539f4b72e3c707c3c760eec385c4d32e3537f937",
       "7bf536a830bfdb70afdb0ea237ef3976c981350ce409cae0e2057de8983e06ee",
       "4057b77af88cff4e947a45fcd3b1f5d10c53f6bcf02b2363d1d034453883410b",
       "2f3f9bf394a946bd014db33f6fb35ba641ee89c43fe1e45f50517b1a50f9a111",
       "b2269e42ad58c2cd74cd73fe26cee98c03db69bf6304a14b8053676f4a9ecc69",
       "21eb2b8e8af7fbad429030ed05c437a813536b257bd4d361559a142f67f409b3",
       "560dee0d5b9d72dbc022a5bef76bbd21f662742cb2208f5361cc25059b998588",
       "b60549a8cf411138481f179ea32176408f265999aba60f109d4d3fc084d9adef",
       "8c7fafabc3d0d8deb70454c8bcd896c81f728fa16852774f2af638e9f198553f",
       "1ecefdf42ea9217755b471af6a70ca35ac7a9a716a832e508235f206936d7e70",
       "684af8430b41e3d68926670df8bfb5a66d498a12dabd07e6d52ebd51f27cfe72",
       "401d06f0753c7e04beab99b81e8c08f432475e44995d7acb762162cc641494a7",
       "f839c71290234505428eeb1ce52c91230a8824c9025ee249d1891991fdb99c32",
       "071bb7f4bfb6799f8cafdac57285293b900791c188fc890fe24f88056c33e339",
       "75c6a9e08c9bdaff4c9a01c2be34c544c8b973a75674485d41a54e9538caf627",
       "a0e6f1d4ee2615f8760f299e3cc9ae5478e93d5546c92f7ab629be6a26d01ea9",
       "813455df2e2af2592fb8d261b20af4ddfb1f4ba30a33bca76c115bd6ad258912",
       "9a18b1256d77e825680ac39697be74fddc8ab30d8e44abd4f5013dacffb1d9e9",
       "3a0676ec6b388ca43bd8e7d86aa7acb3c3344ce7a8ad3514016825f6fcdd3640",
       "b2780d7740bac07b474dc15583feefa0f9e9edf6bcd701f65723d30812550c17",
       "8a9fb5339bd69707537448f12dbd6cb7ccea581ba9c1eebef37c98f39f4bcff5",
       "b40587993e0e6e4b171f076e1adfc16ef48d2114362a7c57544e997943cac994",
       "51a16c5f16eb458987a2386566389faeedce6cdbea0cc0165a833dc120392fd4",
       "259c323e95c3385ae84e39da8ad803a9368cbddcdd5f569ff81530df2ab251cd",
       "56997a6665f6538c149e70b664ef03ab08f6fb2ebf35d99bc463805f397269ef",
       "e3ded4d1abb87ab4aaacd19ffc433c0b2a40e017bd64eac9b70a8388b510e8aa",
       "ea9eb9b5d9d377bd46afc389367cd9471a0bf2231e2c1e09eabfaf65834e7136",
       "8fce2b614c2bdaad2972b37db913f692f5857c8f528764ad756ce59250953754",
       "80b58f59e891228b9baf0fd25b4058bd5905b1149ebc9e91328dce0a90e2a28f",
       "51cd6670cc36618f1354e987c1e19bdd260950e3f87625df89b43b4f54e18f1b",
       "267b431f6ec1f6c6454f99bb4fef1663e18085fedfa73adab2191f25c068adfe",
       "ac242c7afef044bf5226bfc85de4d75ac93936329dd81e0a5ba63f0d6db74a3a",
       "702c07ea5a991cd52dbfd8577b57e90565afa968fc459ee2cfdd7ed2dfff443d",
       "9face4cc89f15856b9618b694981c1dd65548958eace478ad9e5680ab4645324",
       "3651d7d791e06588340157c228422fdfd553df14c0a1872b2a376fac4b74f0e4",
       "2d8d38f15412858c1c5848dfb81ebd04307d7707cced4023c9c57f2c13faba73",
       "d04a8bebf1eed1a5086bdfbb3a3a35afdcb174316a2dd71ad81a806763241343",
       "28adc4e29665a52171052099a6077a45f86a2481041eedca2f93fdd22111dd66",
       "b70bbca3d5c26a84ead726533e47947b9a1f6fce098b7e19996986ea20bdc2cd",
       "ee5d888257b69bd2a2ae9a7b654ba4a6162a10b238a6cdba0967bee3350e411b",
       "b0823d52e89ed1c9a600ddd4ba6cdaf880be0e1f8418e03f016cc24b1b59fe70",
       "40a2c1d091f63771c9cfaa0b710b0e7fd7cb34ff82de711b178e8c3e13a21873",
       "ffa67d49e59d269c3040ce4dc499fc85aff22266841aa3fe0bd4ee1f2d3cc48e",
       "c7d162d1e695bff0043fab80b50b943553d7cee8d53c564fae65e9e7013aa421",
       "0eeae43eb0453e0a8a1848af36834b8050610d9b3cb1edc3a250872d5242f2bb",
       "8bddd1238943e7608cd15670aaba040616a654cd6372502ceaf23c786dbe6a80",
       "e721e299bba3d1d118af60b64351050fda8aae24e3d34210c3028393ea3d8a5a",
       "515ee3f93783b2dccf8ae4904962be7389c3c51033f103951121820dc42818a1",
       "e8a93fd0036bf56a2ab3c32acbfbb89c456f2fc4ac0ce0ab0c2c114ef21edc03",
       "a51d02edbf103dbfee3325f35e1b3fcf139c308bc8f5672ead7928a6939d557a",
       "584b95a4bf11893ef6a07ddb697b9b60684c624f0c5b6d4c7820d9f1a9bbb174",
       "948a6ab021fdf978276792779cbf584e0c297a2b8a01ca0318e5147cec3b2d14",
       "e6354cc6a8e29cc4a399d4b96f68a7df95f71c3845d3890fc5050bee7aa22bc1",
       "7c6eeb00a7b5f4a1bd86e6242770a79cb4d7fecab1724683bfc41c5327ccc37d",
       "3373c64ec52bb7002f3258759c4bceccb8495adc955250ed665c0b1fee8664b5",
       "91991a3d8be79fdb20f2b7744aba597754bfc86acaceb033a8cd853ee5d15f4e",
       "05abc52e313b003cdc05d14b78fb56d8866f11ac215feaeb79814dda4082455d",
       "4f26d294a83c25227da2a23a1a191ee684261543724e5fc57ec86f324e50006c",
       "91a14a0136218f38b9570e7214b7a03abc64937945f4f5789ec8a983160c2414",
       "ab0f5fe0af3ba3971263c9346a0c24c7d7348cbd898e19e6e820b5f89d88380d",
       "841650d82fe4c79e2555387fe7a48546b9783cb87093ff84197bc4de403222eb",
       "ca3983478d1866e258a832134ed29efc61c38d82e208c1a97b725e95ebe2ceb5",
       "6b6409b73f3d04a77c3cff89068af56982bd7b9bab11f0acaaab1f22c91e98bd",
       "32a267b81a893201fc05a7a6e45837af791ba7a791f10b281a7052459fe982e8",
       "ee3d470198b74030509d5f9d2bd449da6d82c7de3aba8d4fce15605d6db76db1",
       "26e7c71378f81ddf13cc54f110ad73ad1d0dc006155f465e1bab52e754864104",
       "c038a6552731c0693f110f24fff69e53afc78a36aaffc30add6ed56404758fac",
       "186e402e9249d63279a4d47ab77afc832279af4c741dc87d32a0e0377b709f42",
       "1ae0cf85861582f248bc7fe2060b988b3f70e39c81d81b1ebd6446cc120869c0",
       "80c9c7d661e85126b27e1d1f1a0d06bb80ce2447fd39ca866af537aa1ce0a595",
       "a601788279fbb0e50d1b9d26d8c05140026b640e0539d768f8a6fc288429673e",
       "f40f52558785f6844d71ceb59a72dd111c0fe33c2600fdcca876e040c6a2a5fc",
       "1ef9f9bb245195408e9e2d77e380cdffa3747e0057ae6b34941e40465982b08a",
       "52def7c295059a1f535b1af1e016e548b308a8dfdb2ffac456d5a996086c55e4",
       "34a0dd37c060e1e657a2ee66b8bbaa841d978a0d90c27b0ef144d1e29be1f886",
       "9aca49e13704545e6dbe5c7559aff71b72bd558fbf9645286ca1e9395c22b38a",
       "6028498681dd8cf18803a57a719bd1f6a5619df5c8bd4350015006d65c09fc06",
       "3f3878327fe27eec95e6a06bae025ad30ffaf708b8be0866b50f2cc9f15d0472",
       "4d960724ed0f453f091ff3853e7a6c175384c6bf4d9c3bbc6c17882da5144d75",
       "8ded16f846883c2a663c4f29d5ce89c652d79356518eb9c30600a0cc1270c61c",
       "76674c8434ddc970ab0d6cb5e5ace246baa8f6cd784d3b964070cdda9686a664",
       "fd6a91324fc801444080414952238e8e6499ccda4b7694e3332d73ca806af69b",
       "f35ed05991b2d5eb9529924fc02fff0c2bb401de36462e13e9c5e319142a969c",
       "d0499be276dcabf94c3e2fe86b326d88e9c41d2f6b7327b9908792c0430c8317",
       "b3b2de25ba61f145f7a70290e0b077c8acb6d6c98911de81e083a11385b1ce04",
       "c4b9b3d83c56d3a8b973805698be7463ae907db3dd5fa3d162d62e8937b412fa",
       "f3e2e10e4a962caea0fe8639e6bb1c4883e80a087d65e289fc2d8617f807f483",
       "1e8ba63b6e45b74c916fa28de9cc57991c8118b18c5c99f64b7f80262b25494e",
       "7c39825462049504ac4a24548c39c33d4b155c3ea43706d42acd9aba728b7975",
       "72ee2fbfe40fe0b38e35b6512797818caa13297964f58879aa1b00ce97dc2ea6",
       "ad7b9878c7aee8257d2af6619db42fc8fe890f116bea104cc106352db23e4481",
       "c9a7ede0cd965a766cd0dcebc7f68730e478ff4dae77dafe4f88601b894acbb7",
       "bf3d3536cc763cdfb0bc98e1c3a55b3032063f5088029b316732a77bd9f7e619",
       "fb34cbc6cb978bf2de96104f66f2d9b744ed05e7d5bec4302a48159314d59026",
       "d8cdc0a552a9bf9eebe8f2d106bd77bc992e8284e4e94ca301c6872a183157be",
       "3ca370a0afcf23c9ea28e4c3fa47442350d103992789914e655000f23f14aebf",
       "cfb5f9dbd94a67c4b4294c981aa848edd0c25cad1dd8028d92ef1c836000cf9a",
       "3feeca01599272bb7a0126d826266fe400e79abc6497fdedc630e8626e23945d",
       "39553a8c47af030f7d042d0dd3dd06625e11b7dcfd7d9aaf557caccd3a7e71ef",
       "e2f45d2602c15adecea065a18e73fcaf080e6b30631c37ddc8c40b1724dcb8b4",
       "cc7ff02b599dd5d2a4153e850e1e052f2d16304665f0afa7ab2026de4f545df8",
       "244820ff39e2193a13d246a740d6efc1de2393c76676de7f95c5e2973caaa7d7",
       "df119e5b250e2c089ed07846c3ad8efff4d6e091cb3fe287181086a5eae61d63",
       "6f077f7aeefb67d53a06c63585fd89a90eb6487de02f6a2b4073624307fa1948",
       "3625ec650dc2aee8f8481b561e17a8d6dd8a5e38474b2d0b834e789ba03fa4b0",
       "39b09dfd4825f98b64892fef31f052ac7688a9d8166579cf90e007bcf9980326",
       "4c112ddc60eb6d5dbd90964e50e6351e59d8aa0a1451def41068202608151883",
       "038090b208e5e5243a8ba5cd5bfdd507ed4b9307a18c64d066101d93b370ba6e",
       "8280927a129fff63b69a8eb13b06b123198c13bf4143cef0f2ce9439b0808d92",
       "3426f8536f576890da44313dd1acb756b2a985e54e76f87dea35ad0e4f0c899e",
       "a48db08487f3ad2506b8b8f9f16964a1e6ea934edd9a1539d5abe2d0f126ddf3",
       "3b30e7067d0c12ca4edd298fa7ec60f0d3e9dc2744216dc96d155c4c19afec18",
       "6972f2fea626040d8617b81f0fa0edf10a0c08e984885a564c21bdc22bfd638c",
       "c82d5ba5d3396f46822e841924c18f72da4b0b4c0312a0ef24d43ebc9e02c189",
       "3c83d035bc2fb0803889ae744d5eca74c2ec31973b40bd203f1a0ea5acea82e1",
       "82b49dd37a19de5a57e55773200ed3379206bb82c370152b0be8dda98ac9f16f",
       "95e013adb28c45347780eaae0c0ddf3dc1f5166f72fd342f8dd0c904ccf9cf25",
       "16898bbc460fc172b1ffc1075478d519abdf3e63f88d7a5b3933955aa1382ba2",
       "7e1ebece8c8e1490489033728f069a11630059cfa0ab95bd75f1a18ff7b73935",
       "7618d0b575b1b373272cef89fbb0e647358fb47114a4c6f17249a0b0ee827521",
       "40ef6699f707a4ec2749476cf5d0ac103656271e70a234eb31836abbeaa69f5e",
       "7ea29865bd11a259080ab5e9adad55689b3679ba551ef34f2a9982ec2251f02a",
       "1606f9a28ec4cc07e7095358b07e3e9fe1cf8b3050e4507fe4c344af657004dc",
       "c351056c5b30ce99814a77fed031d8dc314f489631ace65f30472132d487fbdb",
       "cd2a6e1f3e7ccd7d3fa88512c09dc6a4198b8546c57d2c94cee23c467bb9500c",
       "920fb061ded9098b13be0454d2f18c24f42b91b49d330c7d9b183beb33bc9c87",
       "1beae3c8f11f08cd14a99ae05b0d28378d52064537d91f4090d2639ab4126ae3",
       "1e3fd5d922f448b24e279f1ac3cfef9d8eb555c850c29816376fe972b6a12d86",
       "d33d3cbab06029705387a5dd27f623cb922740963d3c92c560ec21bc19909973",
       "498479a6570b0916ca139db25ccc4e5c0768cacc2d555cc0ef899f9cc39cc122",
       "fdd7faf1ac2648b83dd1626907dbbda0381e1a37bf0b3bcdd2359916582b7e3b",
       "ac2e36c5b18b9f2f82245422aa5c7bd56e4160e92b1354d6ffd6e0578fb816d3",
       "abf62a3c3fe34aeed6e2d7699ea6489ffe92608bca7f8741221f3c12e8cfcd25",
       "57487f4051b3bbf173c72d28064666486ea4ffb800cf7f4693113b7e1b81b655",
       "5e06a5c074405102c30b64b5232661190bbc54c8dc0bc24f722d86dbb6761c7e",
       "24aafbcc9a2c1b3fd41b3a9ad049529b40e66e13ffe6df1098de19ce8618e94d",
       "aac3b0697f49986b954ca93f4aa10ee21be2da6ab18b4409c7d17e0883098134",
       "f3873a57c66b6b05ee135e5b90d3bbe4154f890ee7fa3c7f5712cc46b1ebd155",
       "b0c32117a363d5629dc1ffe7a0e5b2df001e5bd7ad6cf10cdbcda3c155c6d4a4",
       "5f1ee171f600e8f6118da85615cb14e438e687917f82052aea5516e59dc53217",
       "66e6b152f4f27318eea5b082fcdb095199ef5421d9d81c2ae99ed1037caa68ca",
       "04426c02e1540fd3b4b1ff3437f02ee82e0446b41c8178b6697014b1c7eabeda",
       "aa2ed072b8eead023cc8e83ddd40af9c3c900d2e9646324f1b9f45a187f90465",
       "92563d81e876054467f7d10341984a4b736458654b3df0140609db2500577be9",
       "3586036f13e65b4b54d5e0b6522084918fd70b2f38489c80773fc8a8894c2a6f",
       "f9b377776cea5e6b61f66b420f0480802c94ae6cee124f55e9ec7ee78b61e5c0",
       "c787a5ad23551600e11cf52b2e1ebdff1e5399ff10f4bd6fb49b0d231808b23a",
       "21d62d6b258be1512e311f4156d64335ffcc56c96f0560c6311acc8ee8874fd0",
       "b58c7b7f7b90d0e31da9f6e117008ae5eb5ec306adf81bb3c3745ea93da914d0",
       "29bcad63802458db3d867d16f9106d545a1590b4479e4c2f7497fcbeec84985a",
       "ba9540f9fb7ac1a227a79d42ff842bb33f2260c7e85eb66ae6ab4e0d9f705df8",
       "9594bcf4fda42919f0886576ec7a88d69ca384679e5b79404f7ac159fb3952c6",
       "51bda5d069bd3e0a27f7dbc200470e81a34038f9ba410b2616fa3f192023220f",
       "74ad4d53144b27e4010e5be92355e3a827ef6dbe97d9d17ce10d48fbcfdcf8dc",
       "3cf0f1c6aa6877298335e22a9e1bbc8225e53296cd45b7dcbbf53b24386001d7",
       "cf5e3d9762b675970fc926421e20297e4c953b9e32189b1061d0cd56a783d1a7",
       "8402496a03a8f8bc5e137ea86e5a6ae28baf8fde5a2e1a1b437c84df80288a10",
       "b5196fd111dbe96a8473e3c7105638f6f6de930de4e661aad4364f413d18f01d",
       "26298599af8dcc5ffa57fb8d36cf4fd4b4a2645861eff3d55af33c5aa24cf29d",
       "a11327251d46eb2648e9dc9cbd39ee960a08d514142b81258c98d14f92ed432d",
       "b76ea5b751da4ed858ca9fa5a5e66e0a870955168c921b60e5e1f9c714377001",
       "04b1eb18850bf30e0aa184b40ff2920f8f72a794dd04fefecfbfcb3c8f70880b",
       "4c101dde546222971cfa5c6723d4c90a68ee01b329632f51d2544af5bfcc1b62",
       "9143bc8dd762f19ff4d0dc2a562e9cbc081836ee4b57a16ac1fe6c3015a7e3da",
       "5b9618ac75e7fd1d283357865bdd90f165ceb810d56eb24778f482d83b2e0f1e",
       "ef6bfd65b6c4cab10330d59124146f139aad7990d7bc32508f7e93aafb9cc2df",
       "b4e69ec2f0225ebff66bd6b8c469509c3ade16c21eacd84fcc2370b5fd45009b",
       "2d906fc516ed12ef5f33e2661d82d3a83b58be2922db5f2c23df9ad0bff7ab49",
       "f225322dbdd48385fae061856e38d3d49f8cfb9948f6b440261c12583d8f6066",
       "0996ae321bb170d622c1a21d6d5ee76625f0d3502420846a05c192be5fe98366",
       "b15efc2374796fc981ed850063bff4173033b425651b4d4e766a85a49b27da35",
       "d6ec26544effe79efe60bb8ca3fa8a5f007e0132e6944d59688adc880d719f83",
       "7a206d465659f30fd58edd39d02cbcd28d27af40a9b71a5f5a1888dd55b95ed6",
       "0a75109307020738dc376fe62c92cfc4df9cdb0241b19b829cc18973d123f020",
       "a394f98864f4106f811b448b72e462ec5a5db93223ea1823abd3869ca88dfa16",
       "ee50263192dbdcc82632541f31fecb6f1599219d1b48f9999e323c9ce98ca8b8",
       "d3d3c44b525c88d19b712bf397f05b7f5b36d69a4bd91dd0ad6c7a719cb30d37",
       "01572f8731d7ca09f5f1f0ac6f4cbf99bba9d495957749ea352c109d1b4cabad",
       "c3b2695f08ff01de413556ab4ac2a790fee50fb66782bddc1db04ea6240ab579",
       "a70eff37b291bdc4674cc532c6593a5742879e58467100656fd4fa49a3c89b18",
       "db59f8274d15658a4465555ffc9b51208ae324d003023db3073828e64e4d590c",
       "f3f27e74cf7e1da97af8230ad1a1966f38ba3579322ef12d3b466b21bd01e63c",
       "f8ffb6303ca84458892928213af8432bd6049e6c56dc9208a01acb05c4c39d88",
       "28a41a9428bb2a0a54fa189771ef9638f2a00371f11a4a21f3e3e90ea852a3e0",
       "50add1194b7cecf9e42c1c2808d77c992d7736b70779692b11b372a418458d31",
       "fec190f40fe1e6200ee699f1d488acc85910a9a97ad6c514c45c8a15a42657ce",
       "d5166136f9808473356e53d29d6211a3025bf0a218cdffeefc0c6983bee78180",
       "7ed6f4b27c6ca859e35d05d64a9436d297b74a4fee1d17007c5cd6c03b126ef2",
       "0848e1d3d24b7e1b050cf9c60d6e40d6e867dc88d344e90af75842fe81b0e61f",
       "2164c8f45ff4291fb83279d7dcff6d13a4f7f581dbb1f7cd65487a49ee318011",
       "827033859d03226dadd1b8996f72667a2585b93b619041e67b3cb86fac5922ca",
       "12e6cdeeb8b7fbf3e8080cb503e0112985c9a6e6eae9a050bc86eb3561f8c714",
       "1327c6151d3657e850ebbec6e3d4c36198f30aa838875ffe847db1255653a7bb",
       "62b4b2e5ef9c9cb964438ebb96267dd174efee56672e27d65938207b710b7cc0",
       "4fb116568b1b6d6be967dc79d6139b264d5ce7cfb721f0010a3cc8a83bb4d2cb",
       "c0f7fe3f1de4adddff1ca54066cc8c9d96f7453e7d237cdef88b829cf776d506",
       "fbef37bfa6b2406300e4846d58b64d4f12847a7fcb8a2131ca63cc800e6013c5",
       "166531d7338fc267a3da10c37d1958fd42e57b8d2161b83303d03fb59b91d1f4",
       "ee65408f32a92aa914531338d0217b034b42c5aa62c20d48c865eac3377a4a97",
       "39f72c4af41f6bc9f104089ba78242c59da31f6977ca8d5ccf411aba81fc4826",
       "57f564ae0c147ae8f7620433fecc7f6df3e28b76183f24f2bd811b3640315615",
       "8d4b72726dd174a0072633534e27c7cd022628a0b0bc78426a822230b5fd0d82",
       "79ec8377307626d8f85bdede4942913e8183d5cdca7bfaa4746cfc4abf6d3cad",
       "2a23abe0fcb153b0ec156ce504421fcf1cc98fb24ef9d0b34a7492d0b743433c",
       "7acf537cb010c847ed29347bf9e8355941c1823277dee31216b39dfe7cbc1667",
       "8b5e9f93636888bbe1c83a501cc54f963ea7db8ecc1828eccb8b16ffdde7e943",
       "5fd42a03d68be1aa3375cd29c7ec8d72976aaed971d409b6515dff01b12005a1",
       "0e4521124a7e8d608d372174bb83c1240f8a8407c463c2e6bb9407119c3d3f9f",
       "59e18d0a7eca66df00f4d19226c93503b2c15fc5f8e4ded05223ffd377399228",
       "f82dfe38541ae734c19be260306fba8a15d16c4526da6fe68d88163c20b315f7",
       "1a8886a8f9fcbc830ed1d79694a60d25fc027593ce4dd561739cff55967af150",
       "077a185bca7e34babe6dcd54dde39ded92fe04b6804ff9bb829abc72d7fb211d",
       "5d48853603435c5e1fbb9796b6205d4baf7fc3a546c792af5577d461c256da65",
       "aa5385eb4e5a9543575f8fd671cbdb650d343878769c910195c18b3eed05c69a",
       "62b27f0b1e54fabb4033e3885f5c0875f49f9312b918583fe9b1705a884e9359",
       "ea899206b4fad1319265f5f35aa5d5fa6e72d29e712aca27ac9d7810ccda1b76",
       "3dbf3a8d4b14ac06ba4e9b66d5bda21f45b1ad65b1501d4d420ebd70f134fa8e",
       "3a4328448a0f5980f3efed081b740f4f907e66e109ed52e02474353e0a8eb2c8",
       "ae2548f6ec2b339ef5b780a96c088527aeb4378af252df5eae22fc71c0ea9064",
       "a0c6d4a4cb5391c56ce26d0dfb888c0430254eafc77d00c9c805178991d47f51",
       "b75e77684dc3fe2f1111c62e40b8c9b6ab682498f3329f90301827002e616517",
       "570f50489c39dbd2d735942ebb9339e82a57d2649f040a63f42d83a3604e4972",
       "efedc4bb1445fe4b78d6fe728a6c3b10c2f433932403cd1180192cd87c12cfd9",
       "985a9add171ea26397f965bf4cbee55d2e06cd012d6f1f6aef059e1b83864a72",
       "96df1f27dadf6396a42a364bf6600b3dcb481bf15e3fe54d74eaf8ed2224f06e",
       "e7e857c471ca8bcf6b5c51daca43b58a24d157b2a3bea1bd1b8819379ecaf3af",
       "c41ba765a4c3148dae148c046b445f29e4564f08f989b0e3eb59e2af395890fa",
       "185e09a6eb911313c08a30704711c111f87004b0337fab6e432e5b4814a6b79d",
       "49841a97b4db890322097d930d177107021933e7a93a5708c5ddbf0355ea9c91",
       "551e426a1cccc4e63c3d59bc4c706c3ad2a39839b673fcbb7b9662ec3a428092",
       "e49fb6d14950839b961e05179a604e030c5f2d90a908911bbfde73f7b571e32b",
       "0f41d1d529ed5d265a1c19d20bcbe61ffe02f52a2d389bf0b66f97a8a6bbd985",
       "ec2b6ab2df53c0217f01032fb9affced32ad2ff89fe19920721005eeac286165",
       "1ebe473f7ca2fff0d7195c782e6dd14976d9e5b2e2ffa9984c9faed67439c187",
       "831aeec9560eac5ced20c7509740997065eea4aeb8b29d578c53b7a624c330f9",
       "46a7d7919ecb40fb78208e3060fcbee54a10b11ef6690509ebabdd16f2890051",
       "fe7d60f955813e74a44d4830d914ad2cf52d523416dd0ff5a17e30b41f9bf47e",
       "9f381778aba32a948cfb57aa0dd66cf2cdeb93bd5fee35dd8ddaf2980273dfe3",
       "8b2a9621e93acfc3997f7bc0e174f3bcbe5f09f909e3fc1c8090db8438f797a4",
       "9f9ea2e2b97c757f93793837b7f19984a7778b88a8d184450d0078405608eff6",
       "61eb1c71b1b86a53ab3a269a9e077819543f6c05883b067cec572fad108c0b8c",
       "d2c24ddea7cd7e7811c01b5ae51ea7dd5c912c9263288bbbc7b41eea4a04cbc4",
       "a8b55dc92f27da2141231550822b9c6ce078e1352a91fbd051eb857b1dc0f64f",
       "26626a6d8340bdb2c157db14a74dbdaba77bbc60a1a2faf88593099d87acb4fc",
       "bc897d116439fac867421f7f5429349dfb181e7e6bf7338e7904154a73384539",
       "ffb548d07b9044f4520e7870830c766b873136fd3e03fcdd67249b3a56d2e84e",
       "8fce2b1d5423c24cb29b51098a80848bcfedd43b391d45e63d0610ab3e1c074b",
       "3b236917a342136e3cdee18024a2dcc60fcfe1a55efca87e9347362f916baf65",
       "7ac45f1f11f7c70358953bac1aa80ba77a67faa263747b6c5b6749e47437e9e3",
       "4892721747fca6753d4ed447d9bce944451ca9be0554a4e19d83d89edc2efc10",
       "608131c14ba5663b2f6feb06833df8869218d5c1f56e8efe1c36b3bc408bfca0",
       "90bd709af559f25760265ae9e408c0b69a1d246d316634a242ffa5868b571d01",
       "464b59a4e2703c793c1bad7e2d6a964e08c33fa377e925a789ad91219552d8b5",
       "0b501c3047e461bc35897b563f3ceb2e71853580789ae71b03c8428a03c33f05",
       "be69298e26eda88f94efae6679d85afbace58e58c11902f9de3ef16b56ea3904",
       "dbb895e47e463ed2d236c7fb0428d4a9aa4b46e8ccee1749d2ed65ff37ac6816",
       "9b9df47c35025fac1f0722690cea84152c79d03e45ceefb60b6c2011aa5a340c",
       "f2d1efffe529a825cac47d07d4da1fd2b0c79287de18305176334d02555528de",
       "7c5d9c6f946cc92d84af9175c608772bd9666070507c2380f12d80d35e791ed9",
       "07acdf21a03d8d5b8547fe4c34c88f0475d50de1d77479099382fdd2efa8f2da",
       "cd9a1f176165f72e6dca40f1a13af2f0175d121a767f74178e4ee48c5e62d316",
       "50b5782d750ac94b925b995f68a4058e1e72f97491b7dbea17fd847a730e54af",
       "65f8897b239b90800617330878cacbb62bc31e65cc1d9531c84e54404ecc3997",
       "79c2cb9a3053de7a74733c98cfc0c527224321dca110393a27b1472ca93e0ca3",
       "a8b690ad192e0cb762f7d293d20f85a55c46f3d1c39afbc2b38edd1e1debe0be",
       "4f71c055549ccf195bd403c27089a4d06e8200e5381b54e2860cf9b46d59f963",
       "220759e11961fe53cdbb5ebf3f97a74d26345e8248de429781a4e750d4bad493",
       "ee0ef0949ba52288f4215fa2b4b1bb9ce5ba5a0b986b40e6dca1538afcc72e77",
       "eb98fbf3a66c5b16e6ce9fcd2ce596eecedaf3274768e94bb4d526d2abe261b3",
       "87d493e54b1ef6f15f38049cc6c833054903c87555e1cff521354e6bed8884a6",
       "94ea3a0462664a33214871100a4110c48047c927ac645cd3a4427b8c5b42d2ae",
       "7427ababe413da9b1027576b8eb0434062260ee1911777a7bd93ca2b565f2a3f",
       "983f03381d924789e2a13423528000ce0bac8cce2be00c9b3e4778b9d48be1c1",
       "f3805eca78b3695bc2b36f2a63a230d7bd236d7f2c52eb324e6b6359b416eef5",
       "cab24918fc1095eba65f1b3b1d0a7ce319e33466f62184272af2d156f4b166b5",
       "6223115f7f6b9b23fea8ef2b337309c24d382b94deb9de708a71434776c6f66f",
       "76aaa07199f4d5e4d2280806297f2604f003ea4f96556eec1265da9bb402d786",
       "5ff89b91a563885d936bcc0ef21ebc781c2ea08154d09000dbb69568ed56e136",
       "2de3bc043b7fad03cad1b2ebf4ff9277e97b3d7e18fdc8b2ffa6a5b883b0f3d2",
       "25a05b41d4d6c25af12c98a3c4efd859be9ccaec0c0521eb24ab76676898e6df",
       "2a79e6bf7a1f102a7c7efd46a57e712550e36e6caa0677c78ae54c55b5794ff8",
       "fcab5e00f176ad4fb2f990792720aec4797b9a1e48089c394937bdd7f982dd2a",
       "43abcb1dbfb6cb143abf96e08afac1be233a72ffecd37a68ece1f352a7110b18",
       "46326b81786e065d2ee8dd6c3a4f2db3de65bdcf4c35e9875e6ef8d4f3300ca7",
       "96a3710a0db53f39e8c4ac9edeeab16b1b598bdfdaa43144fc95faab36e65c92",
       "53544c5cc00bd2f7c59d456e1d84e274650268c98ddb48c6c8123ffe9a823622",
       "e07d5384ec7e14e953dd7d954374c4bdc11a8ccdccc7e001068f12d5dd68cec0",
       "cb0dc9e86c78e4c7c60e76fe1297dc21585f5561deb20293adf3e0f0055d565d",
       "366e27bf473348e5ee44125759c614b09dd57583d23a74c7d98332e01c73d5d2",
       "12c0d173a47d1da964aa31c62143591abcfa4fcbd05bfa96de0832156e725f9c",
       "f95c1ab6ca5daee6bd1cc674f85b36978622d4a197c7c11d42edef9e76f33d15",
       "ba4f3dcb90ef86933fac1059e863ebecf3df710c1b88a1139d30ad52653429e2",
       "2c725c7e9f284b254893d0a19743683667d542b44746871d8cdc06cccf9406a5",
       "23248fbd7df227218e5908e54207a50cc83ad7716908d3e91e15562922367876",
       "0c990be4ee13599dffefd47fad5f12615a14f4843737bc071fc2dfc9166bd97a",
       "b15e1ea3fad51f0e2283ed30dfac0625f3eae56681bc8b75551e8cb88f3c710f",
       "7003466f3bd18059f7a36417843055e920e28a77dd7537dc382004ab5c00aa8d",
       "3e0ddd968ebbb41bcc5eeefa9b817e2ab349d30ec07443585642907483a3264e",
       "68f1d4a54f39c64f549c0e117a57870bb7e3b81ec4503e81c3f9c0d6a84a122a",
       "ff84ec5669546f1dd01cfaf73f3e1c38f8291370a7eccb22bdf1e2ab5abd57e0",
       "194c54b73bbb13134e480f95538e1473929f6179add893306a02120047b8ea52",
       "a829e304261c3d387913c963aa097d45b6ca01b146e07a4c90933709ad37faf1",
       "6d4071412ffdf7d4bf1141b4b836952789d6888a80059228054b9f3d33761ee7",
       "d5fe32c728d6c1b05de586a393e1002122343269d73aa5dd661fb8c21f3d84a4",
       "c547dd17d4f98bd43c54846f22d92fe252c2c17df83d34b64f01f432197df5ad",
       "4af8b514cb81dd47f13abdfa0e48b54a535bececd38d04c3dd5d3b5fb5fa7694",
       "ad8c34ebfce9e217d125d21267b2a578e8f80bc49f4b9d7f55e67884e87cf6e3",
       "0bffeefcfadfa22f1a521fe3107b3f7335d7c13d043994b550b6d2cabc4cad07",
       "f079b4d08411c2c67ffb45c7c5971e9cce856e53bc678e62de70b2af945ead64",
       "eb8ab5cf159ee0d0a5a2fbcd0e3e9535998ab7fc1b574dfa5d31ed66f050e906",
       "a615e25b681615d2423074c7291fa234cf0f35e15fe51dde331d4af21cfd2bbf",
       "7b784ae0503150f6fd90e047fba2eb2642077e88b53b8bdf63093f7020cfff41",
       "944a02311f0ffcc6f6915f5f2ff8f96255c3c086cf3d4009d47fb043fe27fb01",
       "f127d4f593352d2263453ebd2de79ae49ecc3729a33be811b0a680a074672431",
       "e862c3f82dfcd15898e0b6d4518c714236d36264cd3955df531546c140b2268a",
       "ac147cefea21f45473dd3def2be44680a0e6a6532ba674e539fe4e5e6b290470",
       "0ee9355f46b239e58f16a07cf7ebdafa1d61e2be8ad8855c91fd8fa4c346ed39",
       "7971d4534810415ab8452bed2fc52222a611f31a52444a525358092e1cf2ca0e",
       "4111f67e2807fc59f836ffb212e8fcd2eb6f0acf0df524e5f9b126994c62755f",
       "d889e2253b0d85a7fa46857aa9a8a2c660c25e6b7667b599ebaf0c665bcaeb5c",
       "cf5f8791b8e82adff6de1f539b7d198600060d90e42e759ef6cf16ba1cb430ab",
       "bea173204f0f172bfaaedfcf7ad6201432b9b6b4fda330cef5e81ec0cce643ec",
       "8b2c1a67448038d275855c241d812a77efb7789feb269268053c27c4f7253a54",
       "c1a2e44195ddb4774b5a9024b5ff2d371e4232cd2afb007efbeb86e5218be208",
       "f6aaca8962e94da6cca72bbc573f0a18135bdde650a496fa312beb84c1e85f35",
       "827c34b852f77d075f5ae3bb947182bff36fcbb0c2f80f07446f330888d856e9",
       "b362fbeb873b8ee9cc31d66979d1434c7e1fb63ae699273259c993a2119271f9",
       "39e362569abe92f9606c5eaa9139e13c33af24e567406ae0d5d40dbaa679d020",
       "e2b55be9164b616cb591bc362b7bc1dac57fb9ac80fa1c9a8d16c17dd9fbcc82",
       "26d68493784b415f8d09ffaf87318eed30f88654daaf450692470ce79bc7fabc",
       "a21eb348bbd60b954425c6353d9f1d76a2672e6557a95fcb9773242aecb0fcc8",
       "53808d958d119661f36a8aaf4e8a4c628a3f5e93767480d763f0ad2c102de1e4",
       "b5056acbe479a579b012abc844f97d3aa8b9ac91860623bc73ed87b6f094d1c2",
       "ad3f9791be6c4bb2791b4d3b6e58bfcbf2055a169ac43a5dd2eecff42b8638d9",
       "174533be12e33b4e6a51e2810d93fe0ddb50716c48889177062cff529332c042",
       "d01b07a0840cba2049cea82f29880a15bf93675349cddf033751135f41245813",
       "74c4eaab8e02dabbab2b7b16054b5528cbeb56bab9cb10b84b4728971522efef",
       "2648838e8b1b8eef8edf68b52f2e8d1ddb7bc6f1869c77fd852c944a1eafba74",
       "47fb3e108900eb9396e1b9bd477a528db724c421215e3e203397ea6366df9390",
       "b033086cd228b537b82b3e3b5ddd70e79c7dea5bef8b611c3504a05a7e5dac2d",
       "30394eabf564b732fe8257075b15c5292d034c977f4644cf038a4005ed97d228",
       "1e896ede193fc117a5b93ccce403b414ebce7bfa0ad35a13850d1faa438efb98",
       "972b6d3dc20c9a3e9476f89a5d9319d6ba09285eddd98438d9744eb6a4de862d",
       "ba6e7152a3ac9063bafff3ffcf747f4442e654c149b9d567f3a2e7f65abf87a6",
       "d816008de7a109825927e10aef71f2309e07f69af40b59ba51c06744bf93cb63",
       "0181cd3366380d9c298317cc28644d465f7bc5334fbfb1fece90a6be2788c2a5",
       "b5da81b703a5a4fbd494a94bbe8329a9eb51fd90f4f2f049c89dce855f1ce9a3",
       "13aafc4701ea1254c427c8861a83c4b962d8ad5c822090665dfa816397512497",
       "d79ab2d9dd55ac29c7d00040da6c651c756d00690d30f33ce20d316a0a8a275b",
       "2fc9111e1538f65e7888d6a975e3f01bf0696d592dfd230e7be3a074ac400596",
       "915f8a40d569ad6e0cf2fcb4ac283ac987902d711b2eecb2e07c5b705fce144f",
       "c8bab84cd8116f1d4ca27291d7ce8be24cfb768c503bc80a6dca97b5d634e872",
       "05668cd7ed7a383616e7b6d280ecfc69ec734e2791481848368bacd9e8c01d99",
       "434fbb596d215779d609e3abb1f88e2278be025c1337170a14dfe6f0f0e73cb4",
       "63cf28b82e9c6d52e93a2cc3d8f9d8fd9e56d5c991022b642d4c75b4fc4b7ab1",
       "bb7175961727ee78f9be218fe45ea04537015db2f444850ceaf48d5ab2d54aad",
       "2313605b95aaa34e85487bca2751d6f25234c44d3b30926016636edb79f20879",
       "2804763bd727f8f44dff82d8e223f3b2f2dbd34906f57e6b3c1424c10b9c9683",
       "851aa8da3f654b0e167a601c001bfb46711507489e8b602210d650dad765f24a",
       "cb31567ca887a8bc28718db7d31621426c5306729bb1c6503ae157a6007c4fa0",
       "0b18032877455c8a7b85ba7766dbe77dc9961b69b589c6fef88991136c8aa7d9",
       "f304aaa8fc03b1854c4783782fcf30e340b1844eb555db9ac2ac7d20962924e1",
       "db990827c86f44a8587b5e35f7f3a41a478cdca0a6f4c6e9bbd9bfd3b695bce0",
       "eef507f72ec392d1532d54c1058f5dc7c7983cc4e7d27ff7f55990f20f6aeaa5",
       "47a23e09404d247acbb608c713b05e489dd44761add679fc6d3de289fc1060f6",
       "310b80e8a8bb1ecedb97a9897dd99c9a7f70d14f65e930ab16778cfe3c731070",
       "b9059d52be1c1827484e3d2131c60ad2845c15b90a079214adc2dd68f33cf5ed",
       "433ef7fe7f73db15f65997655bf5ce8546da80d9800cdf63b18246868ffd6776",
       "670964dfca190c92a6ea634ecf304f55f9e361af9d1a2c968de724efa71c69d4",
       "80218e49d606bbceb394759188992ea7441de0e731076a4ebdf5d51d9296ef9b",
       "cf60be5195e93b97363c05f89f09132855d1a41bf7b0d0ac892495a4d4f32670",
       "a7df8b225fd6e271baaa9129b69aacee98d29d194fcfe1d09d7c6afc481ca008",
       "ec95bc6ecbbf78e1762875c0359b3fa0d20781f199559a8c6184640dce367481",
       "7890e329a5bbb0bcd4026e97335980e7a5b38b3eea9ae6348486e755e8c3848c",
       "2ca901d42a1ae05c318006d73467b4ca8245d839a5d2133ff5c5a967ba8892d3",
       "e07ba8090730b7f282610de08195e61b39c95dac509792ae4eff84aaba4f04ae",
       "56930894ab1f242a94f490cf7a3ca395958ee92b5874161b14055ffc1ccd90ad",
       "c7bb81b81a23ddcb503bfd924708aaba355559840be1c12351a1c546ee352ea5",
       "16e1e01559a07f1e3152caaa74f67ab9d3ac4259c1e6eb9fb45ddff9b105561a",
       "e56bdcca345d1429b431d34b59bf275f13143114f4e8d4d47f93bf5eb9b96d51",
       "e0d4b737781ac7da1cc12b31f2d6b6f33fbc43e6445d14b7d63ca7cda2691bb5",
       "c1b8e95da13ec113884d1c34656433ce7668939dbecacc3f0ac93626a78607e4",
       "584645aaec829d2d4bd4d302b846fdb2c43f81846f0a47c4379a5b4f7219779a",
       "fc5a740f0cbc3c7d1ff83dbb1721a7f5d5cebac84bd109c903ccc81c2956693d",
       "af1bbc6a7eac2e862f6de001695abef046d086dcdf2593c215f434ae9d2f76ca",
       "c854ee7bbfafaa5788230511b26ab2dfc80a72c35b5a7f8037a35d800f2b8b05",
       "d06f0c91feec13a7fd29c19493b3ef7b55fe7c56a7c5b6ebeff11e894716d75a",
       "2eafbb1c827c11b1ae32400399975e98899f3c491f303a8f18197e7ac7fc0e91",
       "018086d785c866a8bfe1eec490ce7cd56fe999ecb06b805dea708507aa37d7ea",
       "33c5aea1fb3ec4350812d540cfd6ca194a2e514ba1c429098f4400f56f96e18a",
       "6ae68282f314ea19770ccfdd0fb5ccb32bdc93edf8918ce5b49214160b0c5399",
       "368212b09231454368598fb195fa7649c9b4569b77612e03e961eb56db955327",
       "65d0b99384f578e06615378919a7d06e511d4ff91380bba29aaf8674f24496d8",
       "f43f424005606c308130c9c8b2534ed598d6f487a40c389978c2d0679153abd3",
       "9c29c7857ff5d1e4696e06162309c4e9a5591bf82c32baa94a3907e581d0141b",
       "6db9bc55b56654d81ba17e1d1391335843271177de189cf290b7a761c7682f80",
       "bbf7b3df6e188763fa4d854e7327259109b44cb7bc109684556c30f8186fd85a",
       "19ba3c111e43b9a3d18653e46a1b41b7a7447da3ad61ef8d84b9f5e6be770df1",
       "2844f3fe4a7e77b59dba3517fd553e162a96d51c4d5b5addcebe6a5204cef397",
       "945803a3294d8ba48d1beec5134ee3c209d0112af5cafa5da16d9e2327bc93c9",
       "b87ead2a9427d0036abeadc17be5c19a830ef359927bcf0ac7d26d0e92775eb5",
       "514292332461333528751b2d53f834a48966fab3754599cabf6309b626734551",
       "3f54731122c0eee2bff26213def1cecce4da9e83af169d1b4d2d4e339c1377c7",
       "5bae892d20a36e211a6b6fb2b8bf14b85b383f2a7983d56b02c49285f78f2824",
       "6907329e6678f135ed0aaaf07221dc4415f28070cf0411db70e35c5cd822053f",
       "3ddc604d8f2be610c7d9215c186a3ad20521f5c353b33cfbec62847a843f0ef9",
       "614bad123e08ba1648dad2f093a75d36d270b9824c4a763689d4ebae29e4e4a6",
       "638d039755c36aeae501770c1a3756782879c193821bcc4893a22106ffc4d8b5",
       "e58fbf3db071c88a613e2be2fa6752834c6915e6453cc0c006221a1b8abd363e",
       "55be5bf33af7cdb0b98dd4e87fefadeaf5679532d1a932a370f3f3299077e8c9",
       "b8876b46d2f995145bce63d71558b75c9b7c00f5466f181d6ddf50358b0b96d4",
       "0c03b4a53c5112ad54d7956d6d9b87c7b23742ff6238c91790b9be78dc8d95c8",
       "684b2efb11faa6b0f5a1942e6fc66b2ceb82bf964d3aa60261d30ce792a8258d",
       "d3fc1948ac72dcaac3063495a4334a08de28045173f0954ebc5ad5e1f4f7f01a",
       "10a0a3cb5c25df15683ff98747aa5024e8095361bd7cfca221a64e4e7b215727",
       "b31beae36ad4343f58e7eee1de60aadff1f727bcc69fa98cd5757485e766cfe7",
       "93736048310fb95a450aec82f5138c3758b12422d8fc033d811608495442353b",
       "8ee8231e3be7693026244cca7e89798a69881339ed7b91d30d254bb3252793c6",
       "fbef47f2bce2572526a065b628e46b2eb851d6e69614badc703e260cf379acbb",
       "19cf3a5714f40c7d49acc08af392182fbf5c823379904d39653d132c585d3f12",
       "13b078269b33c5c1eb7186dafb4bf575f225b9889689aa170ffae15a9b9509af",
       "702abb85b859f3a1862157571ccd577167d538a6e88844f310ea05b4d910f771",
       "ab6831ca9633cddafd6e8e1046f28823cc711b3fe0ae76c94ecf33df87ec1cdf",
       "e9f03e2cd4c7f1cd41b8098816f32025e60ed84ffd23c229a8d287d44e86254c",
       "113eb0a3c8e2900db9ec8b41f4eaf77013c1ba777bb24d878bdb0363fc9e4d91",
       "f569e4ac479a37b63e44dc06c6ca2df283cbf32bfe7c0938c89a8cfb546864af",
       "68611e465a2a64c1865ed21a297d7c0e746acbad491b59af9de4ca83d382b450",
       "2c2b9b912b8cc4a73b5f584d9c6372cfea3d30d77fe0f7c0152ee1aed062fcd4",
       "f40fee8b0341ec7c5f0573ea269f1f75f34272ba04411ab790615b42b8903eb9",
       "b908bff6c6c0a9092732681530f4a664a0c0d095abc4bf973eebc3da79573f62",
       "d4a6b5b909cff618fabaf34c9b343c14972b853ce50f6dfae6142e99d4b8a548",
       "5af2822dc0c30b390b54841382f9a8f8f6240e900d6729dd2eccfb94065f692c",
       "b9590fa93be25c8b94785e169bd32477772312c65031c1407c7a8d924702acaf",
       "b78b3da866bf9ce812b5082e438e7dbaabd330410ea67cc889f031ef577cec79",
       "7a97d7f569044ff5a04a9a8858784ac2c1b7c515d4cebc5547ae63721f37a3a8",
       "808b1d40dcb031741bf061bf455d68de19c28ddf0427cc278e8634362b8e40cb",
       "647065cffcc179c31751522513ad11339c022808412688d76ad6fa700e044713",
       "c842ec9d1a0699a28875eced95e0721af2832db90d8028362e29fc821ed36089",
       "e382daa1d1c86ceab3330d860a835dc5bdbc2218b0ceb771f35c0bd3eb7183da",
       "c45955b95d6705d2343b1204844ae42d85036e831fd7b452b982ba763bc7b252",
       "9add3984d26175854d9d1a4a6516bd72c1ffecc8bed87baa81e45a5f9d782f9e",
       "076328e15182cacaa98cda8a1f0c88b8d4e510512f9d8045d391bb119baa1a70",
       "398f960a5ba3d867f5e4fd4cc91c76c685bd6bcb3d418c364a496edeff7f532a",
       "80bd619318e66aa1e1118812a9f448fedda7ef39b2309ed58f114104d9b4f41b",
       "0b6f61848dbccd322688afa6df925d258cbb2a18ea3cb329f9bb5f01d57df528",
       "18cb4329b81774391b44709caa55020ba7f02dae3378b9554110742c8350b8ed",
       "878f1076f83b1d815efa01325599250874adca19a18d67207d4aecc5aa27b838",
       "99a35f0912eef73f9f1076f6f2730d40019f0ecb31e94290f1d35d0a11fba51b",
       "0083cc5df8ef91d0f04d6348d93f32afe34861efef4b0d26a2c5e2bbd621423b",
       "f6fe1c0c7a7359846f43852fdac4fe417668d864750e0a147c87088651d331b2",
       "2f3bdf2f1add8078c68ea4c84c2e8867bfb81ba6f1598bdc297c3acd6d47e688",
       "9e790d9b176b88d3bbeade439a864d158fc2168c15c38b7a43262284b30ef464",
       "3a5345eb308ecbc02683cf122e652a5e6e3e13135fb1bb5dcdc16c2bb1b3fd48",
       "885c66fa9247295caec856d104877a440e43f79a95776d6e5926114830be559b",
       "966a140cac84879ee3208b9542e94ccc6a2bf643c6909a62440f6d9caf967174",
       "9411fd6cb3de40e35265f2cd637fbf646f9a6920e111ea46bb69565055468121",
       "6fe71cf4872c1b87bf0d1847fa0cbdf83578baf5af65f8c12f7596be61670d25",
       "b8773b684eac586bccd31aae2b3fac58e9f83777501f8eb919e3560c3a49a981",
       "44c3c38b6dbc8a8cd42b35bf3c9cfbbeb06abca2ab39bdc262e4b72c2b1797a8",
       "a2c6083128b8c98cafb457b35355f630b6dbf6673b80fcab7dc4606135f7680e",
       "966803448cbdcf2eaf3cb62a40daec324c0e086fa72f504a3e50bd56c345cd44",
       "bbc1bd47423acc340fe038f11164db0147dc2fa2baa4705117b9c598096a524b",
       "ef75044c9acf1c8e17795b04dc620dbd1f5da5c1ff554fbf725afa3280ee33af",
       "94d07b693877d9d567934401769d2f596a2f1ccb028bef28789e6b3610b625e6",
       "38f973ac4012ddf82281aa61a078f51748af3f7515dcc6bf752d3adf19a563fd",
       "9032e9ec89ad73cc46408b43e3ad2b90c780b6d152f5ebf25eab5a71a09d56e5",
       "afc50a29a76901fe935327c562ab7f29819cdad0440e31e4d340c641cae38778",
       "99e8736b0ce911ecedee2e4349d5bfcac61a2b77a3528297a8f169613a8bc122",
       "66e8a3e0e5029076cd347df694f605d56f93b0e509f339b45e005e8cf8c6f2a2",
       "770753da8af437860b208483987ff038cf5262f062b25436d366646727287d5a",
       "528b44af3ff976c7a9606d999f0274f193cbf77905727435075cae9cf5551c11",
       "9963204abb939d4db394122b1051ba5240d107b74e178c521a067ba293b1e264",
       "28bcb148a8743fbfac67c4cfb51f3a8722330dff5926974f0192d6351252f6b4",
       "d3b21d89a786eecb91536933ce6a31a6d6c7cfeb86c8e7a2ff087cee762f9971",
       "afa86fb002956dc6385266bee61d357d055247629a1a3cc9322e80504ed6ba5e",
       "1efe2c7174b0448ffcc1a01c88518f1a965c25f6b31af9428c10a362b40c9bb0",
       "d4b24637d64948fb84d324e907a276fe2b438676765f410ec021ced2d863bed4",
       "9d014117c54401e1492780a45340eedf74ca454caae7073fccc1ea605a33232b",
       "5da65555f8ffe1abedb89425804a01d42f6d2a16d0eccc1faa59bb305f9aa3b2",
       "eed8c4b33aebdf2b99ea3b78a70b39e9242b5fd904c5f581504c4ef835fa622f",
       "39d10d306f7ee8acc59088f7c026bffa0eb29d3e0b6712e3ad5f9ab9637bb542",
       "11612cdf5a05596c6648ad5b29f230e74ab929dbcf491885f226fd5b9600fa8a",
       "35b6be2cd65840b87b9191c969df18aa4823ae3d57777ea98efe1c97759cc46e",
       "8d46555968f6d52d69ba31d5cb9cd119b93646fa57cd0a0890c511b8f82ef4b5",
       "1d22cde1c3f799f9a8f16624f9dfda26082b3d5582478c4411d9009f5352b844",
       "508ae60906a9c0753f9115eedb01cacce314d0a8c03f48c336d5eb7addd8219e",
       "0eba10bbdda8371b50bd3116e5843edb79a78d30ad8f5749043b3d949d0138d0",
       "5015507414d48742ba17cf632dbf620998686ee737b24157e94284d1801c63fa",
       "f2e3167ef0baf01e070362a6936584485171f00a7a7328f8a3e8ad1d8ec399bd",
       "dd60e2282267dc4d5de597c8fe9bbdabc7a5e496d9d39c8abb5295d139773273",
       "6e2274b0c4baeec0b46e6c1701a0d80818d2cf8d0966cd7c244bea7c3616b67e",
       "abacfc2bd3f1855abccb5124d614fa87ad613b1c14f5b08a763d457199be3754",
       "994662e0cf2e0583102905dfc608c957061d9c81d2b422752626a06dd0c3ecc9",
       "90dbcf8e3c58c8f4491f3d0cc162a4f2cd2e961f691601bef9d268dbda0c8e36",
       "3fac891490d515f807915bd840f5226394a40abbb57f532800ecb3e7817e7790",
       "fcd77cae7808da1a9433db593467431357c6e60eef72aaebbcb8ae19dd963bc0",
       "43c3d94fd8cfe76721a272579d246a7781e1af0a741ab048947af6cc3948233d",
       "4b0b57320746cb109a24f215e0456e4be271a79009d3793ff10a185ae5c4d6f5",
       "fba5158eceb48ebd4867a46047473b540d4840b9a9c573c3a6a9f6bf288d21f5",
       "5636388431c7e4221c04ed995758a2da803dee90a9534589f7bbfccda98a7318",
       "a8d29097e196e6cfbe09c4059550b1f3eb05dac84dbb6b2af52ad5b9ca8b6fbe",
       "d44c3d903c282810b525add8c1e92f972f13ca45da4e7f71084b34bfdc03b49a",
       "7366da8c6cdb4b8d08f63be63dc5a160f738c1c78342adf4e3d27857250ce66e",
       "c36dc9ffddd92303e1033b2f88060e761a01d10c1997d2bf62f639c2ce4e8cd9",
       "3bbe356bedd9c0dfa43128a6550e21b23c92a20ef3cdf31c8c998aa14c60d359",
       "ac8e9b95a3314886f3f92fa81ec57fb2d6e2c500a3346f7c41dc26d9083f85d0",
       "22e41962dfd78586a4c8046cffd8d8485b3782821f4cddcf73b3af6702689a55",
       "21b1213514a0247cb607e9517d2221601b1977e44206de97721a84ce7349bf56",
       "fca2e2093d9bbe407d68b672aed71ccd94c7461b846cec1837dcd97310bca26e",
       "07d56a597114b141e5f785628430a9142f7d0be2530b906e81b3fd94515f7988",
       "08c34284d0914a827ff0179b0e7adde26d7fd2cc01bf29a2d1c4a288e71abd89",
       "e89b7b07c531177a06e5d536907900d19f2b27ddd16baea329f43910bde4c6de",
       "9bf47fbdc59c829221785bc83b992dc20f058144eefbb02d8c9df34f7de6a8e5",
       "201abb71454651c10d6caa5a5aa9253602dca33bed6dcfc7c752a153e343750e",
       "8f8cf64dfa2e54736680c1cd70095a07375a00468646f60919aa6347fb45e87b",
       "a487917bd49ac38a8c6a7429906bced50e528636a20b22d87c9dd34f90888a90",
       "cee889bcfbb06450347c49ba05d7f20c0fcf07c6aa3e74126e78687afe1d0678",
       "1e9a09992128e7b2f41a7aaeaab3c9c0f20418ab5d1a6d4069c26b9a50c477c2",
       "a2df7689e423066f4a0279045d1bb3cf6796cc48d709b085409e4ca3a81fa331",
       "8f64aea9c8e6c8f7748d657ed41b0b1d23934bbc20dc1815a7abab66a1f6f8d1",
       "16d9b654b4ce205ea16bfb70c06f1011718e2a185545bdb68692e2dfe795d176",
       "d65ab1ea41fd497cfab095cf8861e0f2a6aec8603cc72277b5c407a8a77417f5",
       "5143d2829eca7cb00d69c4c109f13acb1e49b2ba6dd5f73dfe2ed45341354a1e",
       "35244976342ff7065dfac58a435271855bf7036c9133e6d03c17f08d5e38935c",
       "7ea60f17869494fcd5778055001914960d4c7c09668d81843ded84afdae9160b",
       "08d18cbb698f9f5a213d8091081c26a89477cf025cf1a957ff718c3e74fdb465",
       "0f423913a3730775b0cdb6ba1bc4deb5e98ce1a933da3ccd44e408a3b9a10d3a",
       "8f6b9789ea4a07f87282d2339efe5990879e6d3e1b04c2fc64791ce43762878e",
       "671d0477341ee565ec93193047b9a85d93fef4a4250a228c9c2137100e0cf5c4",
       "d516416a27dd733c1c98219e584aa5f67c8d2534f7e3f148079d13d65d89421e",
       "75c90d688479ff86449f21d7ff7f4fb203ba5f366cc34de209974737c4cdd2c6",
       "bb282e9eec1301a8791576961630b6fad7eea28e180013298d9c1df85b57401d",
       "6d9a5551afa65047d61ae254fbf2af03e234cfc404e2c748fd769c2685807f16",
       "e954be57677c81adb50697c1a0ef2977df3b4e4d7ee3c95a95f6c8582c945f2b",
       "59618dfb426693d15d10b12c57961a6daa34b6b60359c294e88d81728ac78b04",
       "9c115a525fde9da593914fbcd51c4d0ca13dec08b8e0ce720d451bd23d6da4c1",
       "1e41b1475db75a17b5eafe53c425ec7c086e0f96fa809490a97a84df0d5c598d",
       "9cd81d954b0b8e6fe5e15d7ac0a955468b5223d8360ff34b8a5839e28820233f",
       "00b5903ab52bbfe1f4e5aab204ac1fcd1d002ba35d3416485df2dfa60a7609b5",
       "ce838c15e96eb540218d8960c35f249990c55221de4f37cae2b17943ea681fa5",
       "a4d922a52af9fcebc08d97694df2dcc73f1a36e03c63f2f0af612d15fa2f8d7d",
       "8ac309ed5cb6a2ff1e9ac2931c73b3124512f31b5a08633f0261fe5e2621046b",
       "b0a52bf173f9f4bf0f75cb94300beb90197062fbb42de4ad1adc1849bb2ca046",
       "833ad60644dfe9bc58b059c65cea843ede0b1dd6117aaa3df171cfeafac85fd0",
       "78e7350f264d689606f40b453df41bf8acd72540689b2800ec9f07ff810e566d",
       "1e8513277ac39ba9fc9499b1350633b1ea419bc05673ff2256853aebe8571a3f",
       "134682599201de885ab1149d5416e7fc58e679eed33767382c17c17eb4f1adc5",
       "f3bc84c406c8e38825255642ab05faaf10f67ef0812dedb66922419719fe95f3",
       "00ad3ec4a9d4444ef2a495e19e292a827f108afd9678d906f513879f69b1fa8b",
       "9565677eee4e1dbe94ec5862622155161f3db24b5368bb860d0c7e6e84e13624",
       "252ed42365438038d400d6dbb4aa0e1fdf7e3cd46341cc8281911ab8b57d0490",
       "1c2d4f8f7c0f4a97410921f304bdab07263ddd8d77f0786791d373c626d95782",
       "1582d1b3331256a9cacd0649bd8bc04c03529031df94bd58a071559f0759e8b7",
       "b5c1426730f6d2c1a1865b8fe96bec18110b8332a093ac0e956ed8f1381fc95a",
       "4ef11079fe2f0d7f263661ac8dba575ad5f83def55a580885745b4006ae5b9a4",
       "b736c15f40a563b0c7e03dab273e69300565c8a885d99bfeb985839bfc8ac032",
       "96c58b25805e8ac368a7e5cc7344687189eb404fa128754d0622205294eb726d",
       "68a1fd61e0d2c6ef7ac43bceb9a9ff1226fb13fc534d17a541f3f39ea0b701b2",
       "7ff8c1b76ef6e6c42975035ff3fec3b855e9e23e081d6c41991f9f6eaceebea0",
       "2e19e3628bf0c2253dc7c1c743b54a52214815e64d4583887bf1961bcc8f253b",
       "4be696dd7a7990fcb5e97cf0dbb76194970217be068971342aaf41b8ceffa0f8",
       "e2827dd143bd1075df7bea742fd12ed1efbe1f3125a6eca1b742e200cef2055f",
       "0e4e35718f416dc0234b5ea7d9a90238fbc46ea04c9359fde9ff047dc1fd15f9",
       "730e4384225275fd1c84a67f69627d37d0e084dc12c68372d3c447bc4b78a424",
       "95c0d52dadde59efe87270984314056feb6dc5ce608c35104eda88db5fe430a3",
       "0bb02dc5935c22bfc7bd192612791097f2c81c4e0487e1b5c8d74f481758c87d",
       "6f194acd550da0aef5791fe741257605245d9a2f1c8dcd79366b515d715d7afe",
       "9349d8e2c6fcd49226f44fab26badc40a3a1c44eb2ac2fd6ae35acc17680df82",
       "9b985a67f046fccb0a9c2295063adc2d92b8333a4939c85de3de1982aab694f1",
       "09a3f362d63d73d63fd2b44a2da93a0c03ae9231b86310f810afef662640e5a6",
       "5c3757d1faa1b65216786072e7f85359e93bf22e4ecf9c63d4a4bffeda48990d",
       "6bddf92de6b404ad888eeeb0e8cf9946639f79a16812ba9d4074c77a22f56f61",
       "e88ada5f36003bc0f0bdde681f9a09c32547cbec0cebf83599fb21b33fe81a55",
       "86ed5c68e18891e319077aa6434f978a484309775a0071a369047aa1d1766853",
       "3ff73595f106b22c0d0d0c3c0529d11e1ab08ff9bde0d737732685f5f6dc0793",
       "27d06a0a3140dc5d296497b047db7cc920aa9a4ffc0b67dddba8f42b23aa8dc9",
       "b4497ba7970744263e73cb6a19f4c1e7d0b2faea23b0c8204a70c311bb9c3ba4",
       "170a00c0232e9f2566d6efc1b95fd55406dccc5e9adeed354edc81b65f866986",
       "c437f321dba8f7db3c8626e02af946237d8663b784c14455b3128dd2650b2fc7",
       "122130145da36ccaec5b1194c81361fcc3c381a45d1062e5e7c021f58d62bf9b",
       "172b5bb9d93cba15fe9baa3b5880d708123866148d3b71eda2064f5fb267434b",
       "5baa3a1868ea4c69379b59015999320d566e5e7d3056721b36e845bb5a06a1d4",
       "20679f166dea8e33b6777b82c87906981917073bf68d6bf35709d21757eadb03",
       "0e6dacb5b309cf69b69b36c896cec00cd8992cdaa0ca0a50fb0a383b659d9715",
       "fad7f9cc97fde6a6418292ab0524295f0b4f29c8293c31c224892b2126591115",
       "135d382635eea75b2eae63f9db236f035c8ce7440ff2ffd62b791a03ed56df11",
       "330fca18a4e0f3d4d2a6e0cbb3af280cc864758f20caf08590c490320d89174a",
       "d51247c8113e02c4f638dd0696e08ac962c670b94fc43638b95958de2ecfb699",
       "c500c8ee409ac3b6d39346fac6a3ee27df1600ab216d149c471666096bd878d0",
       "b35b5e8a307a214536eaf485cb287e0c0c38b9db027d9b9424c1191b0c304ac4",
       "1eedd15114baf9b76cfefeeb6a0259d66b447203870134640b7775069e49dbe3",
       "9a8e4ffe22b2259f87bafe085b3f22d06967524ea5e648de51f154a337d365c7",
       "98297ceeeaf4d14adbd35fe50c908c5600596fde9ff1cf17216bab824449d99e",
       "f71886707ab1585ac4d504312e8f363b0f54045d2187ecc162e4432e2b9ba7f3",
       "6408d0a72722e269a4796dd36b3c8d6b33a6cac91a58b7d331c22cf1c7fb2dfc",
       "0b5555ec9f2a17f10e2c259efb498885da72d9150013b9a22bd9f0c19002fc53",
       "c089023737bcb995b337a077ba284563481af61da0d3d5d2d9e50890a3b7aff5",
       "bb7ac32d9dfdae3fd370b39ab019faaccfdac405730468b0a183d86aab5b752d",
       "cc37d2bab694b4a4d40d4a76f39477cdde363808436ce9e8bc092f9a37e9e5db",
       "be3f44e31e58a105458b32ffe2d709a4636f8b1971ae0f46c0dfb2687ee92fc3",
       "157aa33a0e755b53c5bd293d3f0cfe006e162559995db3a4bd368eb38e61b774",
       "366cfe72b372bfc80b26612b99db3297a4c2597dbbd951c0f4b17d635f464ed8",
       "0f7a4351d8587212a2a930c68804df1ca565bdcda9522d355458f085d25bc87d",
       "76e63c283cec552361eac795cdd9d484f85badb1f67fbc62bec37f8b84831fe5",
       "1cd5a1a1c49446884c6641cc99678723e8e98cc97b5832ad1800045ac765a683",
       "5d98dd6d969c46df922ca6378dc8b8954d7f7b3f44d521a442f3c739b22be166",
       "dfe02ca8b1a3291447df4b7d1c0d44f62e7425ec8d6933e5be672349a365750c",
       "6c03884d5db5b1681f33110e8b16d1ae111da368da8b8161362dfecbaa69bc12",
       "00a0c7b75962198fcb958042f6f0faea7ff69e572d21fde70ca17be912c390f7",
       "573f99ca2a21cdec4b0f40e8672c6da4406f2dffc10ab64bf175acbd9c03ba55",
       "8a9fe8d97429c3c573bcbd61e0f9434608bc6aa2bb849c189280a7da36c7496a",
       "db8dc45e0a605cb97cdc499b40a569a8e827f2f0487760e154452438d06434f2",
       "6bcb0007d8f8144c5d608076505e40e6f72b1a88a9e6b068c019f56c93439ba0",
       "4790b07525aae4dae284dd3411bc54a358fd5b88b117a219780ebd50f97ad8dd",
       "38258bc0021c813364676150fc07ba3ccc76f004e80a1e199bcf0e215ee3d939",
       "d984ead7d1bd1c24a81a2b90a9fc7f51dc301e6d2a9190ddc55a895e1711c5e4",
       "b8b35ddffc8d2343f976b758257ff89b64054aab4174127b6c11b04603acabb0",
       "3ebafc542b79c5c51a0b4a0d48801fb4bfd31bba49a51c84e88fca69494c3e13",
       "64ad287ecb29fc7bad78b51d3f7292f094e39e2b8ba429b91f02fc16095d3c21",
       "72957f2f91573b854086a6a20b0ea28fe2cf3b7ff2ff84a0e3a5283ee4987a06",
       "655d57195557073c226663fc6710ca202938139aeda82194a6878146f8584c23",
       "a5ccb06818cda2d43efae1a96a43434cb7961ed7a84b556ae41e35d3c6293904",
       "4bc84b4af1ee864300455d73644f743918044e37e07a8d40bfef2d97b8fd076b",
       "a28c088ecb4f192e797cd94663af365256c509c44375ab0b040770115a4d7a3d",
       "c50db881b35a1657565f0a72cd8a7c0b8c3476e07735642e00cc4431f726031a",
       "03caa35b7028247354314dacac522c2445d0f9108ebd3b69be1cee666c45987d",
       "e324a6242de32e1a010afbddc65a23ef22ec584cd41408e0786f144bdae8fc69",
       "d1d6a67d4086cf501de7dd5eb5a496440518046cc59d2ef1f06a465badc06ece",
       "c8eae7eeb2360a0f9ecd24a88ba62dbf439ef81e9d893e6c4c05bc7fce6186a5",
       "319e9f4f8ad05a08835d1a1c934d59f15e487b893b46256d4490425175fcb8a7",
       "2bf37525f663d7b6f19fbe5b401b2f3e0c4d588a5266fe5d14b060b08dd1649c",
       "543ffae3d54bd2ff4b9f976f8f252bfc9e9478bd462329d6e8da4271d0b464b9",
       "7c7ccedca45ca8438fd9c11d730d4313d3e1b417d210fd579d2d48049b745d34",
       "eda65aec8bc3c6aefeb09d6ed75087ddb6ebe88901e96055e0e84c3b84baaf9a",
       "b95d447de7cec042c9d221c5c8a06ed30b827cc13ed1622added42d2af496686",
       "71fd63f5e24b1e36c091e6754b682f960395cceb3ed20e0d62af2df5cb421e48",
       "674b9639cc1d546ffef55ede7e18de9107e17236733558c8a2456d1953978040",
       "a8fa352c3631205384671607cfe3aa339f4976c158abd8a797ac82dab2ef94e8",
       "2c66e68b1729ab873ea5747cbc65550fcfd4029cf616b7372bbcfb8115c7a9cf",
       "024d16860092e1aeebbbd41671988cee75a9724df7ec654d2265b7a682d7d083",
       "9edb8c482eb780bdbfd3df309f51f8f8cbf4245060d573464c2df69a749edfe0",
       "1457966c5ef58ba3550898fd2eec69e69f0d8772a6f4a8dd572bd9794f9d89c9",
       "3b8e97e3c068213e55c0972df93e42f85c2d14b5e70c6d829b57c664d4eccaed",
       "fe6fda7bbcf6fb3453394365f9eddefaca0ccb30f6859b3eb82c29d7241029b7",
       "45c46dc5bfc7cb6dc9c39e13b92d441f478942fcb4ed3ab375c529f84c6cdd14",
       "bd1c9fda8273c2231b7ee1d0cef08f35a1f692401e8ca7cc65ced9ae5a2ac56a",
       "3ee26dd6498daa53a5b96ceddfb857044d885d9273980fff4d2839e624ac847f",
       "ffe1cca6aadcd68ead15934c74bafa44b7552407fe7bafdd34e68967598ecfb8",
       "f800af9cf02bd3b369802a14c1edae73fdc5869f7ff8719aa59124f50e18432d",
       "a120f5b2e88f96e1a326539ef09b283bb3440282dc036f6626cd88280025c155",
       "b29dee3dab95525b001f3ae7735e9b8e9c0c0bf2ffde7538e0d598c9c140acb6",
       "4451f1b371f1bc4dc4cc613c370c080206cdf79b186202cf5a94e84c3128a8fe",
       "f714fcefd7d82a025c9de47c2a5be0efb8781d91d6e18267ced057582550f077",
       "39be4bd5ff0dd263910b92e35dfed3b61caab314d296df3fa11fff9bd1a509a9",
       "b16be63a3cac87dfe5c74c67b883dc1172acf4a7f6aed3f785a16647e05526b8",
       "1cc6a40fc152d6ed3df15d612b466ccf7a25cad224d978c42a04da4d22ea1645",
       "2f83d8d3e0a98fc159a1d940095d8318ad6c0321cbb17964c2293c91279b8693",
       "41a70ceb86679d4f27eb8dd4007fd8b680ee677b1312e196886d56f34a53a404",
       "7c36bca5f70925af5264864902f34a2e1f6a84e72be8dcceb1d6351adbca089e",
       "b2f35499f45636f7d585e840797112c7d3d0e9e721720939858151aa4e130167",
       "4fbc29fac7b1fa11734de18de5b6ff2d92a02de3f8e2f5833066b4f912c00eee",
       "048e56de226f766c7de9fcda07782fe947f5ebefebd9b7707784d30b2294ff7d",
       "792c0987e1209e5b7a84c2048fb4b939b4beac551c859a99e1e670fa75646386",
       "836e227d033c2fbe47b30c3bf824043f489f88cb28174779e974c366252baeb0",
       "6504bd7d4c37056c8d673762bb7c0fd2202313005d5122b8afa6350a7cc2bbbd",
       "0d4fc8957218f15db4b674aeb66a5429d8803cce4a78e15851904e952f8f85ea",
       "200cd7c17a900b43b6b72a112aafbc14ff4eb8756c2a35d756c91abf06b83fa7",
       "f7503f9f1afe309af1a12a9bd73700441ff1414e36284f5c67a38597936b2b60",
       "38738ab74c17b93630e6fddd1638be22c01fbced994a94269997719707cc1b27",
       "14bdb2fa52e0de614ab0da4c52ec47bf2cb9bd391593d303c987792e74d49714",
       "fd33e6313cea051f84de641dc5622ee7bfcd5f3a3f22c22929e4a9f27ce130d7",
       "92e1cfdecd13fc74c2d1ca10e3b9c8f22825f8ac045824a2d3f6abeb73828485",
       "a2a3c3524d0818ef8b9acad12bab739603a11f08eb59b3cb99b0379e259faa96",
       "68880c6f641d13347d348ad8f636e356bff13e2b222355c208ba770cc5afbf32",
       "020680ab7615280ea3bf4d67886402c413ddb3f9cd59403cc1c2c87de456444e",
       "db7cab3c3e1c279e7fe62e2dd786eb43480800441786e786fc6505e799c4d52f",
       "534ac4d59b22c74050c1d919a8824a8bd5fe7a293a0bfbf7172b312d21f29317",
       "d11bdf983188d876c0455be882947288541a8ba454a8a8bd02e69ef26525ba7d",
       "fe222381e7308ccb955494a24813659c8b9112087fa231203a6f140175cb2739",
       "8c70c5d25d2c0c8522291c9c1845cacecb6dfc7af7c3652e9bf73233ef9f6e7d",
       "b2b2646656942b942719f6e840226b194a4cabd8839105b9504450bd9ca147e8",
       "0194045144039bb01aa2316b1900825a53bd964e42d13e1266cf47480fe53482",
       "34dea9e5995e84ce29fa9c8ad5828925fd9b1c02f5fc3acb17402df77f3b9c2d",
       "a24f89cc004822f5d1726f9c53e35197c18ba45054df39e06f6cda33e074e2f3",
       "d2b0c5f94e6069080ef6b60a5fec571ec2751339be8e66db58c32b8b51a08188",
       "ada46f1334930f60d789c00a790be254b341e146355a2a945a940fe41085d695",
       "b7c60a9573f98e11e6d2259f2fa21d224db885c3007e2e2f92267cb05509eb57",
       "3cb34c4ddbf175bd9a6f1f1b6654e946285447a471bdb0715984981aa73db1c0",
       "9ba351a0afed8715ba77bc225c86737ce01222a0e4b2ba79233da78b63188ab6",
       "45407c18e54b6492fbf938488655d0423e1119f08e5d92139be13612acfc8839",
       "8b428a21ff6afc26e0460591e18d3b4b4971f7cce84e12f40f405fdd7f69289c",
       "aad88b0dec350d1e9e25f6edaa55bf91bc2f82f98a1303a899c8a0dfb75cb839",
       "204b2f8ba629b5e90ec443e29b10de81da05157aae000ae8136b8d4ed2b54eca",
       "4e19f0e98c669751ba6b2f8ea1e1f32129618b8740be90b5506c0298901610d1",
       "67310a7729ec0f94be7724b8581b8b7010e35347b82e6dbcb8dced479f5c6c45",
       "a19086a65d602a0ddb34328f8f5e44f1c313006b57c7d1c28fb11d5a6fed7bea",
       "03db1dd7d32a5894233242b234fdb55e3d213854ec1e1972b3274fac1533fea6",
       "7ca1970f755e80c8be84b624516b8538d87ad4ee27f78aa92fc06279437f8201",
       "9e85636aa3c585fb5ed51a7cccdc06678638bb4340b12d88fae094c70943108a",
       "035b5bd9dc5f221485ad33c5fa5a08dc2e4317ea33333b88dcc0f742da743ff9",
       "a7735fe385f267e92a4fb3378ac674407da0403040dc55371f56cdd5aeef0dd7",
       "b696b84631778b4d72d12e98170a17de429c3f6128d58a370049cbd293ede4ec",
       "80ff261a975a846b72d0fdb1d8ec5191ebcf04bc4e6d59ed0a524a7b324aff8a",
       "8cdb8c6f1d201d289c0acaa0ffad5a2d9c194ba45feeb3d30bb82bfd10bbbb93",
       "74695fec5a8c855c6b926caaa2e3d90f48a10d2cab6f12b9374ec9914e487cdc",
       "04c10c0d62f2b321bfa070338ccd82753671da29def1c8c9594b979da78bed4f",
       "fc545c285d521457265d7d3f8c929c39212f452ea41c617121197b6c1a3cd5dc",
       "3ece8e3bfa5b5590e6e94b5302ba37ce31aabeab44df8d2e5edd9fa0259aff1a",
       "4c05740528b09dbb149f53e2d5b7692d592ff14c0a25054895d9dfb94c06b158",
       "cbae3bf0d15f208f9de40e104fdbd4706156f61b4c61573cf94f12ef184d6c2b",
       "223bd3ab2c709737b0bba4e505931a04e582f3ae742afe8c46790f211f5daa17",
       "404ef4dcfe6f5f512a17ed2804b000621fc94bd0cc2828bb0274f2ed5857ca94",
       "20046fec26a7f98e7205feb20044a6f0f8de873ab07a23e7d60c2d77f2d8a7ef",
       "1bd2324208296dfc89f15799f6d112e298569aeb54f17853e228de5258499f44",
       "d193ff1a92fe013cdf39d50b1372194f958eeef789c1e4485466d698deeba0b6",
       "c206b42147b7ce40c3e62cdc5dec68bda8d47e97e3ecb49c5b2a7172aff923cb",
       "74df0e20fd06c477e321e21fba52affd47f07b5eb39b928a87b59fd516208ec0",
       "3612e80b6b03cc1c3210d9df0bee59287cb609501e0b8c7d83d6dee465d2f348",
       "8043a4d5088dae23591debcffb60be69e8953c95c12b295a9b28ab8d74fe011a",
       "01aa5d41c349b705306b37cde6c75958dca5b52817ab5242ed0ca7a56494c9cd",
       "c28bf33c60efaece9ebad309368a7f421e333eb0e6cb5a286436b21e8acb6f18",
       "dd93ced5388b1d5c655189b9281fc69ad20e174ee10a52e95aed1424f51551c4",
       "41e1c94db5261483913d4602fdc93e6c73af43bbcb1225c2f20eb74eec90256c",
       "e6ed6fa10cf03af9143b28125afa2c23a83d12e262f164cf59f43444f31735fd",
       "3d6cb1e0893cb1ca94b1ca54341a75d29e4cf2b0064eb981577f1dbcf65bda19",
       "ba1822d25ef0df0e170f95779b8f46b6d6e9022aa82d9d5e988a11c33787a951",
       "a39e1c323d8d77f1afc9b23c3680e7ad9e4b71dcda770eb7cb031d9fde7d9dcf",
       "5dec521e2f9cd8117086125797d669a85b6b2c4eed9eafbf0f33f8959a2819df",
       "579dd042e4a535099955c050936a68ff5347e3d558a1a4d3b4910e98940990cd",
       "93f921d0cf59e059fbbb06583cf9f2485f2f8ac2320dc7910aec9dfdae50719f",
       "9c09a491923d942f7efbf8429c9ae4e30e105272ae49ecf23526af2b580fe517",
       "4f4049cc2d0c059b9428a9e7b1d432af6b11cc1ed9fb69ff4065cceeb6b92bde",
       "3df592c36f303f123044838fbc9372672fa0e2a64aae117d664ed12366f90fbb",
       "bb67c21accd81c3023a34198ad4ef5c8636751cd64cce819aa1edaebf8275b7d",
       "263261330d8b458330f6ca07e5fe8981ed02c2cb25ab5ec5b42cac5fa710b028",
       "29edf921fdcef3d5c05b1958d9284726e8ecf0b4b79afb23f0688c2e1dac2aa0",
       "775d10f119799d5770f26ca363579614b86393b002977d78452deecbb7b0514a",
       "9932d340341f5acd9094a541dafb0e115ba353398b9750761b362dde08b22ff4",
       "edbc3a2ee67ba5fe9d558c32acdf891b09761a7c5354a61d3a156cf2911aa308",
       "16e11fca7d68fdabbe4a0a86bd47461afec63485b9aed2d345ec6a65e45a9644",
       "b363c8b1807ecfbbb48dccc71f417834d259cf1ed7a689ef9b96b1bdc7c54ee7",
       "321286448e08a156257675c5df577b5611716ab7ce605545265b4c97580b516b",
       "2b68b55367228f8ab7ece68c4357f98da52aa09825133833faf29dca74c80931",
       "83d2b75bbab9ee6e074e5a2137dd4ac3faedf05560a927f5b352b67ff183c859",
       "358d849d044b8211b64852b3ce3879317cacc508daa6307e19ad74ba441787c3",
       "ea2eda23e512e898e7dd8d02947a05913a3c5c2e608d6d53029375d6595edaf4",
       "4df1ddd9f232605649864bf057f050a8659bbc3f6b66d3b475f9ac45a77853e7",
       "9cda8cea93ef3bd3e091bac75e226b6f76d1e20d10379d7d2cddbf553983ca7d",
       "89d1c1657f9f8ef7bc2ab0f65e7c59da348af73d5ba239fbde3f3fab8a8bb0d7",
       "7a6ca3500d7b196d9358160db89d954b5a9a86e3534dc807c4b64c2cc2f41b2c",
       "cdee3760005a75ac68a59ba1a01a4ead1cca0668840a2db1585afd656561e29e",
       "22b3df01f4374371af0f9233751caa00781cdb904a696199e337157c873b8316",
       "6520fff2349be370f165a42eb02e841d1b49e623e4e7ede87ca5d0c923d1a718",
       "7fc69aaedb9f70d48dbe77cbda293e2b8711dde9b486ec949f1e13f57eb3835f",
       "af63051f1b821ac2cc85cc02d980d7ff5ce8111973198b5b72c0007397c74c11",
       "9ad227e79cc143a0955d165c87e427c4edab0b6f7d5103b6fa94a3ab888ff48b",
       "68b9a35b6b7cbf1e48291baa6fb3afdb27f06c3cdf8602d58d64fdbe176a8efe",
       "c0e16f32a77c8ee12022b795d74c3c16859b609a62b8372bb3306dd521ffdbd7",
       "47ea123eb231476dfea2ef9f696f0e496b834f2789069a48e0f1128403bc33b9",
       "9fb6df9a3456b2ec5a242d98d82f53e0c7a3b35982f36524228a17a8199fbd6c",
       "4df74154ae2511abf6169ef1fdab39995817d67deb19c2c5e8d43a8a3aa7f9ff",
       "529697ef5c2a05a982f13209510e56bcec0de45a46dc25442e1eced37674e490",
       "d13b4281d70587a47fb07f4cf539106ae9c46fd5361d64329ed56fee67a339f1",
       "e4df40a8926a0b4ead80ea0b5e3aaf4ebc2bd7d3fc5e1e6281b9aa5ce86a5ade",
       "73d4d48f9029d732e46c0df95a4ad8d60c208d2ae00b0b1e998c99f0bb7a5f27",
       "9e5fedf84c1e3214802a6e06f0fe1f4c6a584d42adbdfa6b04b18eeabdd00ad9",
       "1038f77d995472aae1ec2c6aac04043e26929c14c29864aac9fae48943f02f78",
       "5e14755635b6998b19221c4997aaf1ffcc14677c8dba4b2f38250727cb517460",
       "7ec6f3b0b94a131c13d96cf672a559453aaf7943957af7aafde0528875b6645f",
       "9a6503e9118042e155b759b778bf7c248363159c9f9c5a59df832f8d5bdd70a9",
       "52d119b5627b54003765fa421e4f317e2a8a042acdc3845db5a501f6c7d29585",
       "5be25fed99abca06fce920f19f5ff7ea673d46f3d30066c8dc0f91c4bef64706",
       "7d6d2156fb8eedcf166e0d8f056745a78300a31a3984cf50151e547cfe40e1ee",
       "27a8bfcaf658d1fee7e97d421c4203102359bd6a5c922b294bf40044d85b3658",
       "c1cc8e90c136d040eb0ed719c5a9cfe36d75d61ab94295c134fc15e4fc9f128f",
       "77fd5571cb2bffb9ee3b932508fe411aa6d956b1c8298c49738a982925fb32e5",
       "d90f804ef94aa048179cf4ebf14741c75ed1a4259d207da4c63262f59854a749",
       "0e206e71a001731feacc5c490f17fd040d637ac492d3dc1be86052d4ab6c9c91",
       "159613efba0e9a86380d82189256a730afbbbb9c89f8840c5c2d330f9f2fd7d5",
       "615e217202308dde2a27c43e029212db4ff6e0d641e9bf88cca4b2e78225f00f",
       "29897f82a6850a559e048cf450da8c0d16c91ef11144d920a6dd1b48f7305f1f",
       "e6b4dd6c57ae31dd5e798738ff9ca2ab72823f74179a26d0b491009327e099e9",
       "b2393c38b1be47f3cd782918300a4186fb097a7014342a19e405baf431316bad",
       "64759c7b4656b809e70be05671ca370f9c148f441bf4b1291a4190db373eb5ee",
       "47860a9ceb4254ade60bc9860f469b9970fbad004a43d5bc6e7fabd9924682b3",
       "4a9d821f43c14f770f27a27b9e20378ec656c17d1cc606f22dabd5b3b423e59a",
       "97301a33774d976bd3e00f76bfb02799e6b5c2b05d3c2eb0019b56c5c6ab99a3",
       "a7e12ef7bccb4d12141b497162974a7dbe6ea4ee6be1c65883f926463e7a5b47",
       "550ca087e0195b16ed2eac166f444310c59b276607aa56b6629bcd4c03ad3421",
       "1c7e61a60b7be0be64b08350202edfe10cf43731f92ba0ab6c2762e1472ad099",
       "959dbb3a2125841e66f90d3ec0e45c21af364a02970be0fcaf5837242f7f6226",
       "bc9da65d1775eccd162ddbdbaaf31210f7298e8157101bad90f6433bcd15cf85",
       "c6ae8bed1e7de8c9d1f5ca05160e2aa4a54683ec213511e879576fbb20ce99a6",
       "03fa36fc537373551a0a92f45248d5754daa90438d9db6405de2859e54dd4325",
       "efc6951f36eff1ff8e1b05ebd53dd1891f903d07601a2aac88cee303375fa68d",
       "26df60b6435e5e553a06457ceebb8579038b9d121ecfd0cd7db048a47dc9e471",
       "91d318e1e820cfdecba38f6abca660661e34332462b540eed60523082658971a",
       "8f3c2efe349b17609abef7a82bde90db531eca3a78652a805a2654dfa6aab361",
       "130bcc1ce25937ba28dc716e3813ff0c8074f007d585f7c3f261337ad2c652a8",
       "9d667a238604c8105fdc6106f1c42b9b683418c58e1b74cdbc6f256e09529811",
       "6993f46403bfa512282c552109c586f7580cd377464dadc9447ec1033b3848c9",
       "13bb557618471b4fc28af5f91c14dc306f4d766947f7f78097b4583815eed50f",
       "92382609675dedf4cea7463c53c41276d016a61edc0264eb562e6515086a84f2",
       "88546c814405f9aaa4283f9c8d2fcb5806c065a3e3525c91734b5de8a7236670",
       "cf52dfd87fd9892d111260909b97f10f8b4cfd5d91cf4fe81a21510a8b61c290",
       "c88df14db8c20c5371e78e4d2302d02358c155c7dc91fa1e2c84fe531e8a3220",
       "ce232272a63ddf9cf6bffcc6530b8d707c7a575963a79b1666358b2b495a550d",
       "8940cea8fd03839aacba7cd19600bd4b03c00170effe4f75bd1747dcc15610da",
       "fb3136184c705b95bb46761e6d6d56d3635ec1c3997fb811faf35c243b26d026",
       "0f71f4d5468ed16de633f50272b5f21107b9a5eeebc09acde0b174e09ed28215",
       "b89fb47b5236454a97cadfc7a727c429dc692d01edf4c1b50b9e7917ba9569e3",
       "5b4b7f9fc47b8ad2733fa0da25005fe4bb646363457954cac534b69fdc6fbbad",
       "8d1f01728f3bb35344fa80a7205225e5c412bc3d0f9b690a085ea17c7f4ea8ed",
       "67dc90e2e14e34ea83ca5af5a984f06d3fe785657ecec4a84640a05722c25f43",
       "2c151bf0689e268675cd344752cfdd0b52feb14eb51c8205be71945836dba503",
       "81892af80895308b8a1df37f7746fbb699831ab2937ef6dd4cf4bc664252bfd6",
       "66abc8018ca90c19a05837bd9c576f93c55d56c8a4a7a51f2b64c7c4668c439b",
       "6109c09e768309fa47a016d94530b10b51988c2a513e90aeab169371514a6558",
       "f2839956862aa73c60f65e04aea4983fc7fbf8b628a00e0c0efd38c68c106ef4",
       "b48551d46d38e37162a77d0fac9f2bcd0bb50a0fba6ad339c1146299e4b4fcae",
       "3c99b0653b3c6e18f13301d2ee55b94bb3d3fa8a5c93f86b9fd9c2098280cdb7",
       "3a082ea022b0c7d96df921e685f7ae2ff34cbbd2785e2b9fe9787128d36c7234",
       "b2b26831c7cd049d8933ba2f9b2a7d3626cfeab52e3451c9f30b905bf97f6509",
       "4cc9310deea3154828028d91c688560bf55243456f7bdff59f14c657f843358a",
       "4cd44f765ef57847e14997d8d41009fb94ea42b890fb134366dd2fcbe8a85d68",
       "12cabba76a0b67356f1f358741c7295afa06d7b526e9eabd2037a0c0ca1a1a62",
       "061922a840744cde61852b3a922864004e85401ac6df80d1145a50fecb632003",
       "1cea8b0b83e7c8858f1ab1aef3066be97f91fc5d523fbb3f476f1129cf9539bd",
       "7f0ece48609dfd77cb7493c7c0c3149093a08a2c8bb6af3a255d93addc4dedf4",
       "5fe944e1dd942b574da44674d9a1d967d2ee2b9b9d66685e55797116e6649b32",
       "81b267d7c8f2b720d5b4b3f14d4d67516b7e07a42f24aec8fc720bbe13f44655",
       "29879485b0568996e9572d72166cb878bea9ba61563915643f61141e2f900859",
       "b0ee985e4a72d8e6992d956760b47535895196c439855c5c7159af7f459ab0a2",
       "2625c9a130d88de8708406df79bf1f3cf2f473a98d17e21055a14173c9f55771",
       "31d987de289ef7789d35e41756090d899bc01a66dd9476499a7d96870871cddb",
       "6fee9150631ee50dbf3a1effd1686a2545059e2567df0faafb486d5b64ab0a87",
       "eb1f65df405cdbb25e313fbe85d995a2a6c518100105e5af313ef52acfbb809c",
       "1a98d0fd62c3227849e15dfec0186683f39295b007e76903c151b7abb002bb19",
       "20122690c5148836f40a2ab50679841352f71fb9a8a995c9e69b0ad6042f3a6a",
       "447cda323dcc5ce6932cf22e5174b53953f2a15427de278e632a77312cefbf1a",
       "2dd61e4597414b41dfb886cd26165977a2bed905b80706690be7e505fe187b05",
       "65c1bc5e21ea67b5a35442dc288873665af8d9bdc1d637db9925e70e2ec5ce7a",
       "b25a4b33f4da29c13e8e3ac2a38f0774aaf49381437fe7f66eb1db6de4ec47c3",
       "125f657a767cf8799dc461dd38715e2ceaca62513b4e11aac440e0c8d3d4eee2",
       "4e8335e9f3a2e6569751eeacc8933180ba3730b3f0ea0562d6fd70133046ef28",
       "6aa1f63f4bdb56331039f8a77b1e80301d6e3be8ce7a9ec89f722a27408c614d",
       "fed77e79162719c0b9f6639cdffa4db3b1ad152561918a79946c509c5ccb656e",
       "ff828412e864b171f760f2a61a7db973151f9d10bcd2aa3b51c28eb6a624d1ba",
       "7cf35609b920f23e1e82dd3fc00ceb19ed1a0898781b36ce590d636d58541a88",
       "a0ff815ef04f3a8214ba9f99557d5983aaa3f57ed9a638d05efdaeb74adc03a3",
       "7a368f96ac7930f5134a5f8236d5cc1fe68f190844dfccfba0779b98c47367ff",
       "77c87aa1557b95d9d085c29d2dc95f22ec04ebbb5c79bd240bde1faa58e1b511",
       "0f40d3f0b72958054d0df3d91a0ca39c682097b509b0edf2dbc65e7eca63c75a",
       "4ffe7fd0c7a9c0785dc3764335cfe5d1360fa2a3d1902679e557edce62089937",
       "a757827b73f7efb4b908ced0ef0d7f95af32cc1196b28f69edc67fac0b3bbe62",
       "6710dd389336dcdda7ea409a11bf4e8ed114033ebbc2ed6c226cd232db04bc21",
       "8a6c7fbdec986ecb9836636daf431242026f912dcbb9d214cb9480015f94c078",
       "1dda6e0d8c2f32cf73cb6cf28cc499e5df58c013573f79035e427c4e486dfa76",
       "55cc31ae544edede5bff42ef4c9d59a84a77ae6147660cddd4fd5d2efd31ac7e",
       "314f3065b5d3d58ad1b8d82275a9e99c5471551589c11806fafacaf0f0bc4e30",
       "b6b970d53407b7e2b1572349a53d5d7899fd465e3938b372db147532d9abb942",
       "7394d600591b02ab3582d20413d7a5119906db373c946216757b30a2ba90a910",
       "e60d54e7a650ee75fcc474e7d235fbb79f2e39cb9e2233f402bde216c67b8a78",
       "b2f404e5ea96db8f4e24dc6dd57294f0514fe0556ec87a60f961928f474d7859",
       "6c3d55a2e801f83ce4210091e63a5ee3f4249c829197b8e742415dc181b53d3a",
       "f39a01ada785803c486976090dd1ba1385ff10efccb4cb1b51e59eb3ec1a83bf",
       "5c0d101fb0e9b8807d3af5d2b42fc5b9dc1d245e2c8237737465a61c13653486",
       "960b9818289748f6e6f7c08396883d9577c868af99b28ed6376e2b4a86beff65",
       "b496277ffe4b194057c9f7c8ccb67b9fc367b7c417c3b2651507eec152a9935f",
       "5546fe3947686c5051867109e55c09839dd272c1bcc62548cd101d9807843bef",
       "08194a6e085afb14ef8f33adbc8d809d57798674c32622f97becfa230169b1ed",
       "d7d41bb9fe92b49a2f44ab89b563343054462ef1e7d3fa250e00ca39442544fc",
       "428608c036b2841565dd41892440feab2fa3b6ac514196674e5857cb76dd4062",
       "161d006969f0938caf2708663a84c0b0a2165001d57f5d8200a0ee70cf1adb73",
       "3a5383d31bc32a8282f2fd46144bbd4baffe956ac482c2083e45570e2914e0f2",
       "5b90965946a9dec56184b3b789a685011cce994e6e5dc1b63d7dac1717e6158c",
       "c6f99986224b92edf75051c0fda39d3bdd35d6550c9b9760e47ba5b8414bce9f",
       "62dc9f5acc2ef6c79403630497e75253f00a8eb5719971923a06ef60b85fc1e5",
       "f42dcabeb3d54246b690e5aef8d7dd4bbc15bec95a2dbb7ce9b47ddc7f07d38f",
       "0984af2e74fb2f1b2a26076c50a26530bf1775a57ef28cf522d0905c3afc9b9f",
       "191b15c104563ffc0bbc15e8efd025d9a5d2db66ae51608c08c0dfffb1eccc0f",
       "73757a1ef6badc3427f83ce686c6aaddfdb49873f7d4899e63b5d6ce1005e2e0",
       "c508022746b3583a186bedd605cb09952cccb745cd960ab3ab740d48da8da0ad",
       "24bf2bcc1e278923ed1503e86109262bea0a71440406643e4a25374bd2912d42",
       "6bd7436ef0b55e1a9f15c638d5c2e8be86554913fcc2248142a77a6830280963",
       "38293576a85587cd0c2ca98178cecab3ff32a70f35c759fd584cbb3c7eeffdc5",
       "f7e8698a8c42ea4bdf21f07b8fc73e1a8fa2b784117e675d1b16d215ccaa1894",
       "b889aa9ae3218c86f53ebc9e9bb658dac974fbed3b7248aaa0c622610e432020",
       "23d527492c042b09c6280e71188be3b32ad02e826f33bc0db53a66b9bfc253cd",
       "caee6750e423d5f43cb27b0cbc4be06a9343e42645794e86b68f72a26fd002d1",
       "36d840e004610e7ead32b627c309ecf3fdb0156e0e5ad60c9c9aada88293e0cf",
       "f4e1e37d7d15ea6e7620a6fbe64d7d14ce32f53ac7cccba21713dcbc6da6c8cc",
       "14d1bbb0b53c23e8c35a674113820586c696b6aefcc3b1284cbaf28882975fe8",
       "0978fdb9d607c39ecf6d9e6e0a8acc04a85cdce0b320c86bdc9a6535e58bbab0",
       "d6ea1b5d8be38a0691f15e3609ed439e050b892d0418491007307d3b129993b9",
       "ceaa821b3b9ed65a919fbac4a21ebef9fb0ceefb9a025f7fcbc8bc43ae4d00d6",
       "b8a0d9b8d48e307f4c885b2d2360aa0e219d58de2aa85e83613f5ab3e930a06c",
       "d0dbb3a2bb181d7f0858c69b301437534ab7e5273ac7acc0765aed549722145e",
       "96abf00b6df2d239e288d5c32aa95c8704638f2b45518b6a6581e7d9faf8a487",
       "b6bd7a1d70e141eb9f0594f2e3d2b7dc9e161646466c87be85ae24cb7e5beccb",
       "5a8056f7480f35b5eec19e7a177e911f825d79f4e6a6e01d07baca441754fe6f",
       "62708a138b5851df4f5bd39d7aa19e93d9ff55cac8987878ab939fc483602be1",
       "a0f20a75bbb2b13f8ad31bcfef31ecde12979b8904ebebfbeaff5351bb1c3a33",
       "235c0598b2fa6da703a337519dcafbcd1e3fa35487216e6cc472d94595ff5d03",
       "3fdb567fa0639adb6885c163373f5c6eeb5837804eb582d1e898643f0fb34b92",
       "5c803f0a9ab32d00455914c4e3e01719921d9a2e6fdf8bcd29e207481140fda7",
       "bab0a4cbf40e8ac9bc763834afb0350fe06b7acc54f9f4062293b3ac6bf32752",
       "f413013761b764fc8e3766ab97bcadd0803c506a2f1b76109e33ef2077337f64",
       "8bda94d85880d6c673a29af12910c4b97c5cca964f50e2deb8886712c60584d9",
       "5d2a674b81ce64e323e186484233e28f28e7e88a4f776ebead785eeaee05a3e6",
       "dce46cc9bacabed912ab90869da254bfcd3f32772645e22e15f03371598ccc72",
       "3756ba46608144f0a47e9eee36832485b2cc89e3956813e56603b01970c0f945",
       "fabe3eec63337b34dd41243de564f4eedc9b6fa5b7a1381efe901f1bf01c61e6",
       "de27d1e078e038936c218a2d3e8be1397a39b19a8b70196998c007a417492bb4",
       "c39a4de010ae959fae6f540e697597fbfa9cfcbac38efc968d269f87214e3600",
       "da293f1f1afa89b7c97039e88791ebca903aa3f38d6d7ff3b11ef9fdb8cc3a0e",
       "d2b1e84f20b473fa07710f02d0a9e51ef36f26f0af868793d678e6caacc51cba",
       "7609d482c4c3913baa87946b82c570307845d247f9032b9b8a0087f0caa40141",
       "6dd75182be6831310d8f68b7931a0c01ac9ebfee54f3ab9e28a64ad1398d8834",
       "b1aaedd6dce423bd7293493988c891508ba6e92e44f48764f4a1498ad3c500f3",
       "11f16f11c9d2fc733a3df17468081a808b7c320ed7b4a86906ce19017e2626af",
       "4a0fbfd3d9e5cdcb5a70e50e119d736fbcd3f72baad8db87b415843c562296aa",
       "f06f7bd33ff21d6339fc152a332763576cbae7507fd1a5a985c8ac018fc94841",
       "2bb02af515d51e55dc190634130b41eac36f0cd7e0a42b2ba87c46f26d11316b",
       "896b6eb9412335af1080d1d689b577df61b01fe3d8f1b7d10e637c1801fa9fac",
       "ef8c4cc3c2193405a924791c1c6833c8f4597c09b9e11679e17c2f2c88a432e7",
       "27306be35f6804bf34520eedc2dd0baef07d393624fca02e93a5981cd2f2530c",
       "90e45650ac01021ce00641e85f8a78d6d05cf4b6c3a4ffd82d85e80090fd2895",
       "320c767b94509c85e4a050489105194ace5d5e750644fed8cd127e683b9bbeae",
       "83e1f4e802d2c64be7c214a0e030fd82eb3d8f34e01ef35e8febf978836e5c92",
       "ee9a3945daee18ff7eff8dc0f9ba4a6f66d8b51c6a4db78aaf4108db0e8d09db",
       "1a6fbd9337a5dd851ef00dde0c6eddee8d43b523bf5df9c47b9b74d6c4835961",
       "b7ea5094699feb19a1ea1700035db82d49ac3f2a590cc7b378282adbcd45902d",
       "a0fb517cbb103e52d879a74c34cfc3191d06ac847640da2676c3bc2a4316ada5",
       "71282db1c47736430d9902bc084786c665e2af8c90bf86b469f840f3c606524d",
       "f8d39cb47d102abddf622c1df108d333b1b09eed2277a9db0d9eaed41b654754",
       "280305ff905243b4946e0751dbf66470a81187a7439a0c94d220b8c9b6fe7da7",
       "1ef7a09a3d71103b14af8a409869e6b301043d72a9a0dc935ad6992ddd4feb3c",
       "c2fbc1a62b7c79fc7d6a2bce1b55f6db7d77ab7e9701ba96fbdf9f3af0eed053",
       "4f1ec850c2082c7c50e88f18d5320f05eda6eb1015d3d9f332049c8fafebcdbc",
       "e10937ebf1590724ff826bea321b5f6bceec13ac4a9f6df9f8bc9574387989e1",
       "7984c75ae6843916159a56df7fac062d48472870ee74f0f677d507790cf062db",
       "3b27d4c64a29f18ef4e05680fe000dbc72c2a2edb5f4234e948b9ce22b581307",
       "575e8aa1eaff5524a65db8055a0386e89a55c3aa1e6b77c2ccfdb57d61b939e7",
       "f0d947630ad90bbd89f3e40bcee1ea6be5af753be47cfccd36cfbd2ef53f5d00",
       "f4d8326fb0ebede492a0a0bbd5e5ce443e48622d7260c8d092d60cbc1528b928",
       "a5f5086148b1e4204349e46c2302c32d93ec7c3f5ed2fcc1f4459baf0ccaf2ef",
       "d6a1b1eb7e8b8c8c1904128d91ead9fcfc93b0ccd7d44fdd18e7ad0584807ebe",
       "14f4f2af434f8d074edee5e9405688e077818fee72b89a96e06592876ade06fd",
       "faf3440000a2f73ea1d0f5aa27ca3c7c004cd07396a5106afba327f5295ab41b",
       "7d069a44756ddb5d23f31b485dc7c598317b5e0d3bddaa35a9f43228ac1a17df",
       "942b80ecdc34d7574ce5d1e84277269ada6eb0318919db833c65d18326c73fd4",
       "35bd73e9e2ec45ced383d9bd204579bb13e4a61552ac3ee72a7dea6f3bbf5b6e",
       "02323397b499b32c5383f998b4544a570c0005a5ec80d616101973755df826f1",
       "f3456966d52a31f485746ef8108c05ceeab26795fc81a2da4795cb159de3e38c",
       "a6d12a64bd350532f97a72c0ad2ce0343545664cbe86960226dada56e68bd1a6",
       "bed60d3dfe5affe8bf10a6731c64d9f396426b0f695b0c7a2a95f5947d0c5891",
       "4993e84a7e748bd776bb14dd58266acb3d8d6db7ea3b5ad03ccf23e453d4d93b",
       "03164422053d846737b2ce831ea784f5c55448f7434e862ab7a3e37cfb4015aa",
       "f90693ea6eb30e92e8786a720b11d22849231d25fd0ceee48899144998e3c25c",
       "699f7f73883fb8e789d8e45617bd6ba82bd93a346366893c464e2ef475880039",
       "f232d70fb3e0f66f45de8615d7c4f349efcf460a3cd1567ee2b2e2089ad07f51",
       "5996e8eeb3f914ba43fa8ed66cae4b623fc77c65bcedbe7db9d3ea016f4a4b62",
       "93cdc88c2bc6b8a63f9444bee0970caf032b8ac36a66bafab2463766cb1a63f2",
       "d0f9afae26f19f5cd19475e97530d4804640a649d3797a5700833a823caa8ba7",
       "34a62e8923fd8db8fabac723218dba635a589b5b06e30048f45111f1c49ef0a7",
       "2dc1285ded50fe668dd7737dad6f549149835540699766aee53663a18b8bbfee",
       "59d7f0966e4956305a6cfac87189568daaa7cc1ae17d03b3d051371e80933b7a",
       "0e4c54745300e6939bccc984bf702be99f3bc7d922b46d55b2f8a5cc99ec64bc",
       "bec6d8ce8d460b1177aad7538d5face7f665c49622e489fc7af3caf035aecd09",
       "3fe66a9eb153baa7f497188190f62983eb16870e2d104eb343d91a49b82414fc",
       "6ca5287c3e201d2636b8e736f7f1c2eb15cb158652d67422a1b5baaa0e79a0fc",
       "aab76f481009f4fe62a909e743f8792fa05af46925aa0b14661f62611b87d2db",
       "74735d65ea97c30eb2b7ff422fbd17bd625744a77e2cfa9eecfba9ab4a33cd6b",
       "9579347fe10620483b181d83e63893272c98200c677fc58beabe972be48a46e2",
       "cc519aaa00337b9d2a2c9d310b79ae9ca3806dc846a62f31b6311b6517801bb0",
       "99bad9c4c836f47d22badf671f2069854487958b13aed2277c284618831ed81d",
       "9570a05fd89b61a39057c801ca93661e6973f25c1b38e0324b241d17d6ccb5de",
       "b4040041795ee0545cf70f7404cd23d5027c8cddc5b0cd7a203ea73188481d73",
       "89e3f476ce222aac61d006cd4327dd8d09f2b3e2eedc04ae63883e8aa15792de",
       "62b6e4be79f3cf16a3072129ed0040623210aae48b10af0a850d59379f27fd99",
       "c5cad67ac0f081db72c23343fb33bf3987087f3dcc414eda8d5d96a362fd5e0e",
       "bc01450b369f19e02724cdfbd5d8cdf1ce77f293a5ffd9f18fef25b1faa24111",
       "a8f7b85324f9348849881aace164d6a6305bd125df5263db0139b3f656213a9a",
       "e26b3ad9f36f6b19eb2c56df1d981b2cd5b2f57032ebde979e331836b01ff3eb",
       "c86c28a564ed7d070e266df18226ea636f6c41311d1b6671af299cc18c4f6e99",
       "095e042f12b7ff6794e7045478267a3a92bae11c509d37290fd92d3807797082",
       "8b2217abd0da31ef44a7a5471c8fc718edfe78a8d7cc49bafdd0b1f8d6a74a38",
       "e7d8e5024679aba31c65389714272ff2d4cd7beb4a5cdd0caf10383d8b86cef3",
       "89e7ac6c0c8fbdda69c8c45e79970514fa4f3a00626e60fd9663e743978c9c34",
       "d136aedab01a074250256e4e39ec64fb1d8e983040c53e1a8f5817094b3020ba",
       "83e342dc16ce131f300c37c18778997c77695b525e420d4f14e96f9bbb1d7c8a",
       "692984591ef56d3c87c49179f6ea68bf5df982557c14a71f07e527d3648bd191",
       "09fb7d788f7339c5a76af98231448427be6575ecfb7ba46f94fb4f30cda269ae",
       "5a50b5a1b6e92c2901b7ccf9f5d3b666144ce72a04b7a7f80181558253d00b01",
       "87bee2d79485258cc5873a2302246616f6f15efb42fc1c21886b6937fa03475d",
       "a186b2d0a765d2a7e8228a31c9988ca0470fcb5871d0d06f457253365aa46cb1",
       "fd2e37f96ec8c692ea1c281059155fb0b1c1834f38d28811d1246bc9acc2f11a",
       "074a3acf302c89810a2f6b2ad38307b4be9f9f22f88c0a9046fdabbdb800985a",
       "1a1c3c8dec311979118e3f1dbbd2af6ab3030565beb0e18a306a62d135f3e8ec",
       "b73c63f2082ce3adf824181607cee75f278f253cad63cf86dd80ae01c691ccc8",
       "375fb611f9cafe388b1c5692082bfad298ed2dbd7f401d24aba80e965cc4c7ec",
       "1f8cdcdf29eeca1ffcbe7cf9216a57c68252e837ff7c1e5c5747e1d7d4713d99",
       "fd417bedbe33b680403078d78e1c2e124e20d74e8ee470f994758afc556fbe7f",
       "4aa486089d2c7d464d4ba23e32e32b6294caceb550052ff7de6a36318898b547",
       "2551a5fd43b5689ac93b690dba7d34c29b645e9ce64dd146a258426b885b241e",
       "071ae30cfb4c0ac1c4c7df0bc257370d388515826d1b16a94b24c80b9a461575",
       "80d3859009254a56ee6447fec7b41fb987b62a18114c6e18c3a05f20944d5a29",
       "1c83dab20ece43ba259289ac93460115a73c6aa83250dead17ae032f0b9ab491",
       "b8b7c5abbfa4cbb98921272b682837375874cc4abbd7d2d05ae0d4f7cad2c107",
       "cc8f6e9ce69a6c66dd24576707ce3f35e4f03b35ec22503431fe790ab1cdc3c6",
       "b88242f87cc99257fcad61eaa98b3bc7a1d0470da84c466a7d2c40d1c24e095d",
       "fdaf0af4993a4977257790c25c0ab1db6487afe702cf18b11f506435232aeb7a",
       "da6097bff24e4c1f8690bf4dccfa583986e5b48f9c1c42a6d53ab25096d445d5",
       "588dbd881e5848e8f3407683c0dabc2062a7edcd79096e2c4d5a5aaa7646eb6a",
       "83811feef7138b0565c643aab07b677fa1795d1f49e6ab7a83b50e475cd7b715",
       "4ca0cb2073081c0bdd73713acfdfb8e2a9ed88df9c9f6d9240b25f73b84ed52c",
       "2ecd3848093d48453f8585794b170b30a895c9defd9772baf071904c4c23bfa3",
       "5fb03cbfa08b015424304bc2121c037edc9a5425c3df31e48d5012b529d80313",
       "f74d82b1f1157c2b1007b1b1861a02948280d9ef49c010fe1bcb5bafb40e8a50",
       "23e060871c22c80f4769bdb7e068cabd64089e61e1274897462995863b34a79d",
       "1f068a490840fe41ebd923dfd3acb4fabfb198cc061f76f2e58c57cedc170b5d",
       "26700068dfbba7ae15b5f752f0be8eb9ac05a189d8edddeab3ce5545b247907f",
       "3e02ad9c07986571dff7d7069e39dbeecd904b3e57f9005f32d1ac705e4ffdd9",
       "d984e0d9fe628566e6d10a2252638db533afb33db42ea2c0e434f61575ba735b",
       "1e267047a9547965a59ba684800a694bc421a60eeab68cdb5510f3f92e67cb35",
       "3d87a0741b1da8f55c9a44d4b123b4fb55556495c3bccce57069f103b8cdb818",
       "99ed536df0a3554f9df24af1dd4e328e7606867427c4078f863c2025371a8bad",
       "ad7d238d0b484603e324e3eb11ad5038bc7f1d544c269de1c7e658bfeece345e",
       "efff5642ba3926e8ea6fe763b77899f43aaa61af9e0fc74bc99778eb4ee0ed78",
       "fd9dcffa15fd1a3254ae87eeee3578e3f8918212211349e826e4f5cd24dd028e",
       "ef660b0f49a2f2a23b4b2ab1824f011a6b8de0287e84a8c142a11de65fd0c41e",
       "b5a271bfd4c7074f746e1eb26c6bc15cde0f8c55f07c14237112897a3e7c3aae",
       "efa8b690e41c10b8bcd94a31bea6396cf74e9aae53616a095f34405369d9bf70",
       "d548c30a3cf99b8564cbb99b8d8bf792206a889c27bb204d56e903250c34206d",
       "f9fe830fa6971d30ee9133cea9bd8b752a45b32dfd16ece9041442e4a7ec96ef",
       "246bc07457a1e9af33a1c00b122e56353435f4ebeebfbcfaa48b3440ef4fb694",
       "5785f6abed90bcef1c36e6d98fd521b5a97c5caa428639b5b250879832e6955e",
       "78184e126f5129238a4abeb6178985572af5a2914efdbe5aa32689eab6d91e4e",
       "d2d8a9b66741cf182328d313fd828d987ce9d7840d0a90e9f1a87db5d48e9037",
       "8890c7d3cac115f092db04b38173f2cd9f00f7b7f18053ea120f9c101a22dac2",
       "24f30615531f0fb11ba63458de063d21b473ac5de4e7efb9449fbb4aec60d309",
       "38411601716ad43aecc9fefea0bff236fcf4ab48cd22064a86e5231d8e144a13",
       "e7f515cb6ad8cdc7453a9c259ad74beaa03e056b1b013b5d93feaf96022ac7ca",
       "c0b89406730df0d6fb32c9a6244a5f40966e7841f83030214d404217396b07c0",
       "009d738a8af4b5117ed34b6d090a09c77c3cbb8a3bf3e17daff1a56c476b4d03",
       "75aeb94d020095543c6aa1bf4a25ef7c568bf4c2f63932a550f1dcac8a50fa35",
       "45b463cc6cdbbe2c603e5012a9aac0a2ea36b9f1ea2e839c2ec0663a7fa63105",
       "0f039baa83ad825f3ba5e0d70798500f4f4fcd0f42308e34d12ce847804c7176",
       "3c8615b74b2baeb912059a4c0752cd9390d42aeb9adad5423a137a0a1b060689",
       "a1e2c4230c930e648ee63b15dcabbf37470e92ee658705a0da88398e9cd3b278",
       "13ff480d99f64517b91359778d3828b608cd62110988840d5989b9e6da78547f",
       "6e72e9ce9851dd7b4eeca513b70423f7201b269824a1b00e11acbbc75ffb2bbb",
       "e38b85e61cff9081cd74e44c94bd6f498840147f4414422b509622881688960f",
       "11b9d5cb7468de69b0759b8cc064c7ea3426babf1060c94623bf8169e363fb9c",
       "a423560e3586f99e08f22a9be2054f78d862516b2bbd9964233b269c02e9cae1",
       "3522243ce8da5659a2bf63c0d11aeea4fbd100fbacef8165fcef891beb6c3681",
       "829768784c2341dffa79c8613116b5a04100836337f8713012f9a76861309588",
       "59b9401be29a814ab53ca3bd4dd3ed234994db84c5713ab54375896c3370eae7",
       "04092cc3ce74cb2494ba2ed639ed27ff92c27b5539ee34efbece9f0c27049dc6",
       "4f92188eec4bc4a8e67607ecd4dbef3cf85357495c00360f3618f4c0124a1e81",
       "99d77a431159c646288e34fe344c55a0fe6e8a27cb1f93938c28aa9d0704f051",
       "1200613e83bcd41d050a38741a67c0a1937e36019186591547ac8d3380d4e3cf",
       "ce78a99fe0b810e3548e37d7b56350f5014c6bed9b47445994ddccf44da99bec",
       "dece6e561303780486b6d610d7e0ddec2c646767ad936f69414ce7b2254ea5b3",
       "f945c0e1ae75fdffc9a05900a449a571ce0414c10d8bc7edc59ca7876bd232ac",
       "272116c32478a012f62003af8862edf024146150e3c2c1677d608956bb60ca8c",
       "edcffcdd183e14396070a435093709d5ceb713dbf0fcc932df18efa5fe476d48",
       "ba1b449cec34dba2f8f2dc9dd7c9c0f9514807c38b45e3b0f22cc3fab9d00a8b",
       "0ff9db484692612a9d0845c0fa1eda73765b98cb2e83ef53758c1f8496010691",
       "8cd72ce96070c5d3ca846143ff9300591e47449b61dcc4ef785c003069695753",
       "09db5eba75d26dddabebc1aa9810f4d60685303a4f1f70819234a28453cb8559",
       "c3b9d7098a68129481040f7fb9cbe5e0bd9b1aa669057f4311a729ff61fb534e",
       "4ea562b82b6c99c6560c0b701fd07631d0fe1ac96818f9a0b3954b13139c4f10",
       "59f927f62924fbc895921b7fdd6c3e35f77c36d2a73b24db56628e549c9d61f4",
       "87d48b20570b3b1caa274c41f3f1d9217791db20cf5621477fb712ab8ccbf54b",
       "62931204ae4e1d6596f289a9062ca94bb5e34312f47968870ed1bdf6838e7cd3",
       "d2ed5935b2e8889fbf09f2970896239c1ac4848806b25dd7121807e44c921008",
       "c517771325676348a275755baa960d604edaa8f59f687ebc54533d9a1f87e864",
       "2698698856717978c334e6ade1ec09112d6cf79aa4e264fd1c4e20ac7c20384d",
       "6da2e09273dfe6075d1bd0d24eb9f7bf1661d6790692a5f3227f3d1bdd5ad191",
       "4bb68fd993354b455316e1605b54daf4d21ed8720f0eb11381064609956dff50",
       "29663df5c29de7fa799ae6e59b706bd7bab5645d72da48ac18e35ab9e32cab99",
       "26ea787448324afad324622c657f594ed0e871acb7eb33c40058cd213406c565",
       "a8a318f460a3a934b581923a8f217e1688e2450f3b031094a3dc0ad7ee3bdda8",
       "ed6f48cf5327c672d79aedd68760f71244260c0f3058549f3433215f1d66629e",
       "9053223d41df80ef17c080d2313dad0671587a5efb2212f66305e51e31d8da51",
       "5b6d1cbd633a8913973eb1acf72a703979cf792b8abe2580f49f844392381401",
       "4f3087f97213cc064bd538097a4bf8825af61aeca8b6b0e78f7b883a7a8727a4",
       "3933ddd06db16cd23a50aa1ee55401f02a14759063afd0c6aa8164f861947412",
       "7956b468898b96770d998295d7c3f1d03db65e906edee351347c1aa4743e99b7",
       "efaa0e87e7fe1b6e483f4ed5f3c8c07df1a56b6f1c58de509806fc1a68db816b",
       "4b8a21a69593139551a21231e140320f804c483ab53ea1379140e779fbaf8c5a",
       "2dcf3986ad64ea7e715f714ad4ed343ca605230bc73ded31878a42a945f744c2",
       "da0a32acea37aee7b4a3deb9ee09982a6174ee9bf3fd0e1edcafdc59b42d29a6",
       "29bb5f1741f5a2565d84df4ee0f1105643b0406a726a7d5f6b92510c2a202d42",
       "d69d35e8882d019e47a9486f806c01931507a39d164d7aaf206c906eb2a1823f",
       "667b2e2f27602d44b2b951a094a7ed7e614851a08e840ae084131cffd41dd7e2",
       "9b046e7034f3b4d0f537b3e8f3cbc6d70512c21e2e5c5293f7cd60720dc24bae",
       "fec99cdd12e67d8c927816b8b01d5813cc211fe9d5c1f869af6be9d367269ba1",
       "15b93c68cc2c09b7289cb56f19edd49db539ff6aeacbb56557bf1783d8d722d7",
       "ef4413acdc47a98845e70fb78d5695becc4ef8ab496c38c041245a0379238114",
       "ef5c3cc9289731b9712344cc3c1bafbf5a371a2ea1273dc850cf5a3987a9cb0f",
       "6d024f67c639502ae39ca65b4c35d8f5571449039e9d2a34ad20da71e640e1bb",
       "bee4e2aa207ae3ebe4617756ad74acd3e65cb32461ff9435b869df89112c5af8",
       "59f462a595e2aa80c2b972d11068df8613d1cae4654a5eab669ea2de84ed9539",
       "5f30b231ae3e11fd1a210af3fbde7da5c707ae66631ca077c9ff94123a6f9613",
       "f0cc4b88ec2f127fb323ed71994a7f0e8628539827ae960e95b7f214db50cffb",
       "d5dea213e5f97b005c855e16d879d0feb28a30154d340e5c169382c2b17acdd7",
       "5ef8c2685f9a0319b7e32e1541dd935e5f251ecf04f0aeca0482fb9ea6ba8e3c",
       "d63b52d3b57fc4839ae0697e2c8fc453af01b8eb910b13f4335012e70a48d600",
       "593ae2554509535f4feb99db750afe1450c93b8416b474e65698184ca7d39a38",
       "89a845e456351f501afe3b66760c999679e47199b49017afb3ba45d5ffa64317",
       "375297c1da6decc01d7e2cdf2d33452489f0fba7970d4c8a691edb03298b5335",
       "1cb55eef8f3d75c41994a6069c0515e33f05597fc7de3ab9ff7d5c27af9b5347",
       "9c1e1cee556607db15f970516490a89da5a19814530aba22eda556a0ad3a91ac",
       "fd8361114585be945399709227cf869614bd02577c3a2aaea847605827334ee4",
       "dda224e45dc7161e6e11b4b9a1e8e2b38a24164662aae7c50233d8ac5ad5bfd9",
       "a927b154fed090c698d864d7904c10c7c48e7e15115f62f94285bb0d25d73627",
       "9528480af01c21d475edb1cdf14fbb9d5f746618b14aaf81e4b4ec8abc751cc5",
       "a64b421ca05ae699e27ff13647faee503060003cbc1dc5995dc291e2cc5fde43",
       "1cd47ff02809bf65b4abd4c7d66fe9b9656e65e0f444cb6e1fbc269386dcf92a",
       "4ce31913a71e4fc6cb28d74a29c338af11b695c3a6054fa48e5cee73524b575b",
       "f2293b76425344703002a4a1bae2b10e041e16a1511645760b09dc6a1d0a7dc2",
       "5d3c6c76531dbcc577ca1f6ecf022a6497d45e7ee15090684386da8e28aac669",
       "720a1cb9a8c5f96df51be63d3e3bbd2b939f41f9fac6037d457496c47658e28e",
       "ad7f29d709b2b2728ade751a78e6b778cf87f9e406c2fc72279e828de20343bf",
       "e413632334bab39a6e678d222ac17909f1b1e862c5ccb78728a997108821e542",
       "b86ee27feb5d74282c8e6c12a3214ff3c2bbb6fe5677d03fa308d5fcc83acda7",
       "96edc55b9c6130ab01c04ce8d582eb553432db5a8b7bdadfa8cb226f13206022",
       "e1b4affc9772b48cc6ee05a06c0090e40e8e620c2e3bb6b91098a47c41860140",
       "8772eb9f7cc81ed95ce65fb0e77dca52e39db3a5cadf0102f888fa53d8c2a078",
       "6d65f5b3625f6fd39d05a490f8966f976e159cc43c569dd92f143be1a2a01af1",
       "5278945f0bb775892c3ffc6e1f16b6be451c00fe5022f88ee47fcefc904a0ea2",
       "0fad05ff399f2753eaed324665bd3f3e4edef5cd01955d8d068ad3f5f83ed57a",
       "595f8663b43c8845b017a98a43c69d977a0044cafed8e355a08b0babaa5c6872",
       "8bc5299c7113b1e2a8b3e7767587d9247e7c9db12986ffdf80ad7ef2301cb9b7",
       "e78f24a3077a90cc33ac54e7f1258a671f5818f66238125727854be9fe6a06d9",
       "ea1ab34c8021862a7d6aaa40f8c63b4746ebbae5d53fc6f1cc4fee9d282da403",
       "aa9a899e6bee06a1d991e0efcba7ac8f5e575ff1f6cabe7322143bc725312c7c",
       "9f32252eb5b1645e0d5c3050ca6bbdd836aaeaef6a12c00cdf31e8fea443db24",
       "a68b1b75577c96bf9fda435f990ee2b7a78112afd7a1c0fab73f22b58f6c25f5",
       "8039ad3a3d6b4761b5e6661a90f75cbb9c2d28fb1b2eb123aec51bc3754cd2f4",
       "8950084142ee5ad80b475ac605c221ee7f545ea91e6246c8e664a287398c8c14",
       "e6da1d287173ee6529e21b65aa66bdc966621313ee4d07443bb120a2a66cbf72",
       "c36fcbece1cd4af1abd178cfd7db103c013ae1366879d986911841423e8adcf6",
       "be2827e5ecd718bd2c15514a54d88d536db55223f61dfe3d7f2a026dbd0e14dc",
       "47c558c4096689848cbdff1cd3352a021ba673adf2a3d336b0e6a9ae39105023",
       "7681635561dfc5d38d42009924c7d51b1a3eb6ebfa74e4a42e60b0bd92d937d6",
       "c0e2bada35bc8f83c15706dd836bf09a670644f745c2fc7f13700591160a83fe",
       "aa599980473b6e130abf767ff9561469778d39053bf96b5d3be36a05d35a526e",
       "c6779a0c5664ace534e4724fcc8e77e7d924bee209041ec549a60bc0000d0622",
       "5929b8d7defe4c25131d5af2b957f3f36ec268c72381458176b1f996a8cd7195",
       "ba5936b52ee193bd65a8c52527a37e778ca9070cd94613fb25e9db028cfe66b8",
       "bf05b022113d76dd2bbcccf81cfe02d4efcc7e536e14c3440407fd0e79e0ae0a",
       "5bcf7083315b21a8b27df7e5a484dd88ed74a18ccc5df6e47d5a041a615435cb",
       "48612daab65061a1abfb92130a620d2fa33810123996e65c049f92951eb936da",
       "8c101baf7d48f3aa79736ab13ae347a62678595de92fe20f235573a9e64e43b5",
       "e82b53732a827ac4f1ddbdd2e1026d36ff7b47d3dad15c6ea0c894800eb9b84f",
       "ff2d4c2860788a6d718eb218f925af8eb1467a84723aaeb6c0ad28910962fdfe",
       "30ba3d7160e5183dfc47983591e33dc71b8a92d839b796c0053978cfc6c3683c",
       "518378ceaf96a2f0e260106d32873d4670b049c5737dffb8493a422a0592747f",
       "ab64cb331191a1d7beaa972640dfe30a6a11e77905a90dd193ad00967492f6b2",
       "306e6fbdb79a936f5fb4ddd316f1f289fa7e391e4209a2d762a44915bcfdde8f",
       "14acb3dee849f6e40765a66424d94d7e79c049aba35a608e7eafd291eb405a82",
       "0c72b1ef569a07e26c1d54c3f687dd57732e724a1b739c6d1eeaac4b4e4a1ff4",
       "2a49751b307313135d6fc01697fb1bfb234c5719862bf423d522432e8dc3d10e",
       "15075493f1c829e44d2de0aa714afa63f865512ab7f7620bdcb791486129c910",
       "486fc33e91b1537c2fff71e23d495e1f351a08ef53802d8c5e1d3d866f9e4c59",
       "474b207016067491e59936cc333aa0b10080dd005472e770069232e036f8c95e",
       "fa08f4d290c4e3fc544d85e4160754b1c75ea40263e4b83c41bfee68db42e021",
       "b957083636a92342c2c4c3d5685d9da56fd46d88885980ba75c4e3691d9c8f75",
       "fc7c76692e8b5622570b9f4e00e4bea8a59829419304146b429ea38e52c4d74a",
       "0705598909a21c2491835627f53c3f247b786d842ea5aca5eedb3367200a08ea",
       "288dba7ef72b44e3fc14363b450710595b94c067556c369fa6d7e27817716302",
       "5c451710f476573a85b8bc72c186884963ab1d216aca36cf79a8760e7c9375fe",
       "8a06604e37b07f95ec319842efc823525fdfe813f856a318ef2868669a1a0138",
       "195855d47cf4e46d18efd64465295a8153a9e6675d65ba9bd52a19a48d56e210",
       "8662a2c08500c9b612ff41301b487306e5c4ec8be465b0e3e7c93e5cb84f06c7",
       "e3f1e5a9965b8d8da40bcd8c2e46ff75379f8ffdf14b890260015a82e5e5ce38",
       "a09c768c176193eaffd74bcd3897b0fd8f4c12bba5aa3a4b72bb96e419ed5d7d",
       "7a085ba7c0b1deee7e39c7087bf86ed5f57c843bb599530ed15c6876aedba2b8",
       "cd24ee3bee7cc5466295b7e5ed5e9bbec73699e5b2ba47d4d7afe0759039e9b7",
       "dcb0ffe54c58ea1222241c1604ea22dbada57da5ffbcb03f7a3530446b0178e2",
       "e2ca7acb6a3215ed0f8faa2a1b2408dff76fc1a2d36a10896d38e9978c3c9450",
       "e093ccf7e7dfbfb7dbd5f0e21e7f2133f796090b8ae788b832f7ae37d46f864f",
       "16050df88ed63b7754be6d13373ac115a7ae21ac8ddcbc1547c7154099c221b4",
       "623813cb7f3977cd20ba50b577e2f6ef45f059cdae9ddbcc411ba34b8c5622b7",
       "3ebb3ff7099c312f9588f536c18f37e3cdd4baef092647b4e9f31d255c60966f",
       "1c6bac608119f0857d83eeeb92e6b20819ad06f37dfb7f59b3ad10e3111ff7ed",
       "880668b28460681a03cd6288f1b08db5f8388ad698748d179f551a6bd875fbe3",
       "884b35f4925e7b503b7ac84901721ccb54863e9e47eaa591186a2867dc3f0319",
       "ef6dfdbb7f9cc3ed1815867246255589fac682977509002c1fe198d5c1ef733e",
       "f1984a93684d4de3827a5706cdf80f20c70bb694a2d092e6799e01b0a81ad6a8",
       "f60f7cecde769cd35aaba5d0845868f58fbddaac9de54f6a18a6289259665f19",
       "b937ff143d4112703aeb702f65d072cc6ccd9a9530f744d9f7c2db7c2cb75298",
       "767b2f0fb154f0b542da38b2f89bae3ee610a698515094ec5d8aafc680127c92",
       "fafd2cd719fa49fb5313691084d37f75f7af6594b5279521cfbddfdf3fb4c5a3",
       "d507ac3f963b67da1f4b6839654dc228d56db7d575a889f8058935763210478d",
       "fb44021788c4292569881768376de7c8dba44cbf90366e6a137226cb09a75aa4",
       "7d6fa8dc894212030c079beabcbc79ebb9c886e649d351163e1ff6ceff428fe1",
       "0d78d04467b337530114920d0fb1bbebc3eb138c2ccdf5db7bb3d792eb0ceea3",
       "424d3da1c1a95f53a528763435e44ffe52ed6bfde542bf958ec0c7480f79f220",
       "8c07a2b692cf1f4653da5280ceeb6b9f8a62def1be1ed800cffaee0043194195",
       "4ddf92e3be664d1caaaa4d7fa595baadb47a91f753dea02c7e02734e8fa37f3f",
       "c687b4e32a3b8c241d018ee598a90291754173355ef63fe0b2c1e19d75a3a58e",
       "39ae750ebcc9b50fc5385a33de66edf7cdc21247069f38a14f126a0696b01ab0",
       "f7caa7e53015299a6a74da149ed280033aae81342e67825b866653e5cebfd05f",
       "60d31f083ce1bbc0e0afed2e14c83b9cb846caaa2791f2ff95746e76461ddee4",
       "4c44607e7c5dd4396bf6aa59912688cfde7a76d92f9832c527accd3a1454cd14",
       "4e996b2fc48ce4e9cab8b5feb34cf1a5120f7fecb6f971a3fc21e25a36b7b79d",
       "fa611be1b914823f72086e21eedc7da64397c48ecd13ec0f0648f2fa1fc79606",
       "36a388382d10cf764a328234355e65e8b7e976d522d08a02288e72e4bd1ad61e",
       "051b99d663a1145501096f645db643bb396b57c6023d7135203d8645e1937e1a",
       "bd62421ef3d15f0fe6e9ce084e4414497b2d5eb39d22830e08307c853cb248c8",
       "88daf8d594a2826c7904532d7d4b3192cd0491125e3dbc629bf8abb43ad6b2d3",
       "80d72c90522a1ba1ec36302a322a1ebca314c4969a2a90d3e6931bad755a8fa8",
       "c97da79969efb6be13581e42cd1b227282e3cdad38ee7e9e7ea22c0fd5d57a1a",
       "3e30ef3d2b6ac795222c605065f85b1d953bc8edf957e0f6dc375736825e2f4a",
       "7308446208f290549e8435d540e381c36e78eaf3e27509c98173d2f0ffb33b93",
       "e14db4f80405f7668f1d9f2503f77098360fb2ddcfcf638311645c84bd007341",
       "77e76caf2049c26be060826a9b62a50d0e3a309cb07d6d70e83de44480e72be9",
       "3cdd0094b124321e2b835b205eabcaf0551b493c5fd278bc8ffee73a528c851a",
       "b04f45748c059c0aaa3be765f770d2baac71d318054f496b0b46526cf097e98a",
       "601b47d2e41e887279bbd12c12ae68988527674b13b48d187148e336b832de3f",
       "5959eb830f3baa25eb92767682bb43f06b4e2199c5c1a271b7f3bd9890200ad7",
       "359bc15f5308fff1ee476bc76ff3c597530270bf6f6684dd7a2f6a922105a5d8",
       "1e0b3e9f9d2a0109c4187a851256a3d64acad1deeddaed69326d11060538b983",
       "b429733fba91e1711bd15a594a4d17be35ad24cd7752815ae6180afe8aa42664",
       "a6b3127da64f9b13115e920ffaff60b14aaa16d6c03657433a25722831d56866",
       "ffeee85409d763352de9cdafdf6ffa56085b7782d304261fb11f162dfb9fc176",
       "79ff00c01a2605262cd9e103349cc277844ebc267de50757cb2f43b204b0e0da",
       "e5eb22ad908f1072aa5a2d3d3629fd9d84519f39393e2b67d14e61eb814c9d72",
       "e41435a89aa24d7b95567f75cdae82cb24c34c6f7bb2a27e9a9b9c512e3ee390",
       "ef3cb5063afb2a887ee189a6e1cb365c1477fba7186c1f6743ea4f64df9131bb",
       "37f3e64f33f127eb499ca9468ee4ccbde1dbd2f130add28c820bd76c32195773",
       "3f23eb49443d041633b78bfaca5de64bdcb93e40f071e958644c8bfba9177481",
       "65895093d43e73653d357124769dadbfa65b864a8360783f5b40a377ef5afa94",
       "7d83a4fa79e242885db6ef22db289cf17e97f0be4168e1482d4b0d468e703c7f",
       "b65f55cb2caecaa8bc64ba4fad6cfcdf735ef556a0b9259a1e5826e78c9fe2f0",
       "618d649e9679e9b29eb29d03bf65a49c2df4372ce8b5774f57db18606efdb639",
       "1f390c6d21ca11184f80c39bbae003e73d0ee8eecb623c504d25e0c56df7919e",
       "2c3fbfd0046f2bf13a0c460fa9b1004afd88a941f1b04b9f1bc89f2bbe51064a",
       "6c3152019eec0c33cc4a110557df3cfc10cefbe0a8bd449102a326df1e1da1a1",
       "73820c1d788e3b25be201d9e93b3fd4cd0f922efe52431d954a79a7ffdb54cb9",
       "4752dff77d25a8848f24d720e3fd7eae050310b06fca8510840f754a203cf32d",
       "603c6db1dc6c85bd03cde3f2d42fc7ef593a5172b528cd4c3d677d4f87c07fc5",
       "abe24606d0d0db44e4684622e0d844fb7e2ecf767f2f64091b2b938903a897c2",
       "a0206d07b35322a2813a745908e4bef10ad7da037ab0f9a9331e4d3ceb2b97c3",
       "51fb6757cc01979ba0255edaa31a198c93f84baaf7cc206522453024c6f7e6fc",
       "9ecce97d13f21076338d4a66c048f657ab269f411d21415d62f147da6c74b5f3",
       "200bd6ae36c8a9f513f5fc1ed5d73ac42378005bb1152fd107930c002262cd8a",
       "795b007b8d3e2789ad6e40077d4c1e35c8d8ca031260b309301478401daa153b",
       "be8e7158dac346edaf1c4494e0e338fdb095747c28d41fcd66309fa8b4ed39e1",
       "a08058a2618db0a31a2e1cdd9af444497f5d6fb36ee95091e5638b5e20eaf9ab",
       "00900cee8520487b20837a9a57e61d4cc48e2def6d782253503baeb81857d76c",
       "c3d36e2d8d1e4da1c6f62717aea9c72d2464870b81cb5628ffa6d6155ffb38c4",
       "b5241854a5586bd15cdb108d0c34ebe4c7bf877fdbe319d7f0d4b443928fe38a",
       "7684ea9968e15527dca18c644031a742025f9432024f8c370739a7c57073d454",
       "2691774d2d3cb7f46dc2ccba38999eed616be56d9ec89f9f31202e68b29d071d",
       "f27e573a0b6b981e82191dc462542deca37dbc1d229fb59b7d101cae9efe6f12",
       "b6e715d0f94bc75aa52b8f6c90624b1056acaad5ed85e4f86e2a01eb8875c45f",
       "733b1ca3e2a1a8627be9eb243240603173e863f36c522dc4007d9377c866af2c",
       "9071873d4b77e33dfd465f861918a56c6ca9ba67253637c4b5e2d44cec90c4a6",
       "508525b530dea0f215442a0c5b41acfe6a6db3fc954eda7fe66b23af4f3500fa",
       "ca69b75595b2d3f6a80f680551f3178b79ec3d0a36400df07621865bed79bc4d",
       "f44a777b6ae061da28f6d0fccd5365913826534484986e755b3be9d639bf8523",
       "bd135d071802e54a1b34da1ae21d0c101d6918fdf120c72f3f517c9d7e88b791",
       "f6e1e7f3ef350f3fd20cb09aaeed2aea7c8880c900eb2226e5e9daba96b770a3",
       "c8f33963f0a87a45c14dd6dd0a1344c6780621644d616a2bdc3e5c6d5ec5ed3b",
       "2e4874f94efc10f330be9cd4c47ea17b55db5d9499cf98af26b5a5f0ab385bf2",
       "535e7a2f3deab6b9ec63adf11983822b794d0d1c42f5c7a771fd89bb2c982a03",
       "598c69e6b19919533d4fbb5f4d8e0cf2277c52b8d2d2f23176eb20e3f7e7ef22",
       "3deb3e6412cd463f4d10067569592cfa6cff7b2f68c62b6fbc10862a94c2d934",
       "d3c048e3a0dcd80ef06895b610d5215a65325b7d1482942782fdf60613e2f26e",
       "c16281be1e49addb4e38ffeb49deae3f4cb253e34898f5fc7b79907b6604152a",
       "5fbfd5d30ba8813bd223e9571fe9a68df128484d2ab341c36519538c879e72be",
       "07d59f59be1fb8ed60a29500be522b01f6b881fd9494dbcee979597c6f1ce2dc",
       "09f0cc09b83c411f989ce471c8c1734751b2e1cc2b2203bf239a9398335c6ed7",
       "06c9b4d166db314987f75e5e26e72fbc1935bd32b97a0dab602ac28e0242a286",
       "7a4f1f05eda249e9f8630c2d469c9a10ab68013658a98eecf01e2e8122d4d172",
       "dd57ecbed6bdc278fa7ecbe1a74a2a03b11c05faf5b51a5e75a11274bb557859",
       "769b72af2ed2b36f32648634d920c60e191a8d54abae1893da41f4687a586d9f",
       "8ae14d9cddcc706af5b2a6aa96bbbe0d9dda4ed10deb70e032a8a63c890bf084",
       "b1a804330427b61ab248cf8d885463c7db48fbb5c7bd2039eac9dc07056d0500",
       "3e02615fef6fc8ab34f84cf027fc8ea4fc6ad678c26c259c23aa37353553e47d",
       "1ba9bde7acf914b669c3cd59273f523f1b2ebcfe45da544cf3ea275fa6d779fb",
       "359a1ab75247684ce2fe5c6f1fad72bccd65b5daeed0d8b0e4fb90e196b3d5d4",
       "018ddbe2f95ad75c82ee8dc75496aad45e58d8deea0ec19b0f526dd2fbe4d596",
       "02cf175f5c70850c029dd9a3376476f7504e984c8a8860b1148f9cbc02ffa304",
       "6f8a4a633c3225a36464e1535ac4daa5429b0a6ce832671b6d3fabbd2769d8e2",
       "2a4e9f876bcf51cc2249786ed1f7e66640289458fa4e954c681a04913066f0e8",
       "81c255b21ef2597264266786cd4ad831f96eb2b917bceaeaa53e330cff0303ba",
       "0449e32f261aaf12bc951a1cdd5f6caf6ec74c206efe87779ff4edfe3a4c4310",
       "85e45f85a6db1982a29fe2402ae471f252041c90b1e02f5ad4079917dc5df85a",
       "cec67789c1e42880390f99ff1f302e8ac3e2cffcb993cf36ebd9c4bbf5047c90",
       "82e1c4407f9339d5bcb1950a599ef990cf83fbd6dbc7cb939a0dcf9ba493189b",
       "584168047e3b6c457276bdce1efdcedf1bd9fe828192841ccbeb5ca4e5c2b765",
       "b2abfbe040d5af6e34ac0a081df332766c56b7bf970cfbee75e75667d2ca7799",
       "2b4db4b09fd023f8c7fdb08111f254fbbdc6ba8665b0838c1d82bd57f5d742d6",
       "ecf9b8ed1012946b011e46c679a34a79166f3470d1c809d5351ffa38c84714ea",
       "05292f2e7b0d57fbd7348a7653a55177934f00e62d8a8f32e6092667df7c686f",
       "b8312ab92556d56ea1c638651261864f22ab733293e4546c60d6fcbae8b4dfeb",
       "516d618b3e4940c3d973a767c6a1e5162170286d3a0ca286c6715938bdf98016",
       "f1c502de2215b92b2dda07fe90c50aaec330ca102a99c1d334f5a0807c80c07b",
       "205ff4f3de72ab81825c082d8ea1507bd34ba4d21b785cc3c2be5c1935a004a6",
       "472c6eb7c4ce6457ef19184267fc3157d27489363e1f4b7fdddb91a409f2333f",
       "ce8485e94c4b1c00e0b9025f769439f265e33250277c69e9f58b90d490c47ae8",
       "6f0f55ac51e883af04d7137d6d9031c57646062fb5d57b0255b217cf6b664b05",
       "23cd2f2270b4c1e2a82efc6764f670f001c56e69924af14edfd129edc9aea722",
       "ef55f00699e0e128d0d3e08fceb63dc4fb6c0cc20b2efa1911aba54a973a0012",
       "c195dfa41ad33c2aa320ddff0d771dc245504742ae08488b10610f5db0c76d7e",
       "587b77c982612e6b8a392c9a8a61bf39109b7fb61671159d499c8bd5ce3de622",
       "fa18cf0736798699dcd93947a02fbc4cebfc098f63333d7650278fbad7caf1e5",
       "49e286521f2052165c664bef56ea985a564ff6331e72ef2dcfa0b8e6a23ff39c",
       "07834b080c93cd2d54e6adf91a526833262e354acf203d0b85483871f79e89bf",
       "9a3d73a94d8b65b4c1bb17e915a8ff921d3f5747767fb9359e23dce9f0b5f3cb",
       "76d869272c77c23d33fa98a8c2dd85d1343dd38fa65119125095b9723426a285",
       "14db96c366eb7a62bb6d5384a98fc93e0686be58a1496f444e8c1d0985681426",
       "431c2d8ae3778dfec4a4f6c117ab2eb02946d6fda0649843b3f1f5b40eb27b96",
       "c28c23b22c46ab161568105056d4beb0c015eae6b76622a99078ca85f349f6a1",
       "4dfdee30020b9d7507ed41e586802b8716411c387e89e1fab96e67ae95158549",
       "aa7e1b07db2996a723f5410439412be2992ef32336ad4ec77fd0215f31f88a2a",
       "a89661396c2f7f1d890e6045460ab0b369927ea3870d6590781557cd85a7abfb",
       "42e4f4c6be4753782e8ae9b8ceb11d6f89f697003874a700f3c6581c1520e67a",
       "69ddbb7565203611d5c424f8009f6dceebea1a2dc81ea45a655f5ccc74b15762",
       "41a848170b3161f8456a57d27a3fb9b6c713d043678f929d296144f9812bb02a",
       "766c1c8fee00bfadca5001010daf026aaf97d8e9e683998921874bef071bc340",
       "d6f8a159b2a7faf7ee765eed7d6e49b0d05756dcca8c7beb2c6dfbbd0126edd4",
       "739005af98908b2d95dbf432eb293833d48b1c55f93908ae851d3ee12c1a095b",
       "b0d2b89ddaeaf90f2134772e3e5dfc98a135b5b6b0b7eab5a9eac3d1b8af81ce",
       "79ac0a044a2b3d40ea8fe74837cc4cdd419321b632d060ceda4d34d31b157718",
       "26c92ba6e0125f8825774367464b0f7f24fbc1a5e7ccb63412c24f2af6dbce0c",
       "5bc5978eaa976f9afb9e3508ffe1baa536e6f1b77c7f9bacd8691b1d696bd6ce",
       "23fd0c13066f3012127d7e04e2ae79e7eb9768d579719ec1ef25d08b871623f1",
       "273d27598cb7abfc56f0ee734a4965342a377f9d9e3a7dbb30d31d00c3bdaaa4",
       "26bd4b366b7a8f5e5bd2d88b61c89832d3c25c7c8f8fd8b845570e869a88b4fa",
       "925b1ab05d606757c5a6309ae8878f5c836ff49a9d9473f5e4b6c56d5bf86feb",
       "709e95aba756a288d688897341e05a4d533b04a3d57c036ac8d3e40310436c8b",
       "dbe328d9d04eaa6710626d6bb38172ff4358587e5419f565c9a62032d56accdf",
       "60130f69fc9a07d26b50f19d576c82538ff6da0e65b23c6abdb417bd7a921ffc",
       "54a37808af1935dc49257b923e1c6879340604f9ba07135dfae260b35ef711e9",
       "dfb0aa06341b00557c6c0ce7adfbb8fb853e03d363765a5c68c075b849be6ee7",
       "18a847891cbe99890418c01ff5900c7a2967f36eb8b6fe0b8a090b58138fb6d5",
       "b9842d98523c8103d1ab1ecdbe3cff80db334927d3863c3af130f77499e44951",
       "70bda55b85bb822fa51bc413266ebc8ca33d242c59e28f8228a3ff0573d2d9b1",
       "9eef4ae897b87a4244db191d8ecd246ecec2db98c23811a86737f439b6211dd4",
       "bff16541a112ad5b03ad69c7236254e318ffe0a0744574f75686a62748834116",
       "7101661f5e5e06e82e0fae641d42b086be3fc051886851bab37d28e788dd1991",
       "3d6306d924d7374ab2fb04ba07301c0534cbb85887d5089e18592f5f63ebb9ef",
       "1cb2f133bd1261d8ad72f50b0a7d545c0fd8dfd3b1b75b95745355aef154e975",
       "1dca0b35d1a3cb1dbf62b692dec18fe5668b03253f1003fd53fd9ae5a0900884",
       "441b302ee287c655393e2e894e7bd0910fc932c5a2dd129ed24c7197f23b0c7c",
       "7432cb8d5d8f3fe090d3f902446237f99bda9a4e29f21a052ba88ca95d2e5ecb",
       "5bc4a4065eacc533cd3929222a471cfdc58159b43216b98ce417a0bd64663f19",
       "be12cfe29106efcc996f1f8e1c7269e1c3c5c616e7ff2bcaf20598edda5dc1ea",
       "2ffa916210bf702cf9d2a9ce48c43fb8d3a161d903b53c47c91e9ed415d82c3f",
       "85211c09a6439022e6d4be4e3798709e4406dd558fd98c457aef4c83128348cb",
       "fb4e42e4f6353b9e4534497e8a7b04ce269359203e74c1f5bb3ee34b6ce5cf11",
       "7a77e051c8f04edfc6bdd6587a462a41529b1c7d489421a30510c66356cab2db",
       "23a1ce5e9234a331390f20b3dfca27019077621ec1d814e41aaccd0fbb3cecab",
       "b864835e6ea60a45a54803819c96220e74a64ad54db1439ac99911604b50ae60",
       "b198b47b73d7adfe3f3bc8848950f29089f35e4c7b99342f9991a6e9d93c9382",
       "ba631d76065c16edbb29095f15409b6adb2a657435219cc680b49f39cbd0d721",
       "b08ca9a76100162af82811fcbaad6068eb2bf56b28800a14748ce632ae78c3d9",
       "000d86d8a42d4926a79ba7f811afecad8bc0b8b59f6493ec94f9359e04c073f9",
       "5354abb364694ae5c5128a6bfb47aa91e66d5ca1648813df46727d2c4ab1155c",
       "6fe4ccb9041f64713baed94bd06aa8432f89b9d7e5124dd8248d243fae1d0428",
       "3b24e6c9b960606f3ce49c826a19ed347c2f80351b0809a52dba4ea09ccf00a4",
       "9f81c154317f7fd361507ac50d3f254f999e9dab02ae5d0cef374e7715a8545c",
       "29def7156fad052bb06f9aa102bddf74e264a897eb3d764cd36fe8973c363f34",
       "484cf1c655be88c25481d11e0c439572ad628d5c08d1e982697c25d03aeb244c",
       "c2caf111568dd0d2424221f83c8a6a5fd5ef1edd2c3bbfeef8d94df16b1dad68",
       "ee9666dd24ad055102435fa52c10b16720d609df7889daed86ce8f182a2dfd03",
       "a65ac4b4fe67c495109ce2c21625cee5fa6d6f73df01289f2260ab6fb8564c08",
       "a9e8861c5d90d1a96656d46cc2b75c247404e06e5b3bfe34616b42e39843eee9",
       "096120bad3e540f29854695c3acbf2ae5570bcc58a827ef2c94c5bdddc4fb6cc",
       "710d8b0fa05cc88244c8a88ff4d511f05447ef40d9b347882f0b9a31d2656038",
       "83f447c2a207dfc059d2e91a2d682abe4c2e1a94627b1ecda1b69e0f9ab18529",
       "1d37d0046a0fc2cbdcde863b8eb8d4eafc28c4abfaf5a08255ddf1475e996442",
       "da21384105866b3211e61527d4a0aba164c932edd5757cf095b483e1dc9d40b8",
       "b737a99226877802edbbe9dd727d8b620dfe0eb742743ff1b66c02602b8a0a5d",
       "df3c70d4445c98ff1a7efaf9546583854a6a6a45cc5cd8fa878068ad9dcceea3",
       "42eea027d6ea4a3b6d077add44a07bae23a8abdbd76eb95d4b49670436d0d9e1",
       "66641288cf2d98043647930afae8d1de4d1a738b71b189fc251a61587e45afd5",
       "ab533cba89b90b41e0336f8246afd63626785725ae7fb7df94f6cc71d0f39c6d",
       "7f1621b09d2729a326ffd1decab181432c1853184839e9bf9bde03b034ce2973",
       "ac1f05dfbb58656e6a38b6fc4f751bc2939c71f4261aaf748e52a107701d3c1c",
       "a0e2de2dbf73cdcf00ebe0a4156806e6a10c09bae07b276aa0b436d9dcd4e5a6",
       "3471ee44de1714c02089b390cb1aadd6e704650313a8c71dd56edef698d7d554",
       "c86536389bc91e5c5655291013955dae9b3abeecc58366ff3d5524dc80231ba8",
       "58ce8dab00ee28b8466a5ef95897f2b2d7db95c417ce5f1bf27a8d69112d928e",
       "9d4bc9a2f1bfbbdb74ae3bfcd47046462487559ad0220227c20a1e92bab9454c",
       "6989097ddef8463c05a07b0fd06b19253ec7e787ac051c3a197b52771786feaa",
       "43deb866d3c77b2db0bd0a675fbef70da701ee4c35b374e2e6982daa8b09927d",
       "498ef2b25daa107e8c0a6f033f6e3ec09c3148ddccc74c82a552a420644555ab",
       "6c924f811692bd7dd96dc70b5a9b61d350d3c2661fe1ff931da4a51a2b12c1ca",
       "4ae3e46158b50374c62af7320ea59392939a1585b137b7df449403e379a91db3",
       "189407ce40b6cfa8423d97ce812e746434d4c2b06725412cbf1b5acb20806ec5",
       "6218247a08551cc7dd082f87b3bff46b0156bbb4a96c127cfe2e1123f046bafb",
       "5b24dffb41680ca3de1d4b7746718c5396ae1be139854e6847406e8ab5e8b6d8",
       "95f87c6fba878645d3bf50ac150620415e360f073cc271481cc1d3231aa94fb1",
       "99f8abbc501f317a8c6850eb3ed7fd561fdf4b5c5043bdefc17985ab8d9fbea0",
       "4ef5833bdcbf217184356c29cf25c230fe284b7082d2143dd16835b3fb6d6bb7",
       "bef245598e186faf28e0a845a1bedea0bf466903e321a64f3b8b1d9af6628216",
       "463fca2aae631024f49a7efc52b7c61cecba231dd9b2f17ae44f8b2767558a4f",
       "72c5b33bb71ef525f4cc5a5b0ba77843d2746c37058564b3bf3c8f2845150ba0",
       "dee000d9e7817bd68d7f73e356517caadddcb914929d06d48b76e83ed9fd331a",
       "8c9570446294b8598d796909c36e9e396a1a09a8a7a1156c6683f26b655660be",
       "4a4251daf4758148d19685ae9800c86df32dde5468dc9d5415c5b688d1b01ba9",
       "bad5795568a189540ef5af10eb3bb9e4f9aa3db2ac13394946545ba5511ca0e9",
       "12f0de6c66a2d900e174f8999b52f1aa6e991b5ccef69551671a3ece7d3877ce",
       "98aaae247a1961639dbbd97a48e62ca8d8b1a70ed8aa8c23ad52060b80454127",
       "e09d0f03b490348c6e455538645e4cd4e987c6e6b7c0140c53071bed09c8803a",
       "f51001b22b5b27a2f1055c19c9bfbc224909b6a2c3f3e627314e0bcee1790301",
       "a19e32bdfbab61f77697baaa1e1f93091bc602cb031f09ae6643b533a726d11d",
       "7f1f04802efed1635cd53d15663cb3749fc84a3cc2d4bb58bf68c987cc1e1e7c",
       "5df89b9e0749802846a9f6a6cbee0a5689693ab0a8b455d0d683a0b93e051451",
       "87439da0027eca5722c9ba289fe5eab2c31a57060f76f8e56c0c01af55753e33",
       "40d0f04c1cf38bfcd03387a42d85105fb5caa36fff00bded1961ed51e1678d5c",
       "ea2da650631ab116a42774ecd21013c3fe0f7235e8586d7d43781952b64f8dab",
       "f1e307d1f49237dae2ecbaa2511e4f21205c319de887d8f286243634912ecf59",
       "37b8542326de902bc69b508f43b21e525ec5fff0f9769dfd10456e20f61b817f",
       "bdf2319a06de394d003d9c327e2263360fbe6e5442e090612c25a5757da395cd",
       "0eb9b85182e19f42fd670eef19af540950015626b0ef7f472b7a19bf13d67dfe",
       "4917f99318ea72ecc384ad3ced4d3a12588df8c72fc0ce554c1ab613cf33de48",
       "24abec71f1179c34b2aa9f06a2138304f4d3f4256dae6b26a48c335e9893ef3b",
       "e31abe0cdb490374447992014475b799bf15113ad33ba0f5cb617dd367b52023",
       "f730b1f3243b734a914cd7b1f060719e14ed7bb8c26f418dfe8802d4c6fea80d",
       "3dccccf5ebc0358db347e5e81775301cc58bdb7fd639bbde1485ab34ec156225",
       "1f6595a06c56dc3ab44b3e4f0527790afcead5cef58d94b117af8483c6d0c0d1",
       "44ddbef080635da49bc54116664117e352ba4d9d3f3472f8aee054669d9dbb7b",
       "ead5b0006ccaa2900a801f1373bd11d32431c288990b7eb696cc3032bb4f140a",
       "d6cdf0ea7e0b38c6e3c2630b3ebb69c3aef988da184aa2b0cdddf54c6211b29b",
       "9c32233a98e6b9c765a4a4e85030c2d2598109cbf0a5fc9fd8bbe89481bc52e2",
       "c03d5dcd18c6c17b5e3611873e4d7866e9475caf8ed68a41fa81b657300f6e9f",
       "2bffbcd6ce664eff45250d94912f7748c84bcaa1edf7489c37868cea83d01ad5",
       "7b08daf56e924531684aab99820d5866c96034ca504a55bb2b6e231f338aba40",
       "6bf4de1eedc4d480c631e81f8e351aa4c45ab0689c94e3251e108df32168549c",
       "e796b46b6f2cf23e0bb4bb1dc22be481663729899b09a79fbe51a3bc49f27fb0",
       "07852912c0742e0bd2b1236b2d3ae5e8d423fccbcef5da1acacd195ad865b33f",
       "fae75a8f89b41d3ace3b00c3a021dff77f0a1da8e901a49f2f343516820c37ff",
       "6961efa3db048e3eff2297b299c0627b2f4ef655f431f0133676127762999668",
       "87fd20b1fea7bfca2b379380b33c738118f81298e96ed2d43db9982f57775fe4",
       "5eb98f1595ca05b540cf1dc6b93900d7c04d8b6c06be26dd3a2d74c8fb1bcee4",
       "aa950dc12ad97d62fc1f20d2d28c7fcf167d000c84d3cadca6f0efbee3cdefec",
       "4affe213a268a2d502c10174f3bcaa5bfdcd26a09db4c3a39b541f8ea9e2acb7",
       "35608422c0d5215cfde976e4600443bcda0cea42c94867f733c39523ffac1d3c",
       "1a822a7385cb9b4dc74b869fc12ed704eab6cec5069a6c25cddbe4211b26ffeb",
       "2d0f8c895397aa9bc246a24bfa89fc7b3f45772340b00300feb5eb033edcd130",
       "d81de48c41bf7abdf3c86ecb57e26771807179badfc023a0fac0baf8ef1ac8cd",
       "0462522d8f3ea3b3e05f9216f6152999c8217ae622ddd48166f7def3cf9f2ee6",
       "320b7f092b6a9bc82c8c830bfe08fa843fe96e09bab7aba34f0f0a9ae60db6fb",
       "95a999e6348eaeccf373f40604d6764d133e62add3623f751f2f3a3153712c75",
       "0efc6d812322f67610e9c4db6a464a10215a61f753d0a124aaec1e016a8fb8a1",
       "a8d5887a4b0ee2ce5a0418b218d49183491be4ab6b595d18d31f9065ed4e6d2d",
       "db0076e3a32220919886d783a185dd188b3934c2a86f661f6a9ffc65369a873e",
       "067735a722a8373d2e1fd94a5edd1e2fdeeacc8b0391eddc4418266e79a4baf6",
       "ca6c46653b158909d3d7f874a7e9f2235bb6e25c7c35109af223094395a3ace9",
       "bdc89143d0111ede6b40c6fa14fff383f9e8cdc2e854c6aa224d46e055f52378",
       "73433e207fc798a05dae18f15edde499a8adbe49c4b337a24b0a045c15d4400f",
       "f3de1d2c5cc39ba9c670bb28aa1c118b6a16d61636afdbad4fa97f3d134ca132",
       "876a056b72243a5bded53d6bfe1077918b65cca1291744fae7a316c2f9e833fd",
       "32d7327619eee1d4d16823387317a854e68579ae1565360477d83e9d917b6037",
       "85843730a5543e511db7a7b21deb446a7289bf7d54ca5787e9aeb504482f5d6a",
       "2a1faa87a8fa4a152e5bbc1aebca5b75248aabe55e679102acaaad8fe1c4a7a7",
       "64a2da7a6e2f6720beda791ac95aa5050a5337d5f6ef32ced7d9af6525a4b171",
       "df9bafd82db87cc6326e87f283d211ccf2048d25bc8540a8ede7a4f658ccc352",
       "6104ac784b6117e0dcd57f7c89cd7f73051c23df8a0b59a465df54ecaac7ba55",
       "f4b2656b13cc703ae77f97eaaa8458643b06b857eed6446997ed96053ce1f01c",
       "c91a3567e70540aec17248fb658128bfab64896fd67c48e498f23cf432be944f",
       "979964fbb2094b90be3722c1766ef20af396d7667c507658683da30f94cdbd7e",
       "ae8ca0254ab0bb147728a1c28084bf1fb26ca3b70d338c8b3fe2e55929bc21b7",
       "9bd231b137537ed5c91e4799bddebf4cd3919055cfa5d5c974434f565e1b4f41",
       "6459a79149b3319b6c7033cc42c16a421ee4ee66999b1df1ddab37312d6a20b6",
       "1efb0b461a33a9f46cf2778242d3ddec6ac7a60a288befa43e96e0c900376dee",
       "bcec05bbec72acd23df08d8565c97d60e605c4a03722a538ea0dcc105c1bc3fd",
       "98a630fd9adbc28913db0b911b7c5810f165e8438d6c94e7f4d22e412449e256",
       "f8f5fcbeb9df1370d0d85ea2c3b3a137aa2d2f704ee57c9b51aac2389ac5ebcf",
       "621488548eff9d61328ecb2317bf90c337e8ee560c883a4fa8466763e5ba0e1c",
       "30717063377de9b6898729b60d475757e90de7ffbf75cd2d2f0c0d03b0b81130",
       "c50ef9ddff29ddd0fd1e27d8b407dda0db7918b8034531107a4cda888f68ac9e",
       "4455d455072cb7a4c2cef9e16c8e8c8de55762ed81d7ed66ed78e0833af9e353",
       "a838abedbd78582f96c018356bf772e81438d38ef43b64f9221d15fc6ba0b23b",
       "57d364d3a7fc544aa045162c1bc149ce6b908dfc39f0485fdeb3d551bd0de8e1",
       "6712922c9ec61396cacc9796e2de1e64d7d3b2ac5fc0122016393b71d570db17",
       "1c5922fcca39f0208e0e92ee260512717b7ef3a8820dd36596800da005483fae",
       "ad1d40097c307e8aa09011a460bac66ecfea0faa009af07a34dd59a5ac39ef19",
       "65267aa968b24868ebed1bc80ab22dd520b4bdb5040c9761ac74cbbf983edfaf",
       "5059c9f59cd98b5fb75a604ead84800d651aba9e9a49ccec513ef933e741e857",
       "09bcfa3a6e540b80225950d9c2e8712aece75af6fdb4be17e4a1fef18fc59177",
       "76d6a3406d9f558f77b72d6920dc6ec2e439069314ca09d42767315adcaf3300",
       "1f68d0e6839f545a78b36229fe6b8ffd7736fa2dc26b5467db26b4d83a78b678",
       "e5e9dc4b63701a595186d0ac3107b8413e466b5997535837baf1cd3684965f1d",
       "e656a058fd2c635beba0d42ed7ddd15ab86ac38c04b07fd52570469c2c67460c",
       "a64454b4508f8c1553789f96ec03f0e0a10a5fe49946f47788668fce2a74aff7",
       "c5ded20afacef3b4a52ad652df3f39e6f72df0e60911019fffcf9c5e079e402a",
       "779c32f3830d66e517533ae1658c8429d0ddbf5191c4affac09b38afda8d0aee",
       "2d34b39e81f3b1700ac1267facecec3e26bffc92c5354b3d33bda79b1e65ce16",
       "bcc28784ab93191e3a99e256ef7cc5ec820dd2a91093999b79558eef7d75a3a8",
       "002354f14b91454d1c778cc4f6e819d2ed39d891388b8112458d1b35d1c72bfd",
       "921beab4ff8877af21d980d1f2eb1a7e3d78398af9b4465be121415bcbf9e66a",
       "979f7830b6ed74e3422202ec8b7f57b290b809970de252fcc4d21a7c2f60536c",
       "a9c4718093f9808181bd84d0332ff5c2f41c57f845ff1e098ad8017c706e6147",
       "d59c43b631a6f75b9a21b88822fd41af2a85eed17f63d3d0df6c9f16406aae8c",
       "161397f714318cf953cf65dfbeb99eeca6113e81b625f30046ff9e1ebec94576",
       "f1ace4b7e2c8a4e7c18e67269db02e62ab01ee871578a3272eb574f50a08c72b",
       "bfa23b38ff6f7585f6fe3d9e9408c746c11db667df7788971b5a5b77604d45d1",
       "70061e91f83d4240b7523f222242e8cb04872c82e56f645079d92a7d12ad3c7e",
       "812057cc3122cfd8d8b239780d5c3ea1fdc817ee88bddc89e69f4cd6c7346b51",
       "aee7d5846fcaaf4806c24fa44e120f6badd281dedfd5ca51f5b370d5aeb76b2a",
       "812e1804a099ff851e339f3ee1aaf1656983f6f4269b27baf20dc655a61eaf5e",
       "1e117b6ffcea446f48702c6ad4657796af67686722e585e4b380e4c05589f897",
       "3675ce1864d4f62689a52630fa85630c8e75c967e36db63b00155f4120eb7d61",
       "b302348742d796cafa309995c02ddaef32a9d052c779d0eb398f81b709b05ffa",
       "b156b6fc2e68892df0c347586c4d5ed22387e7efef7c8c8e78d86e905fd933da",
       "cf2e8b42165e47ce4f07ec3d64514e2a8eb770164ccefee8ddcecfe8ba63d6af",
       "c09253d67b866b4e4501eb691307a73e78b5d1fb1ce9ca918afc95f369438c2b",
       "30c88cedbda66cf4a23dc709437b71e067fc246a165a38e19a65f49167127aac",
       "206ec49db0454d970718333abb5ed67d0ddf7223654b50dca734a45cb9261bae",
       "3c123e48ecaa981a43ff41acbf83c0a97e7ca1cb90b0581aa6157dc539a67905",
       "ad088c178701f57a57bd598c046d69e1ec36aba8328f151f8698371fdbd88408",
       "2b1c3958c4b26d2c7068b5fa8863ea4e30a191383117572a5b9c1d39c7dec5b5",
       "37b66a9349663c6ef98a46a073d81ae770ffaa6c33a98b17fbe76b20cf2171c5",
       "1deed4a632c71434f3915a90dedf406b8355cb9d73baba8d752414d1c0d2fd89",
       "206666fd49bb581c9f068a57e71a467df00d99fe702cc5c0ebdb4fff5a030ae0",
       "518a607dc33b9fd385bd8f3f577c70fc36b4ccd664c792a598a492da7e5235ab",
       "af25f9af117c43f51fcec10ac667cd596618512d512af25ad0b633900f4fd891",
       "bc5c60d9bdb6ddb97f7c2593b436a3dd3810ad77746527a9125a5d3420726b18",
       "4307c5baf17920f6b16df72fe0240583dbedf01f2ee61bb9a05c0abfac33814f",
       "2c756202170506a7dd3afceeca1ec00d7281d77eceb5b2bbdc35d4b4582b95b6",
       "fd3651f174eede0b361b71fe53d2430be5ba73b8437c6de0c75be551b1abeeea",
       "12639fd81c6616eafd26fbb69dc30073e7d3c0a6259c31bd56a074646c56fed0",
       "0d78547a7740268ce4166b950be35171167b3c45ab75d30b20f8764d18038040",
       "a10841fa03ab2261b1ba415347f885c531ba08196253db692a7cff32962932e9",
       "2f7c69edae9404adf83d7d638e856453426468f47cd0cd2a053deb280cf44d1c",
       "6912f3e7048bbd2bfc87954ba2c813922629d73aeb91aac6a55365797a30a8b4",
       "0f512754af31d42d2cb66a05f6f0f8247bbd13ce0f443e10faee80f8d805f173",
       "a2c33cb83cec97189bfae99201a752ddfa2a1c8fce5844013cf3c3e865d4d535",
       "e999455ba63cb9bd1b81c43248ea766b515d14658d20d14c09e4a6b25383e045",
       "cd83e3b42752a6b7c0280d13201ece9f30362c9b40fa3409ab7ed8c635fdde7a",
       "2743118f093fc360ecb4a64a882252778e95f927ace5182495dbf41acbd21af5",
       "09f5dfcbcbe150d0c22ea4b2136ee7736a4c2fcdb120a996d09fe3764221a5e8",
       "d58f7e15d02079245bb690e7cf3549b817c166eba0eb8bd61b09cdbd810aa8d1",
       "4f8ed4213f625addc8e5250fa1b737d7b3bddefc03eb7f450491cb42e2081e03",
       "de688de2228a139eab2b9870b62bac26fa62532b51ea3f1421aee78566fbb6d2",
       "56798d63a19e7feb66d4ce68192065071fafaa5fb486d993fd476fcbc7f5f054",
       "725564e71db58ba08480523cc4e7f063d4381c5180619b75afa46f4fcb343bcc",
       "00be19925ed1329b90be182a897956ff0363abcba97dbe9cf9baef429e784642",
       "ee6c7d9e0631bcf16813e3d6572af0837909090fe426966ebd1d22df96176b20",
       "04475110d291b3eb0f7cfbd87700af362a29c62eabe29a29c2f0b304ed145c3f",
       "b10788b23f37e23fc63c5135d3ddc6f1658bf90e246f1acea7ef753af1b0c51a",
       "f28bb802a141777804c6d9b532f10f8c0dea1d4be9ba916d8a424caaf194300d",
       "2fd8d2e742b33bef516bb070cd4b406ff0138e54df31bd3bba7b1c51761120b1",
       "1fb3784fdd271224f8e9aadc72780f0bb10d09a4e19c63c3d7370651851d217f",
       "c35584aedd78ca97a443f52fe6f24717581f8b04bbd199e24c24371a7a2c114a",
       "f209123b02549165e96db6ac9c7bbc40795cb0e017e8a4b6f6e33649e14186c8",
       "4645a816c6c7fd0aad67b57f2e8e77759d0d6848671b1c1fdec373658596b2b9",
       "96a1cb55e95f33d5aace370c86fa155f3d88fa0d8af634ec29a244a6cf5a1c92",
       "314a2aef1baee6dc5388c799b56ffc162a943795dbfa2fb62204d675d2d1ae39",
       "4aaac92906095bcafbd20ebc3d466765a39b4b820a9f947ff7e2e1a71357d17d",
       "3edfd951136b0b63118077c50a01d0a70de30df417b6bf060ab0a4d5ba6159b2",
       "f89d06f3051632e1803406afdbdab93b42a132d444654282330decc45d9bb909",
       "14afeaccbe3becdc3d3652024848e0a9aa9b40a30ea2fded5ae1afe614d4e75a",
       "d9d8a11d5a7b6fdc0bfbcd22aaf4a38b79cab672519c93529e9b0d19f408385d",
       "ede3a08ec7cab51ea2e792af9f98716b8dab618a384e899db2f04228634d0e94",
       "a3a65a8c5f96050c83f23b92c1754c5a9260b6250d83ef5526833abaecc2cbc9",
       "a397316663bf9662053aac7188894d56f634b22836147d1fa0cfe1fab031ae05",
       "c4c544a43f507418a7fba2e1840b644a59beb1ae64911cfbd6b0157b2d7f70aa",
       "a21333d44eb9a037d087598272b7ca1098662c6dd1ecb8a8bfa67998ea6707f0",
       "bf876255caa461d24abb94e6e180001a41ede91c5a6ff3734e13799306287f4c",
       "3f2ff0f413f052474ee62a01e69ee13faaa1f19a62601e106b49ef9efbcbe722",
       "7f205f7be344984ea6b51c618b4064d9d4896d0829d14c2a3ad7af3e94fff733",
       "d66bbda2f553d0a2c76b19a370e03022d2f43f45eb34b070237e9008161968b0",
       "d1bb42b431e41202fbca7a7ae669b274b56afeeee443cb53755d68fc144dbd0c",
       "0f05092e1c1388a20293aa1286e02190a3f86df15be4183e83f2a6624b2dbbcf",
       "947503de899acd701037099fbf2f1d245e9c4a49ca00e126d4e6abdfc37fc89d",
       "8067ce7ff2241b9bb05b72cb6662080c44805d945a65409a546c7e64bc217e56",
       "8bcaad29013f503fc7d5f000646b602113db24ae737f139b63e0d6edc03a1061",
       "3caa51206f6c41c58a0163f0bae7247dc36a606166307bb3aeb25a879102152a",
       "1eb238845cd964fff6646acb2b8cb5c2b4b7478149372e036c4c6d78a9acfb23",
       "ee9c0ba8d905b1ca2ff85742e335a652cd1ea89b1861a69223fe5f0c2af2f325",
       "a08e9243b818609fcd266a68097a4100c8af58390c1989a2752b98434541089e",
       "c765757dfaa30edcf1c45a8fe769f52e5017bdec81d642ca8dbf814735300198",
       "9edcce98ed77536fa9319aa4ba099635c6bfcca2f55c8c2ef64473ff45cecdc2",
       "a1ef051276c11bcdf0be5375f20007128ba9df1a6a7f3c1fd726f5fcefe1df04",
       "1ef5aeef7871826d366de6fcfb76417b55a801f3ab106f3681389e6ea91e7b0f",
       "d98f4a939ba8d063340f5e6bff0c57e146d8f0a4b11069d6b48a954922da2d70",
       "055fb55514fe449cc2607eb95592b8d7a9183bbd43ec26b89e67bfdd2da9da3f",
       "d3a4e4993c17dee9cb01203604bddfcb82972debc7c51d9160e58b74ad0e5d68",
       "226705495061c548a936677de26f47b15b0aebb2c43b3d689402a143556f5a4b",
       "b66f96d2d30505fc0759da9bfbec370ea728bedb56cad3097128d9694214945b",
       "6a23dc7d2848ec366baf2d5f8afd2f6ce700187db8e146ebb5d9e216c1d20ad9",
       "49664d7f955f0e1b2f23964b996bd20956fc51dac7f4d091ea852bbcf58d8ff3",
       "c9358b8f66eee12b3cfd636778f7faa0550a15cb892fe5385c37a77789314f29",
       "d2020a5c20800fa280ec5fb05434c2bc2ff018d557939a04248c1dfebf6cf6c1",
       "141356b46d0d334dc7a1d586d43ea1e6185a9849a11f79fb534be7e9b9967163",
       "c30d7b3c76fa85f57f7e88e05b68b75309d2639ccb3967fd5fa08fdcde911113",
       "a449c07519e6abb01848203c1eb7e7493c3b0329a09c28d17bd7ffd881b7bcf9",
       "76af8276d2c7e52032f6789c1c16f90963bc7e586f64fdb745098fa65b0d335f",
       "84eef6769a653629fbe09de7afc5dea7641771b4a9afeedeaaab872c5abd0c62",
       "fba3196c215f954298245c982059aae99706332e48545ec848cc7c974c42fa38",
       "42096a5cbfe9b330e631498f6b903bc516f72a1c2c682d0e4e1df47c64962bbf",
       "40797c0687d0dc60d7f7f7acd714d29b7bb3d4a6144e3c132d7a5e4230770bea",
       "a54d921bf53a456a051b1e9e42969dbfa785c4e557b2e1cf829c8a650c967ad0",
       "bf629213a74234bb15627840a5b4b2a54b88d05e92a8d1ef58a1835b315cb423",
       "dc601b3d5daaf5a6decc42e89d87d0e56932c7037a83667ae45403238fc9d6ef",
       "0d6550746dcc77005a79ace987cc951ac7e2948442ef7f8e4125f05b2d942a3a",
       "b476488e8d20e00c12406a48d942279461717ffe0d681de58250a26b7bb74007",
       "54ed09e23c21f8b8c003279b3f2560ea3f3c145cc312cc701045c7e20556ad11",
       "db6cfa7911f41a37e81631cb1bb5b2b31a185c108ebeae56919e020ea0f20673",
       "6768de0799bcdb9e138f00d09941e9294b68b639733b38468c99b72601e68917",
       "78d260cf57d2bd70d657ee220ae2edad32d86453a684a5e0515807c6a08e5df4",
       "5b118b9f4a11488351576dc2e23b8c08f4b76abd2b1b21c40cc6206045bd7e2d",
       "8ed882123e22c86dc548fdf469fdc183dbadd3309d2fa062005b962af926d95a",
       "017e6d385e692e3ae58a21d423f742096e10e9af671b9399fd7ff2003831cc19",
       "5863a25546f3ccb8ebd936e3f1f1b49d8131147ca1921fccd1aae74d32aebc9f",
       "ae2cd231b8489ae9eda4890be19ff6502eca944edb21ec336fe7452882f943ad",
       "f8a4cd6db42f5dadaed16c4ef6c04244928bce471d1d5fe391b3fbfee95b9162",
       "a0b23cb7228db4c9692ec2fe367f1144148df22ee4d91427bca4d87e62011887",
       "d741bf6e4a75f78a90b99766ccd3f33dfec87858b9db836e86913c36a53fc9a1",
       "c0453ad532047af2fe2fc3dc0052d18ff55dc4c4e38452b177a64e457e824278",
       "d2290ae2d2b13b3e578c7a594e1b9a98fa18a4d18db846c6c6429e4de4eca8ef",
       "ba003839ee48229bb5c2ddf8b2781707a4431ce7ec2959516ced747804e4eeb5",
       "05d35fd071f5a1dca39d4042a0a54bdb2fcede96c1620019ee8ac73814e46478",
       "9c50be68e724eb7671cb53c7fb8ac65a71d7ecc9c86b4cbb66cb2f940c87facf",
       "931e80ce8d55a9bc5b5bd5440bed0a9d733e8e6f47134c113988ad26568c69b4",
       "473668ca114752d3fd9e0eae47d9974a34ec719664474e2886d35a31db017aac",
       "ab12d8a6e749d08771c9604ec883055401b204db1f35a6d3adfad978036c612e",
       "b061ecaf75b6be934e24cb2fbaaf14983c37c3dcab05c4208fd2e2a7943057da",
       "d30d9cf4500c12dcd56f686edd30c6cbc28b044f0512f5289158ba2f729d413b",
       "784f5304e8a0ba2fd86163eb150b78c942c6a499060f489fa775e83c999f8817",
       "47e271d5cc376fd659d00767151a41911dbc959c8f36a504170f066d4fbc6dc8",
       "5073c67156479ab1dfd1f6624e98a669096f6cdaaee7eb222e1ffc9cf2859ec3",
       "1e2068373505ff1d2c1670742334b9adc3b10e70c862ed8dff78de041b7c9805",
       "0407b237ad42dfb9ab0e35bca04ad54c353ca24c394f8ed797f329730058d3c1",
       "05365d651100765029527ee4edb458b81157789fdb52b25f1e47784aa7073de1",
       "c9d441441807548dc94f49db521c0e7c43061df69a4df083c7f1390684bc4871",
       "f7b47ac09a6c587b141454bde24d887c34a0c1044916937f3741e3c1f0b52a69",
       "cd8a2131840e9a01c0df56f35949b7037930c428ac13dfc146d56a4f0e52099a",
       "00b285dfbccffb56f40bfc56d4f256ec7e8c30e89bd39a581fc788bd20ec78c0",
       "56c5f7b3d3bf94d397825e8148b9e22569655fe67d89095dcdd3304b4ac01ce4",
       "bc4619bb30ac3432846d928d9acc00cfab890fd73a825d1f1486105d1a2634e7",
       "335f68c2caec4366c8eceb97500fbd0ab7ec63a97539bef7e250df33a0127e50",
       "2cc1da40b43c2203cf321146f6c958922643cca8e4f288a455569fddd941577d",
       "0781f90177dc528de86ec03850dd53c2dc88bffefe7071862171b02535dca28e",
       "f64dd4bbe9d9f425a0c56555aec4858629cc74bddfa50f0478cf6e630f487bd9",
       "9cf3e6ee387feb95fcde44c1c660bddf31095dd345d687d37b9d1586f8327c51",
       "7631f83a1e994520c293ab6399e1892fc24f7de179d55267c4abd921daf95a14",
       "98bc17e31011c45485197b86efb167e2affdfe6cdde7f1adf40cfbc646b0985b",
       "ca584768984562540ea6676e5108aba7e4e81db8eb5aba81d89700c6ee5570e5",
       "4533d90c8bf91a8eb63f12936f5bd04999c0959b8c8c73c553647db8c4d7df0f",
       "55febba4b84e333a89e463a9b43c5e1405d844885099940f7701b07c91fd595e",
       "07995448edb97a19192ddd02580bd75197512038c38f84fb2903e95857046692",
       "20105a3fe0cd06f7560b89838298f213ae014582a6d53eb09d15b7320f7346e4",
       "d83760fe2b3aa3d2e147e07d27f423bf935e012380e9794bb8bad5dd42922316",
       "09e2168fb368279a4470e76dfa660b3781e43795c4beb1206059a46083b69a43",
       "7c5b8bbc53746873d5e4dbd8241629b38d817df14d8bf8b3908a293d75b4da58",
       "5b1a61c51c80c048b077857672b936764ff0057327421a9ef77fac1bcc123465",
       "bb654816f6328a4783c1daa9086cbb89d984581f23494558e4973f7602d00ade",
       "5b96c6f15c85166339d16028c4ef182c787d2fb2657d5ee000cf9e93c0c95af3",
       "bec1c61494534d28137cd8146d1c5c5c2c81f6e494496a10a9d6946682f14279",
       "22472117f4c0be2688ba1cda0f3c99b1402c39affc54a106f70d12550225afc9",
       "8c392c8789273cc3c5ec8159ee9f3f19caab588407dc752329f1c27fdab70a3e",
       "87876cdb1a1dfdbb8779aafec84c2778b135cfaaccc4c8a95e7b52ef9bded4fe",
       "ea4ae70d9acd0d449c93a40defa9ca0ce49342b200968c7e0bc69cc96c03cbf2",
       "21c7dbb122493d2a0a8afecffc3cca9c28d00bbf7a792a61fdf22ea33cab4766",
       "0397e32cf3e70582131224a5baa583ab9cd3b48dd38cd04971aefd23de216337",
       "39d34e90bde532ab72100babdeda798d517da1504f8e893188bbf05dc3b51d64",
       "e1fb1bc64961eb138455c6cef13a181b6974c77a56b4dd0762d74629071d6f22",
       "4d8a77dfe15982dc2352f26de88f94e8238ae5211beea5256da3809b776b04d0",
       "79dee98ec8f82b42a4540ba2625d2beeb5e06fa28169069eda3dde3c853d7237",
       "4f21f75ce0fe1f93694a83e0f31ce75c26315979369d576a65757b80c6639f2e",
       "b71a857291e9bb3f91962173e9fec64c5f2c310f1aeded54f501684c216479a2",
       "3a61c670ab4f62f1474d37fe73cc185b4f1469c7c5a057828213943349f96c1d",
       "a66703885b7f45af015cb9aebb2ac843cd4f12ab00c3460906c79e52697afe35",
       "3a5700b0c42dda74aec799bfca2027245b916c34fcb79c3f2a1af6fee2d50d86",
       "7e327a4de5ba5d5b7377103265cf24774b93cfadeea34a2ed31e05c6c9c65973",
       "e54e305d4d0caa297cc166fab56475bf0ebe56a5413284491f1c9a8e71d52d92",
       "17bbf10ebf59ed463d1f83857c5068ac05902dd77b75163fbd4703c980436e10",
       "e97990e845989e334a448f272441b1eebdc642bd0d0f34fa49b9866c1f8ba168",
       "6697b1c1246ade194cdd90e272b1082c39d4b7a440a1277f09265cdefadb9f1b",
       "e0bf537ce0a52c680ca929e5658d14e66287c720934cc1b45ff470ea7b7a058e",
       "f9c7475f57b0dab5f39c1d80888b895c8a83711c9214c4cfa518bf52260a7d9d",
       "2c753410171ef26036849c43b3ae933499042979279b24b3a472200d6fa61cd9",
       "02e7549c6a5dd675fc5dc24eb858836a6188fa7b9c6660aa7082e537004854ca",
       "fd938fad66a0ae627d4f61891512137d4075bcb82ec90aba85ac1a36208394d7",
       "7231af91b142fb4a874210cbf3b3d7b2c894c061535d95b6b1e2665b09ace67c",
       "d23279b1137fa068517f30d7fbe158b80b69ed3a647f017b011b06c970a35556",
       "3ccb46fb83c35f0bc10e842379cbd766658db3816b6b82f4fcf07993a9687af5",
       "5330c66534530126cf791758beebbccb5241bc68343ff1e32b9aabaf2de9873c",
       "036cfd36c456d8e8d8b3205e41470bd471daa0ffd2120f41808cd1106f109141",
       "f8375493de527e5eb24333ba5b1c76ff3617181216d3722f6a0927d4ec2c88b2",
       "fcc583585c8884454de1b85ebdd67fc8a65b5b896acc72e6547ac60686cb4b3e",
       "2abbd3c8b30fd65d9164cd330b73432284203fcab0a442e97335fb12788a2dd2",
       "541babd3fb23dd8d0eb1edc710bd3611f733f9b71136e83f57a175ba80b5fcd4",
       "5dfa7949f7043ba72d550a0e67a1b233e17703c5e0a82a40bbdde5641c855189",
       "5c01977ac53f285488227c20915d96bd59c7236afa6b81567534ab544fa6de23",
       "11eef13792c02501f7550db6e974a9a6eb49fb4ca94d383b256f79de1a36e69d",
       "3fbf6a02bfca4d73a67cfa2df024985e6828820e8e990d3e2639972c4a226c39",
       "d95e704b54a15741e5404f1979c887e3f401f431d892f87dce8ed81b5aff3c3e",
       "80b0c5761e227d93a2a43a8ad916a4f9bdff4fe02364b283bea865d542d4765d",
       "fbd5cf69a03bc4f80448654fac8d2a3988491104580c9e9a7d0f2c7ec45de669",
       "0209438a74c53705820e3806dee5cdb1fd80e1601e2fb9801c0c66cd8cf2f5b1",
       "026f01ec7a53c6b78b26b8a8b0b179cb866665e08099cbcfef3f4703f06beccb",
       "4c53d2f0356a4bd66d46f22ea5b98e8a963bd54d7d5b79d0588364d7090b38eb",
       "fd5b10be924399a09121bf1e57da623afb8e94b36864997bdfc041958527a2bc",
       "cb371d5150a169be586d8bdb69286f745e124d9be903ff6383bf86e9d4e32e1a",
       "fed7df7bebcc6531036018ec04494bd267c0a9e7a222d53255a406321fb0dda2",
       "240015bde2cdb6ef76f38c0a87a9706038e842ce153fc688e105d5ec091b9f5d",
       "03bb0850d816a00820713303dc4f8e127811be44d6928af00142e636de19ba9b",
       "b97c217a88269277ed14ecdc6d59e31508f89fb818685410dd56ebdd72c73d3b",
       "4b795df892652336100d0510aa9b35c5f5d862adad6ffd33aede4abf9a051f0b",
       "a8199c782bd55c9e5aaa1bb5200986246b0561ea18bf7bb7505ac3deb0f8dec1",
       "0ad343f97c1ab62f92dab674ac325b6590d25307dc4ffc70e0b7e258fbc3c913",
       "96857014716e28b22e8d595f7930078df6d3c10c994720c52ac58b614bac1922",
       "e70aa945cbb59b3b8a6bf6612658944285d73d18ce250647409041eb955aa1fc",
       "5110a75731425104925822e7c846a8b00b51d1912e15eef42abe1217dc6c60d7",
       "fcc6c0a97074fd40fc18480148fafb7fb26c1778c5428614f4a02dca83ed297a",
       "01cac7e57937ef6d56482f7b60124518f19fb68d5e92c14a14fa6125b929f373",
       "46c433e0ffae07837d0a204c1140123cbd1995b7ce9190d3b719543377b4a5b9",
       "59703a916dc5b989c4c3c8333b072a64f6adf66c5a9e7ea99769e871d6dc0e80",
       "ff2b68ee7737faf6d72b47faa2aa9bb7d066fcb9f28c250b01b42c5edc2ad76a",
       "a4101dd5c49576fed073e39424b01efcb3760dd6fffcd116d077782cf7bf8964",
       "b08b057740d4f4d136951c2e37049c3303077441006553c49cf9cc1d66647eaa",
       "ddf562256585d95814f1178970e1df239351f74358c4fa8e793f4b0af74c3cb7",
       "9a34cd77fb27a1e6666269f61725ed0891daa92d4c9716306eeac4b9e8941cb1",
       "2a1e9f8201f4ec0895026c630fb51c23c2ba46b03dc0a9ebd8ae17dada1dc53e",
       "01b911fd51e49cca41a089bf11f20fb8eb8ce765a0a4034aceed9a4e184c0a4a",
       "26eff7029a92816102cd8443aae714a8429b086f3a0b64710ec2adc9ebf462fa",
       "b6be46b81966c1a8ff27a0eafa539aa2949388b49b6e6bdf3f3854f844196588",
       "870bc79c0aaa5d3ccf914b6dffc7852c874432f77d52d9c0654d4d77513c78cb",
       "ef56b72db0c742b88095872f3bb80e851409cd1a88c9a29d062505512a17cd9a",
       "97bc4390c88f767df66b28248d502c5deb804c1b274672c18abe5ee51fd6ec72",
       "3c8a32c5fdb080aadd9ac9faf28068dcee28eecc31a24bae18068b3e89cb3c2d",
       "6b4ba1fe073f96da05ca29671c7d49aae63c2ec582a6adcf3d85264f90dfbb09",
       "db215a957f6c3676fef8c66bdec4398875da0e963f04e2d9a6bc79f47d11912b",
       "91216618cc76444c425c5016cfd2fc32c7ab9a17913d71c679fe401a391751fc",
       "0ed0cb9bb6c4a5a0d28a45de5ee1df73c072f4a68b08a2d6845520f4cc76de1a",
       "a5b62f296ad046031817def8ef5935841be76c4dcd86b621460c89f56efd442e",
       "1c7e7f6ab66c04f3040fd4db4b9c0bd571241f62f827c78187ac9b530308165a",
       "d9435c6a20e60bb99095663090c8ad2bf204d3aa9009f0761a48747a3567c6f5",
       "6ebfdda2d0df0e712cd90675a355cd25eeef8c8a7de0b657d2a82a710a35344d",
       "5810fa3edb3093aa7a83032dddd78a657ffa32a3e68aa9a9b26c88a82b73640a",
       "33a6ab6be800825340ff6dbb04f874c57f6739e6f1c15aecf95e237f3e6a950f",
       "efefbc7e2a93d5911c924181394b76d65981807eee2070b0d0e307088565ee08",
       "c2e51001894a117059990bcb09c60073bb816e18354a83672ed7846097d0e7fb",
       "c0c79d8a257a4ce269d0d34f0ca0dc1e69f4d333b73f5a7ab93db6d66fa7c3df",
       "9e033c6ec9291f76a66ef37dd18000321ee1c3e0bdc6a88141214eea52ce87c5",
       "24b68057bf311fe43a0d1e97fd1263f083bdef3ca4ddf95aae9d3400e8107cbb",
       "7b8b825c3de459440e6b81e9d204e5590d580d8fb89a0f82f9411e764687501b",
       "2caff779d6368a645d9c9a23d9192029529dc7b70f6aa28a79c62762b8f2fb0f",
       "fce13328db159bd0c98fa7656951c1db158b13309b331a1759898aba38924c7d",
       "959b21c695c0c39d62ca0e0285d70f36d7a0e4ad25db9fe8be7257ef7dd1b367",
       "c6c52703f925708e5bb67934566b0034709a28dd69846ecb35020b6a46f5d1c0",
       "2042d5237a1c8b71e8cee169a56d153aeb2efc39ee8827a9ac38a1f44cdcd32c",
       "cff6612ee59d896aad3db401c67a53f9b0aae7d48b4fb4ad1e9c11f869945487",
       "8451fe3d9f57c1ed3cd87410374e870b7ba0cb0b25b6efecee092888195e275e",
       "68da5bf45a896e128ca58f20f526470a7b4183f359b4b2d7bed722de386a1589",
       "5f89a8ba4516ac171293bb9b54e88b5b7a46606b68a6c8b76e7badf78d3086bf",
       "043f6ec65560216eaa32abbf75fecd5c161d36fc388cc15b6a1d2fcd8a31c0c1",
       "cb49d29cb663c3d63e0c8cd828e384b610da8a162b44a4dfde82f431b0ccd2ae",
       "e39232112b23fe660fd6e8a08fb4cce4dc35acaaa3c464c11d152f0d1f827de0",
       "49105cb133db5d69e7c7d1cb240e4323e8f68e7eef3059b4979429882ce5938c",
       "a450cb3ad18fed6afddff41caa28ea036cf380110eaa3adea7e8efbb7c2c6c5a",
       "307ded2035989fc86b89db6ba6bf20284fdc7c5c3bfe70540c1d15e2cdbc0f24",
       "087a04cd7376ffaec2d962c7b4637fae4adf940c443cfa61134170676da6d14f",
       "f3824c4497b8f9d2e91dd67d976b7478c7f5ca3d675dbf48649fb3a38212f907",
       "0911d91520cf8e439e919f72e0543ef25cc9508871434c1895277dd9d04fc285",
       "9d7491836d85f308d604b9affb32b16d4876705129751a527a3499db4c5c25a7",
       "0f4d593fd06264302b1b62df96a55afdcac0746e6b79a0a2e875d7f9b6e73b95",
       "1005dd8e36694cca92954c9fab8afefcace39181127be835396d6d49faa4bc29",
       "36177f0f2fd0d55266a959047a3a2f8ddd7369581b8248d9a8993385e7ae2cc5",
       "8a945333ecd152c8827eb1fdf444c98fc5ca005f25bfffed1eba23c9a7734e4e",
       "3c5ec6e603491e3cc28affb0a533e1f4be95ff9a0af35793ff513388f6831b05",
       "f75a3c3dd51c54cb24cb16fd6f73f3ffeb74fa8be832db95e4aa0daafe31f537",
       "898bbf4b5a9cfc41dc0b4a2f3f7b4cf8e2fd24b836e8408db1d6d05d46fcb5df",
       "7e2565ab36a0be480f6cb2d77e67968ce55ea337fc1dfd295c3c8d4172e7f559",
       "6b5ef4ae994ab03221a5c830e3b7b1f4c6b3c66038f8f474da7ccf713d85e717",
       "5fda19ba5b2aa466c1cab4d197f9777b6689749486e9280a5be9d8447a7a485d",
       "df90898d05330c4f77e148094fb0513d9c2fcdd06c0a0fcd129ebff3fdecccce",
       "a5c4fb11d8f6fef3098881ababc40445c851bf2baf918296e8d3b23934522438",
       "1112613ac6a41766e1743c5b9dcbd630bbcb66984677eba500163a433e4ed547",
       "338e8da1df43bc6c5dfe27bd47fbe49eb8f0169daedf847816a6dbf2e4c3ee7f",
       "9e0ccc8abe0c12409710d5c048b9d9169cae4b76e84390f54191e093d6ddf215",
       "a8b228b9cad2af35a55fd13870a326ee8cdb994371401ef75920ae0271b78a15",
       "fa066043eeb176664abe30d447a79d8c720429a5fae35af87ef32a0be376ada9",
       "1e8f0c74ebfc0c3ce71dd4acf673a8b4e7621d9ba501f0d3301992ab8e0d573f",
       "21f522dfc7e69ced39ee42a9153af40e88d1c95fb8bd8b52c9c35c7cfd2caba2",
       "80f59e1c393b52fc272bb71cc419e19fbd1c35a246a5681504fb5be93fcadfad",
       "90793dcdac5995e73528f7c48fbaeb84b7f383f5a2c4ae65af723a27caa6c895",
       "b5a4cba798a27e2327752091e6dbde306175a9852810b56622ecc7a43cc352be",
       "827acd346a9b8366cfef8a630a74320dbd2442ca1536caaf5abeacdcc55fdbfa",
       "206e47baeafc8ff4ad30679374d9420b40bc8c80e9cae44bb7036df85d28b9fc",
       "dbd760cf51543f4daa2b3316f6ed5c6a1cc4bf941411bc59ad810c4d5aeb1af2",
       "04a2006bb4ecc992f78e15540526d7b23a854f1d2fa9a373bd89fcd763751b78",
       "a725bbacdfa7116d30374cba0efa6dabf6a9b1bc8620f279e55ffe23fd6912ab",
       "09227649264418491d12a416f03dcf48730582439b8090504e4894d3d0a2463f",
       "48133bbb8cfa8a8e1398b7592cd62c69e77b4026100549c5c28ad37f3e816c5f",
       "19926ce30e0f4c3ed13900c593daed7a10f181782e25cbf75e9cd63cfdcda75d",
       "7f5dfb32d6a0fec4ad27bae828c2e323fc183ea762aa9b446306b7d2f9493a05",
       "af4b6f2efed5a424312bab936b3421e038843a52bb382e584919f3b658aa9df8",
       "fe5e6c2f7e47e6ef5d563e3137ba14556151b7967bcc2baf528d028ed135b6d1",
       "370c34eaea26c083dd7cf13cbe1fc2f95f5f2e9d299b9f02225b3cb2b04448a1",
       "a586b1f0bbfd1026876799cdd81b5d9d14d5fb8434f791b3cbd139dc3c91dcd8",
       "3a464f34fb5dc977cf5de102da8690bdc63daa0432211ad1b5aca691f3be2dd3",
       "312e39e112590d3b6c36e59620e442de02f19be831de0ab68203e211ff053811",
       "3e2dbfa8be2eb5b171664feba1a0381b5e7f3fc1f7933c67df0f9d0e4fd29910",
       "63cbf49fe1ea7e3fb1196f991e411fb64f71dcd576bc72aaa0b26ef8955f5e8e",
       "65bf71d3700e2bcda575ebeabf7c343257649cd496dc905f3fd57dcb5530d91a",
       "edb1f7244d4d82f7d1031e837d33c4c693c2c05e9ba410f3f91110d59b6db89f",
       "30a4f83ef9496311d783d79657401ca5e3b66ba6ff82630d7cdf13c99b09fd50",
       "72cbf5bd0b2e0416ee88a183da166b00d9c5e9f9e70eebeeb1d8195d4dd21954",
       "cb924a571e5232850cd76aaf3cd24bced6436731073015518df4c0317a3e9135",
       "5e7e9c759fcdaefebdfee869445726c749a2919965ba1ac5d8f6c351245dd4ca",
       "7ba0f8b024d6bb0e891dc43f94c2c4f3ce224dc1d082d3927855949f7c2624c8",
       "c183ea7a1ddd800af151bdffab44a6eb3c44e04873314a599d37f9e06ab3f93f",
       "0e19a35fca4a6e801d204d0e794c61e5bdc308631592a8ba26e307e01cc36ec5",
       "5a57f9d7a133e6bc87a53bfcafb73238f27e6cf828bfb583b9c105e803d7d792",
       "669db78038c48a4b1832810ee97d33b64bc7d598e0db3bbff337854db2333bea",
       "cad821413568735777df6d2f3759bf3cee6c76e8f996f7885fbacb38f7f97957",
       "67b47d972b591cc52a4a04b96796ef63d2df56e9e6efd54033ac0de5e86274f2",
       "ab85fa64822556609cdf0fa90d082b69426eece5710c17acc1731ee86f1b3166",
       "aa836431d6f3d3f7b9cb96d7343c80db1d2fd83441b700c74d2bef91ecdcff84",
       "69d8efc897e99d9ac4b5f82994c427dba771137a94b0d197e9e8ec009a275e4b",
       "75bf285c52ea104e7ae78c93cf6ba52057b6302d4cac2cc4b575429ff4b80a5e",
       "bb3089dd868eb28876006d07ca2df8f323f4620bf96b1c7380345c631a520f26",
       "adb3b5ec5b27264969d35c38a1671b5bc0204b79ea9cfbf6d6a14ae95681b45a",
       "092ba47057739631dc256ae4c9d648154f932486c8880cd2363168a6acccd674",
       "023142f618620fac0a6ec8510d6fe048fd9608da8fd894d305d8643e75743933",
       "109268d9e2d1ffa4b2d9f883ae9fdfb92968d92116b23795f094ba6ded1b122c",
       "4dc887f29ff9d742cbcba1c1f51ae6e4cde95921d6bb3b1fd8a9c0d41c0c3ec4",
       "e40bdcda8ad57e298b0ea1ccda0be5e0bf339c7376247d6e0e5c5c25e19256f9",
       "46d3fed46456196d561869701712e928f2857276a6b9ab6b3b228ffe85cc89d3",
       "67590b70b9ed354020185c8609d3d63d3e5e16ad4007cf51ed323c4840e4fa64",
       "3fa1654c2a22c1b7f773998adf1ba7b49c8f35d40af1d945c1b98a59a2411a56",
       "463259b85d62d20552d0fd0410fe389e42cca67ba3f6913c7e4b654596cb9f2c",
       "74083e1b38c71e6a70571a450582c22bfc6f6686e82755d904751d56d2bd0fde",
       "435ded97449501c48390735ebfc5562ee42f49969807e46c3c68ceefe53f5f52",
       "398d30311c0dc727e97fbbf6800ad9d86efa6bc80c42849f2767bc750f57b296",
       "a730a1909d371ada4f298eb232a3ca03725cd936d350b1ff9fecdef5507c5e42",
       "dc14d55701e6bedeae52a5dc73c1e6b5b3bc613d2e2618cea6e065eef7068972",
       "2a6de877bd21ec8cf1f522c32f037850303cc8a0f924fbf280e445fb088428b9",
       "c96d19e88c5543cbd125c4cddcaf17bc932f4efc73500f1f8475b2e51a46876c",
       "e9fdc921a6c90fc31ea96a23613c002993eaee0e1ebdb2af4383208ba81b8cad",
       "a3999cf238fee400e983e51c58f6d7904a13945faa5bec9b6ccf85c8de35e11c",
       "4f765aab8110ccf12cdd3be76089f1feef2a9e675a8748e38c21f7aa0fbe018b",
       "26403302c0323cd87d3450a90c62d98ceacfb23a879b9f9bcc2938dd7fdba891",
       "479619c867142bf48611417cda744d151697052ee782d61159a9bbb4f30d5da0",
       "08f3d925d2218fc52e72c5bb67be25658629b30ff1bc049531e1a5007f3066fd",
       "48d9d324ed3f9f29f5005b1d6b353daca3fa27a14c7280a542289a017edbf02b",
       "0b7f56573590fa2bc202c31b32d22fc09d3743adbc9992f12d02e67459faf915",
       "1277a6036241aceab5ab2d2e1177637ddacfd5b709f28a10cb19ac6b8fbb3b7d",
       "c12e46704034ca6fa91b5281b1abcf6c8a644c26a956068fd8316e3c6437a4d1",
       "71372f033c90a5fbe55986cb9b24ca1af111441fabad62b33cdbae17abac818e",
       "2c7ff6a4fb8fe870569ec1252cce3d956291833ba7b4c6ba6f8bc501be540697",
       "3ea3b3f9896d9c318137f3cca43f0a350742fad5f1aef4c7da2c5112f91b4bfe",
       "b08ab86c7050b277a63451a5620fb41ade5ba9f4e3d2f22d5b3f2a37fec07d08",
       "f0b76261f9168d247f00348fd65659b68832c2a6f71bacd62538bb7d87274684",
       "bf3fbd8467882f86ad5ba323f71e0a04e6d56389daa2bffbd511401dd97fe1e1",
       "06219926232c6864a2f30959d6a10f0feda3f0c5dae5f10588a74947b382c41d",
       "e7469f35a019291674c0c15c1ef364bedcc5a69886900a2f2a2f135198f02a24",
       "8c04dfccbe6932d9955e8ccc247e159c4dcd84b2566217257d459024ae3f4a9e",
       "c9caf9c298d99d078ffacd4f6e3ab134f084a9abf8acdaa8369902782f81bafd",
       "0f9aa87b027827198fef4e6a8d6040abc3672cfa7adebc889a5edb1c3489a114",
       "33f649710ae3816126f50090fb06f4d51686a7af1a751b1441a7672b8a04cd3b",
       "d95ddc2648336db00ac14b053c9f9a0972de1f6b17957915fb6063d5ddcc9f58",
       "8dd82b21b00f7f688a57fcd3d00689608c08f12c986745fcd478d68b47fde682",
       "21868a98f568b0383c926be8a4dc8395e6c63e81c8d5b1c0b2e3fc8b71767caf",
       "84e3de8bceb3747eb4bdcac881092ffe3270012a291f42c6f322bffdc3889c66",
       "c25ed51ed7f18a32763b1a917e40480c05d0a088bedcfd6480353adecf63d039",
       "b686e290f7ae785104694408266063446eb169cedc777861e1d00086719fc0e0",
       "0a7ef52df23816efd0677d4e93e89ebc7689f3d7af4103dbccad943cb648c3f8",
       "6f36dae80477dbe067e0e3da4c0a1d58b4f67efa982b701f9b1ed44fa4122b9b",
       "b3882a037f096d3deb05b23acda40a51db299e734e2cf7ab35a5bc972934b77e",
       "048f530b4c7996942ae209b91dd654a3bb04688f23a99c3e99f46a45c8396f45",
       "c6855bd89e5e8361416a2acf727236ee85a49a814926dad78c77d1bdf07bbe9b",
       "bdd45015f16c20b9bbddc6668172fe14aef44642826eb351dc92ced0fd6c0604",
       "5d4ff4d5d43d6f3342f95a44431c43e23b0c8abf7a6de2b103cc7a2dd9062f3c",
       "f30e494324f2deb9582d00b9f940c9201b8b71627b87e050157ed47e36aa58a6",
       "3662db49d1bc300b5474c6cf68371d4609c8a7d1e92c51b43a367e26153e0c86",
       "40d2782c1fa633539a6e66c472e0549ce42607bb1488f9f820cecf180c73945c",
       "8b85c5177f272393544821a7a0f53062ace54ff28694204b28564aee0d17923a",
       "1a1d2ba0eeec8350e7c5b3fc1caa9422b76e27ae3b5bb5cc20916a43bef7ff4b",
       "b16ca578a181212839c9d3741c1ee0fe21876d1400fc938983c6f9046bf900db",
       "b57ff8dfe8694d3e2a7657c0252c6bd2429449e87ec288fc70b745341d75971d",
       "019a4a5838b697e33a7fc15eb57c6753f4d7762cd33c43896505c56d18cf49f5",
       "9cdc7006efb12b8907167811adbe01c2a8c52dfe283c52ee2d2f19f9b427ca0a",
       "7c40e99c4639252929376bf21366cc9723b6cb6b1be12a40f5dea65a6498b320",
       "874f1a0dd624496ed7f32ad493bdee1284b18d54079256bb121e3971cc884202",
       "9df391c215695db73084b8516d715f1a1c7121e80a553cf083a4934b321dc00a",
       "2013668da8ac5a9015b715c4ac42e0bbf6ecb614781bed0737afb26223da1184",
       "29adb22e8db11a92fd145fd4689f6f8dbb158ad3f1427abdd2e50604bfc1e42f",
       "c1b232367d8899f2d2cc56dfcb207f0aa0e11172d4f5639165d86b8ed9ea90c1",
       "e66f0a0568c3e5d9a62947cdefdafae9cfa2e36d1032e59c20de028220ea11eb",
       "74b1146dfab55510b7f4d12799b0bd0280be222089e83641ad1d724b6a6bbe92",
       "e8e09804d8c9cb1fb0fb3ad6a7d30b3d9001c276c942eab4ec9cdb2eaf914894",
       "7b8603b743c9d77d4fe6981aad7ae671372d2e6f5e9ba01ded5e2b35716dd0f4",
       "cdfca58fff1b7c1030f6b689a88a7ae5943517d47dc61fbab180cbb95c94b43b",
       "1841de664fd79297f7221e8da7b15522bba4e89433b1d4cb55dcd0ca94b19a5e",
       "02b4ad0ee8a846c133a268a0d7792d5c23ddc5cecaac9b12fd90a1a55f9b6580",
       "11e47713beaada686e5b160af213d93f61e19dc850dd9a2f8e2909505bf5bb0d",
       "7e77718fa9634482d0ed9c6f7c329bb36ea5ebdf2af3fd3465f028d5e2b51b95",
       "c5e6d0dd84ab692662e6abc817574922449be5e6e252d31970c8a369a627d81b",
       "dcd41043001e0bc7bf6b13f3e3105edb795c1e599c75fc1abb26a8281d73ecf2",
       "43e33e06d38b6b2120a60e02f3c950466ce4e0fc127c3fc67ecef64ee73c5d8e",
       "e61c314b8c553aa9c765751478ccb39a63adae035b1958b9425b61643c5c2248",
       "881f601566831a55ddd251a69f690c960052b959fd7374d992ea4d286ac390cc",
       "1b35164ff922bd235bb56751ee3ed3453bdf7144bbb22482a4418f1922324093",
       "9587be4da59ab9cbd27cafc206852cb99a6c1f961bfea95fc668aa27d56f008c",
       "935cb35bcf80fda64037036ce313cd1938cdbf241a0ab07a224589545a35022f",
       "e0e21f5dc39327909c6d0260be279c95e1384e5d7e823b3d4d2ed9f5eef6bcd1",
       "24f2b01e882a5ba0bf8d1359da57768d54fa93cc918db826fe75a57940d91002",
       "69b3763fb757434bcf23a13a1735242c6070e50d6ed9fa6b7936d95e5f0c11dd",
       "18868093e0406aff668acf18b5020078f726eda71a418ff9245d6469cdcfeea9",
       "f231586d0c2f184b9deddd2aeaea6973f43bc45ae1d1cbef96ea8b5ec918ad20",
       "55f29a1ad20c3b9f33cc1068aa62b98b6a705985aca631f0e81882f666999c37",
       "55277a3df232b02c8eb9f8e3ce0049e5c2f49278d7f5b536ffb24210b9e9598b",
       "adad1af000514d61c44ee3528d7bad1e34c7af87c2a804aa49456b2df3ce86a4",
       "389454ba1afa6f16e533d895a6b27abc3a1560daa4f6b1f71a8cda8884512aa3",
       "9784c8072cc9b2eac0c50ab19c5c649550cf5b3bc1848cd4125ea5a39f0a95cb",
       "07c19bb2d160c9a5e4a4ec40c16a70e78a8b26b489ae28782afc78d00ccb7571",
       "19956af3b5466d903dc754cb0e77b7e4e04bf7756ab821ae973d5d53def355c7",
       "65183f653f1fa0ca152d822699152953b546fcd8c16dac321a0cee9b586f265d",
       "792cd0c655b9bed1275fab00dd62a7f62b88a9fe9933b7defa3860167190f89c",
       "771185428e1292e7de2004a8a985fd2d0ab6e352b4572cd9a69a225304f8e12c",
       "7338fa41e115f8df26d76bcff041aa7741206be3aac834ee9dfe2bea0754e8f2",
       "03144cc7483b1de892b2fc7da0d52dd38530f283190abaae3d32ab28101a0efa",
       "223c09e5241c9290505c0e1aa84bbd8c67086a5e275e840e0ecd3c5878a42e90",
       "99d5a5d99615d560ef6193e5296df6f60426b275127931314af9fea418c5abda",
       "935425eef6f2878ef666c6da15cd2198160d96010fd4039b62b3163ae704c9f4",
       "f49bff5ec9cc11d0fb26ddb48e3c190834cc4ea2009d056b6447423e3c918548",
       "6fc1194b38f8bcda5709cdcac04300a1c3282a76cc5d4b88228832862cd86cd5",
       "a873c832bccbaabc5ae3b50deaa3543458c1d3cfdda2e0c42aa1024264fd48d8",
       "a1404df4627c6783d701f1ad07e952e4c1686039ba46b8a490023f6b017900f3",
       "b90060d2d0b7c46c514d5ee7a95bfd76b7da6239c15b5ff05d630520e8a469c3",
       "1e107e49bc0ad25a0bffbfa17e12c1d1010a3a97dd978d9f1e07bd40175bff87",
       "ba4313405561a938d6b9d4e0525090f52d444b4f7c40fc77f8907eb7df800365",
       "355c66967098349a22f9afba43bd89e45a62fbc2d102448eb3135d1e986c5215",
       "d38e69461aff0cb0da6679027a6061c783a35b49089ec21cfd1fe44a9c40e303",
       "9cb9b2750f570d5536af1edae72bf146d436e8cb1fd732787e4c24d9797aa652",
       "3fb0f33e59e629322cf2d3371cf69b088618360190aaad6ca938c9d84733e80e",
       "3d1a251eca615dd0482c2a8c628b2bdec327c9b1787e9deb29c65dfa4e4c00ea",
       "510885b0ba6fcc821dc5f76cbf27c7fa8da89f13566ce92026c3aa5302624f1d",
       "1b6808f3e6be35a7b21905a21a098bc1b7ddb21f5d9ccfd890c04cc4e1286223",
       "ce843268da0c9afe3b8dc46c95c87326f2b7f39bf27bf4bdacb02696cc0f8bbb",
       "ae18a5fbfcc6fea44cc1fdf2399faec36c9a30f7381e7182b1481231a47368ec",
       "4734c182125981d77a553e3c1ec41d04782ca98c9aa331db1223dcdff26ec304",
       "fd662e334d6069d99e19a50b571b66fdc8de51f1d780e8151124b1c2eae58351",
       "f76a4cacec277c394764d4a52f98f4c3c8e925075b609f9c406f7366caee1dfd",
       "dcc0dded44308544dbe657e16b997bbdc663e01e49f814aa22bd04904c897b89",
       "2e14daca4179c5f4104a28963a2d6ef4e9022ca7cb78073d0200fe61220eda65",
       "4bf49bbddac8d295e3a8354c38b70f026d24a046c706e688718e2e8bf8343970",
       "5a7ad07685f5c1b30d945872a2e5367d920a25057bacc89b3a6fc4c3f35871ca",
       "27f3b349d42532679dde27a69d765d313711d6763c5b4649c906f2f82b6ccb75",
       "02ae8b2fb04516f95a39c16b7c8cdb0c9734da3c1769dece00f2441c599a22f9",
       "3b5254ed4e1cbc3e33ec67703cbcada8177556b521509e422389e597386d1d15",
       "45d1e595e29f330eebfb8f49202a8b173da40faf364b0539120dbdc417617b43",
       "1b03ca43b4fb238ba211275b8cb1eabd18c1dd320af9e97a05f78c1a549ee7be",
       "6921a2288b0f68e13d92644bcf443d2008aca5769af98cac87f815fff58fe143",
       "c9a8c94ce37cef682bc2cc9b924197d45466e4da00f640d318077d31bccff33c",
       "bd47383fc8a4f0eee40021fffd8ccc612778fc14a45410ffc9ef3de1532eda7f",
       "1a7372cd5126bae147bacf5b74f1779df2120d45448231a07e14ed18e1a53390",
       "cc10554b793affe5fd15bd90ffd17eb616ceae1279a5fefab1262d88876b3477",
       "f36e7ebfe08003046a76a269fbbef6591294716861e9d8ea6214dcf3a47c7b80",
       "c3aaef572452f39b1103e9cca2d11781102717ad69ac4b20c09bd0b597465420",
       "0e5483acc28180fd4c1b15f097c7a39fa7f7fcbb2554253914c229debd111900",
       "2de37484c17d63c4b1146f98f3c4fc3cde0d69a9b5260020531deb5ad0ea9999",
       "328940bb4af76aa5f9c83543afe31993e2beab490ca9139f0c20590fb9b48c11",
       "3a603e065cdd1e26ef586ef65359f49c28401be8222437834bd27b9d43d20e4a",
       "1af34fa14e9f0087abe0d778855bdca3623e3416f2719ddb57557cd79ad92e71",
       "8be48d13541ddc7085e451f7e512f4cc0fa19042f3cb868b8c86993c23bac697",
       "0a99f941b0a65178f8245ec5825644688567cacfe8d0e12435ff93daf5dd8536",
       "8b138c7e3c8baa5e27191fe74c2cff180233634d6c6cdc0bd74d0f7930146618",
       "fa1896cb3c27755a9ee72e968d5ba18c0a8f77b0f9b84fe69aaef0b1b3615d39",
       "3fa7153103d8ef626642e9b7332d7bc502706748ff500c507641dd21c9830984",
       "ca4055f1f2bbfb389eee286e825be6fab75cfafaa53b9b1d014cb6273ae4a08d",
       "f3b6d891b36726c4ad43daeabffd9bfe316bbac223e6fbb5b396a8ac2e4d011c",
       "2e23d2322aa992879dc3fee742e773b04afc600102476694cc662b3b9fd86b6b",
       "14f99a0d2c5b5bc98da483d72ab52054c4132fca732f0cfd5f18de06a4ce46f2",
       "ea58b9733216a3365c9bdb5763320165a2195bc69bc97f0eb18e88025839494c",
       "c55f3712d187f9efaa2a21f57f2a6c8da795687ebdec1f39c61f0d41a2ae36d2",
       "0c9bc1d1eb59808ab3c03bec2b5f16ed2a4d73f650bdcfb657bc9323e54a951e",
       "6dee299eefb60a6f35a2e3c5ad86d09974d8a98f98048792e0610bd7c9ddcf72",
       "cc4f49a25142500e06dd1e5a4ca60c89a13f0194202b0a94841ba66057f7a6fa",
       "586fbee73f07aed4936a80e42afd5f7ec317f25702bb4f62d233e77168169a32",
       "0cc39514a5e10e782c5151a16c13cdf774a2c0956fa0f8fe83e6ce828136c0e3",
       "cfee775c11e8965a9fabd8b134b028d8962f5c6afac2fd8ccf245966cedc8fcd",
       "22a44627c24937c075b60b54852ba587f8af2b4cc556f482327689efd605bc2b",
       "fcbf77b197a87a63c00aa03420fcadff650e90a88048782d2b8034380b5dce24",
       "26e399a3637004e54b9b311010076e45da28494f632aba8c82840a5bffe19c59",
       "49451b8ff00b7329bcceeecf30578a311e68c49890a567a31db40dd34bca8cf5",
       "4b5c99decd1728b69713f2ba8d9419724524466db96df53b1246abbf0ddc84df",
       "5c414d2fe75d082474ee55f0d1dffaa9e6cf6c9c6faece0efe1033b6ec2db7ab",
       "8fd29258ee7879d1db2b9f525e0acabf0050876916a7552f77c764fab12b5cbb",
       "a2e116857bc205e824979e2cf279684ec87e178ef9e24cb3d4aaf6bfc0a6950f",
       "107f3f40da35eb50bfead9af74d3aae95853d4b9122297a266f8131797f24c22",
       "052308ee52ca76831ebab7f4f21a361a45a0baf5028a18b5a41ef6bb8aeed870",
       "dc5e7e55688bf5f42331920e9388b7b9bbfc38f187a2ccda23a249f35c744fa6",
       "59789d106086ed8d3046e90ca6311662e923879c53950da6d5377940ac6df3fe",
       "72ac4e5f081da48ffdc7a7a639b1d9236ea71f21573bab65b91fffbde7e8dd63",
       "a865c32975432ecfb0b276b3853df163c6a5bfb3111cdf7a3ea073cad014fc5a",
       "2a68c13e3c5387d3266dce0c71db84b89b0dde6c675a54d02dc4671abb596ad0",
       "60c31acbfbaea0fada62efc440f7f459da2ed64b4a7e16099aa1deccaff06222",
       "3fbdceb9a7689e3f962750013b044079a9e82bcd34719cdfbc9595718af3e4b5",
       "10b3b178432d74c76512b7b8e1d423f5ac5e8211d067d82d1c4abc91e42456ba",
       "b665fbfa9371800091acb66230c0e61e6bd0e95c8ce80077b5f3c5c8011f4409",
       "3c4d138aee3030018fa5d8d01f247afb6999a7e0019b75d12f8d4ad5904f0e93",
       "9a0ed0355b30913526d3168044702bc0eb9ec84cde3881e7b45891c8480fe0d9",
       "3e0154ca8b2ac86046a35de9f28037c15193cc6961bf0a8c01cd6100c28e2995",
       "7f720d4975cd447465da0bf826ddc24cb838d87c81ed317a3c9422240d7508e4",
       "a683c3c76f99dccd2979446c5185adf076e1cba90ea49311871fa8748031cb57",
       "39be52d9532276e09706756e634735fedfa0825f6ef14151625d51aec74c78b5",
       "bdcbacaf34780ef284581d896ce58119897bdec68dde112a749325e5c388fa3b",
       "0bf65264b94eee14f41be48a56bc994231b78aa9072d98f2d05af3c17de9f01a",
       "d7176cb59e0b92592098139d86e1ab67de9f8aef2807ba35f3655c3f483c9255",
       "6c40cab24056529de03a554e86030fab5660f4d9aba2c456a0d76b3fa234cb23",
       "61de43bf850aebaa33c2490888ac04310f22a5e3c8b34c63aba0936739ad2257",
       "f4119a1db587d430237af0a34780598aeb68d13ec45c8773fd40ee0e428622a3",
       "05d6907dcd522e2bb128c90ff7d6ca7d018fe35e2fd6a8bae63822b8db807657",
       "94ecf91c60e3f7bc09881d8ffdfdd203b1582e0b6cbd3dda0d6ea877c31b3be5",
       "e143bded3c76b593b3d8b0bd9bfc85f01b9ae672726959e0a348898503cc93b7",
       "c8076ebc0dcd5e9f7f2bcd65c773a38aba65a869eb6d7beebe674509f3452e55",
       "882095b4d7eb9b17466dabfd2fe3c2618e291bea27f993e70c14f4bc19177acb",
       "9d5480c8ce43c7be09e06c3c284c6a620a5996ffd559509bf0302a20439b9e01",
       "7ae4960b2d9c4ffc71c812a85fe5b9e65672c330b1564b0045c72d4b32f01a2d",
       "7e9280743caeb8026302f4d5acfc819faa44bdd4d286ae9b19d70c294c676b4e",
       "05388e80df24355332dee571085a9cf23ded76852873a40638714fc6fa145bba",
       "5413ee57ec8746109cdf6488ded9a0015351735a40c667d6e61a802480a7cf99",
       "3598cf5db0c5211d04da3a09c49d6024804c7fb9b28ad4952522d2df3f62db5b",
       "1dd2aa53208e6a8ac486bce234955fbdf6ea490b2e3cf4fd5197834a7599f55a",
       "e587e46ae42f74f3a752e27d6e4d5063906d346583ee5124caf97b75eaca6d4a",
       "3fe5780eccca7857b84592e087b83782db0c4c2e65476cae0cd9c3f746e6d1a3",
       "f6d6ec0a30717b99e65dd9b3ca0f992430efdd14d90576d44e6f8e4a855fef42",
       "54690293adae3fe198d75d43f6b03eff16b854bba7193d9602125ab0bbccffef",
       "4326e6ab32c70a01c6a111c8c6d6288485190183d8b89635e9657a7fa8689563",
       "363493dd8e1eb25c1b8e956968c4e0b8cc0ef6204f219703b315c4e81889e355",
       "3d608dc242c43a1e735eedc5b1c55decffc60dce3c9b8312d4ad99a840933fd3",
       "90ed82540856dc0ac141e22feb5c2d06896352cf3f678de2d096c230b1439b5c",
       "d8076ae8401862992badd84eaeac062b55ff77235509ffa6e4ffb190f6973df9",
       "0941c2d98346e51df26311b83fd35c09e6a04fee68b3c66f015ff715ee46b13b",
       "6a9af9e174ca5eedbc05b653bc1af6134dbd9703dc3d5f77f775d2854edfcb8f",
       "cd33d06919c3bfb266927dcba6a39cca2b973a6f8ad1fd488bee142fe7b68af5",
       "9555e8d4b399cf2d88f8ea27c109bea8beccaad6ab4522a9b89febf5af259901",
       "b4f4260d77be549a0d806f4ccc201b87922f13e134378a44a174736e3b5f598e",
       "a0d6a8ae0571e372352bfc94a4d8e233bc2e44a6d30a9d5b30d5be596b2d4a02",
       "772190d00777b351952999fc746f65e508229b2f05fa7c0a969afe7be7fc7006",
       "b38913c01ecfd540a0893434b438d84b060fec73bdfe98af7a0d0fc8e7fb0717",
       "b11a02376a9abbe3f1cead2000a6fc00f608fcb41b3ce7c0fd90e4109ab23580",
       "67df1c3f5e39f5ff2613ae14b28daa825a9ffd5ed0aeb95f146b2ec67137765e",
       "8f74761e4c5dd88178a5a9a59820852dd77507588a9fd0c61a3502a35815f717",
       "be2b0118fcfb97d7f27df4a9ed12178fe29a6e6fb6ff764d646cf576c9a36046",
       "9ee84a4b9d069bf07e6b0f014ee3bcbaf2bed0dcc24051820acde001a34bb9ee",
       "cc05b3538f68683b441b1bfa3ba498ae24bfc5b9d3413086c2bcacea0cd23f99",
       "da1661d609a7aeb7088dfc0133d8b34a484cef748d37fd62c30ac94258a88f79",
       "4f2606e539a2aa34787ab23b3dc3cd4d7512d01fae6f06e1014db32a0219bc22",
       "00c32f79f7a8e0791153349b460e880fec2d0e0092ebab85d7b941b6b49defe9",
       "8cb6cddddc6d801c99e938ef87998838e97074f31e9734088065e34c2a295b1e",
       "2f0cd2ef43419c90c38e700bee6d31455c4580b7dbde4e7d42897ef57df0fc19",
       "b5ee244f9473bdedf8b4fe820827cc31ae9e4e899fe248e0a46fa3d8c043b739",
       "647d63fae423a5d9aa0e265beb7301245653eb7bda02605b26c3a3177b1ceb1b",
       "b809fd5e8eebc6b5dc03b68acdd85876db92a858fe877e4e51adc7d017817348",
       "27bedfae0ebb209409a32f9d58e8ac53a1d487ba54057cf06f4287abf13192b7",
       "58addafb7fff949ca5c0af2542fa8c5a592d686a7c87046241ce2a2291885212",
       "42c5f584c00be75f5d4b313b4abdae55c2a75feb080dbcf2dcd2e51040ea0665",
       "73154ba95ec07e1269322228eef4d5f456e5bb189420369548c7af5ca2fc3e77",
       "b895682fef84752ed95f1177f8e28d3e416d6e9f635d1b61ab7880a91e52e3e9",
       "dd7c91216578d9962641e407183228ed7c507fbdf4d832d49961a859e0a0e43f",
       "9989c6b3bb5e188cfc27cab68a90ed376177354667556ac7ca4ffd3af9a323e7",
       "ff579a597d1269a26e862ed14f215cc7edd0fa6d0bbe248feea56c4c1784e15e",
       "aedcf4f9d565ef49a41a0d742b828d386e3c5928ceea957599cb87c049df4a22",
       "3cb5c03c18730cad923ba7bd4387fe51f1b250ece5a6d67f3f3f7ac3f4297762",
       "517a0d3e0623780f9c52caff9f61313ff436e083b10ae3808ba395161c53fa64",
       "31580afbe8607063b44cd754d2bf8e8ab5d15576853f961c79ac46571032bd5f",
       "67e98b20fdb0f48cb6aa069914173776fc76431599bc83facae2e8210ec5dcc1",
       "637f8287a10de42dcee5acc39c45a7274c96c03937759f829ebb7bcb9a8e2af9",
       "9026578cde5bb3400beedc74ef3d3767b7fb6ffc72c54ab84983e9860d0eae2d",
       "52a84dd0ef9af9d468f1f86c3cd363e6ae7d6a6bf34a5010c8c6caf5f283ee5b",
       "ed7400efe7abfb4d41d7fb67febba13b7f5d8ecf4b54c421f92b0869cbe804e4",
       "1ce042ec5608013f691866882a1ec839a58bb1eed277a0c627fce903403ac11d",
       "7f7553dd977c730c957f2cc307e9ac46944bdf68bb8c7d4c62fe3b2a00faa58b",
       "27492c83bf05dced285937f49b7026a94c9d517a45bc9da167dd5c0810333836",
       "955219150878bccebbef044d77ed7c44f9a2677ad3096313cb6583cecf5be8ff",
       "0e1cfc532bd0f4901f21dab98db56e77dd811e721757af2316dbce11d803950d",
       "65c9724444b7a080bda314827d01242ba957912034fdc470fe9bf8746058e02f",
       "1de6490794882910dd0317a69bfca0754b1db4ae7810f914baee0652cea4f5d1",
       "326a54dc130fb46050fadc706611b176ab07e404e720598b9e7e1ebff8e4f92e",
       "3ce903810d5327a1e71cf14e839957705be1e425abed09c8cea26f4bfce265c7",
       "df8b679297e5e64d6efff354307b9a4b05faad97fb5311f6338fbd49fe85c7a4",
       "241bd1186f4539ce2637507d429b9dacb236850d8ea21fd2ad49ec77f9521cbd",
       "c78da7dc6e2ef598b2db0a3443037d8e013806d2361d818ad62423c28dcc9d25",
       "5ac618c50e48a97e61fab787293aa11ef63aa694f084d3649b8faa4fabad1822",
       "27a476472f68b7523769f48cb6f667062d085aaecb26440d1e9bc1937d292a5e",
       "30faf97e76931e509230750148c5abf4e3892573894ec9ac212cd1aea036ba79",
       "daaa0aa3d7105101d25fa2fd2d43a95a49e3f169c39ffebacb63f4a657318b4a",
       "b3a71565a3b7c2ce51ec92c8b2ec18e61416099b30ab3238fb57154ea79eb65f",
       "558c33e44d55bfbe627bbf3ac1220b96c9095627c732cbc84efb77457ffa56c9",
       "da0ac493ee7cec5f53da5c8f43125ebb89f2eed1edb6676f4d515dca29201ae9",
       "74f879abed3323c6ec9207cbbf1e3f69fd57791c0b2cb5054bb50b909373d82f",
       "0e81e6cdfe0991efc47aa97ae8400f65850584be651d3c6f79d250d63c82c047",
       "46844ba32db34f18afcd71eccdb092d2fd47f5e4b0f6aeef7fd0bc7f92803c0c",
       "8e1e7c5a3a3debb784903db11017b53b892d051ff30ccc0053393b3e197b275d",
       "cb04858f93083e078c68d2be1c5d0d5de9dc80a9401967fce0fe3380830c0aa6",
       "dda49f5b59fe3df6e27292dc9797e822e7412743b194e4aec821468b07e768d4",
       "8b8de9e18fd620b2ab7f733ac475d16b8318a6fc60fa9fabfbf35cd313a1dcd7",
       "9edc51e574396db508d23fc6feabdf3d478436ff7a503ddae0d7560a83cda05e",
       "d2c737c5c42c35b8fdaea1428aed73b671c7b06e6a8091fa300c48752fc40613",
       "41772f0faf2ebe54bc93a9004e7448693099293609c47d46fb310f676b451405",
       "98a8a10a177a442c28311801cf7d4a148493d7ec50f259e69dd78b58faa7bd83",
       "98e81cb776c352c05680f84c7edb9e6b7ac58fff11d70ad5deab4d2b1e826ec2",
       "603c7beead358f4fef36c47438b2602511e193f54fbe7584a1d8d565097bfd09",
       "24424faec417edc676eac4bd0c70d228f90ff8cb76791557595057846e720d23",
       "50c3f49e04d16a7f81f9bbf999628c74e0f2305834c7791152d437440636f6c4",
       "f8ec26927e0805fa2630cf5fd50367cfee9606a16cabfccb12cee33cca75906d",
       "5d1942579cbe44af694c6098650c8e3b15ccbc0bc19df9962364be2455bc3161",
       "f1b828bc1933161ad4e56d56aea78c49715c57f02a6c1f92bb0f46244fc8e496",
       "79bdc3dbfe364a5f0f6482cb8ce241e2320c02ea178661f6d52aac464b076585",
       "451a86fa6ad056dc0d46786cc34ade3a93e15bd6604ee2c3ad14f5f0ada1e342",
       "1ec131c74b4bd1c9495683a4c5d9a66ad6fa0ae0d51b81a72c99a9ab925bc48f",
       "a23f6f7917cd45e6e94a47254427813a9415efa38eb1e9ba2b8247271693f7ba",
       "a65079e6faa82aa0e955bf243b8a2605536222cb61f3a23262ef22c5738af065",
       "b57f0e4ee29823875fbfebe984569333cd7e893d4d6b9fa8dbd149b4884885f8",
       "3305c1e6e697ea5068f095a1cb7abaead58287a406446769039c0a5509347d87",
       "c9d1b267e060bf30942f9209ede5ccd8464b9be1634c506b3ea3deee51f0e2af",
       "e63228a4358849997a2eae703ece2a96aa3966ccdcdc036e125a4f1999abb597",
       "b05cf2a8ef428b1a031fc546837fd81d748f708bca241671d835c4aa9434be5a",
       "d77d55d60c07fcaba3d3c02e18d92081fa14f46c82b3ac11b1ea2facc6645b3f",
       "b30b74fb674263f708217d8a83c80ee25b067bdd07c4c372e128b00231775a89",
       "bebd94520387ff656c12f20f499464fdc2422dbc72547e037f10ee027a73e0ae",
       "6aa6bf9ab499c9ea2df1d1f38aac71f64bdc7e0ada04881f957f1a67978729d7",
       "52faeb6149be70186b3233c6134fa45a1b46952012251d2f0880a3272acbc5da",
       "cf5179069b018fe3a798297a85cb9b2b45b4d5fdf17a7e3b032440622115c49a",
       "723fd047ba4b737c3d7876206fba43ce0a1b7e36be57173f81ef530829e0ba65",
       "222919119f6ed70d76ffa2ad73578f0dbc8531c1fdfb0231acdf44208496a253",
       "c01806950b4a7018ffaaf0856b05793e7a442955bad0e0ed0454cbd4d5d766c4",
       "573fa3bb139ade5dfecddaf206d65a7fc4d9374f312cf7d6cdf8c35f9ecd07f7",
       "ab1b8600e1ee8583c55eb36180518b26b8ef41313ab0dc8e505c98af14c01abb",
       "b57a4bf2236864020e12a1e66b0f5f01b4c41ea65d17b6cc625e540a4216c397",
       "56ceb8afb55a184a888cc840ec70d6f69b37279c40a3a5e912208bfaa79529af",
       "485d7d47e20e14f3755efb4e7953cd6d2b3a3844aaf7107f0d2b4b4bd9105506",
       "471e56740c0c8f5a3120d7bfc272518dffa5497d5306a002679518ea15b9b836",
       "0fc9e7ddc17fae9cba3c230143f68b9afce78c907a329f5b2fdb877dbf9978b4",
       "b94b9929be2d0edc98dfefe07e6e43fbc2ae862c434cd535189e39e008205649",
       "01d7ae627d46edd84f0733e4b1ea01040d1f92f73d220a9ebf70c1e3ecb9b5ca",
       "e16e0738832876046dd38cf89230fd4c54ad33468706b1caba4334ce3ff25091",
       "0ba5a36ab7151a38df4f3c20226c3c5365d6520c07230e41b9fdbf64120c5c1d",
       "c494d5a5748a922dd6e64aff854a74f53109af3908069f4b298d1ca064fc47e4",
       "aa6ca8fbab543f7fb89c999d6357c529e0ca6c9ac2770f1022b0502cfe98da9b",
       "b187bdc782286c5d36fb79efe1266fb7c2c776f39f4f3a9efe577da6f0bdd4e1",
       "05f829751e74f376afd1fd34f40adb0eeca7554ca8e5a2e400a5083f325c0509",
       "70a59a9ee48713649472e1568650152f2226c6c68b0b5ee2a7dd5c1c70624ad1",
       "1df20d8942446023ac28ba8e381733182fcef2942b3f725ee6a0dbe59b4bdcf3",
       "7bcec902c00e869c0ff9537e389bc54b22a8bb35680a4887ee2baf9e375d2f94",
       "aa3a964526898090582b9250a729a23adda12bda3f38daf99ca3fafd4191b18b",
       "0b64dfd19b52da892bd8a26924bd2f2f139e6b7f5e1b3d4495e050553c31a575",
       "fd08e714a29bc89f4da676257d3392b79a5bd18b556521c5d462f111b60f3465",
       "9f96a8856c41622a9261cdde2ef1fbd72e9a3d16dc95a27fbcd9d6cddbb57c32",
       "c95074dc68a4939afbedd0fc490ee68c245418dc9fec3b190555d32d127223f0",
       "898ca0cdf64af3872631844cb7160f818b26075b8c66f1d6cd0ad9dc3eda0a24",
       "5c1ecf96d09d04141d62a3f840b4d5fa49734caf025fcb5ee4a30db155f4fa91",
       "7e0c9ee7c2c768dccf0372bd173dd3705808453a6badf546888e46ee84ed24c0",
       "7740271c5f6b5468bb3961481725428b5d051459943a9f0fe72eba91970c4183",
       "15db117311cf957541e0ec6747ffb45db95dfc70b245476a60a8cf5b2f17cfe1",
       "b3016c4c4418702a7f8cfac50575518496f13d2c6e4b46f2751edc3204ce60cd",
       "dd5ada285d33ec4f9e4d84255ce4193f103e5cd6421ef87f3f702ef754e0725b",
       "e09cf3ec8323613f71e57bac2145627c49b6164a7dca0adfdb59c658b51816bc",
       "63e0c5dc6fb16f963fbe9f0efec426a6bcd4d32bb1154292b142646a7692b507",
       "229077a5e29faf1d36557d0153461081379b3881c52506e5c884b201f5b6c8fe",
       "148d1a9b246eff9f6d9315ec1d5f27365571bd49b4d26150ef8a5ed37b88988d",
       "0639538cc4f5dc7b20f6943787c33758e2119bd9bbe09b37a18b057da890246b",
       "fc0a5aa48a0b062fb33a2c9adc71b2584b0eabe250f57686c65501d79cf01936",
       "824f00373658661ad48c8cf2bebe244b7374ec098f9d0e5842a98d864fee5d86",
       "cbe73ae64ac3e0be07ddc3b05720ce6fdee76a8105b5fbb8a7b9a8a7a4632ee4",
       "f80b2c388fdb7bea3688c1cdde5bb3315e6dbf185dc5622fcc22e6e0aaa1567a",
       "389286a0241bdccdca7507f09a55f8ba888fd778302df69f65f057ea7e2ae1a4",
       "aafbed8e4e83f369886a9b2a05a5c85a0afe3ba869ef49b91344173883605278",
       "de0981f529331043997b11d657742edb3ac04e79c482e3c05c93d1e4d76992ad",
       "b98e90f9906a993acf833f3a18cb0d4b0b800f3ee50ef80929c9949ce086b18c",
       "17ef915e8141452fdf94856386837585623029643862e539e514cd07f6d8fbec",
       "7ffba6a979821b60c5e344c5efcf72ee311ad52efed060387276a8d22d5ec450",
       "a89d7a9f48629467e59270889513249bd4e9662dc5b0faa34dda96f1a2d03d37",
       "741d4909cb7da167e7e28791ef7599b36178c5ef7529c267be18329d8e4abb36",
       "24aa7d5f29c9b1ad6a49963312667f9d0dec27358e751c16b803fd39bb0f0b6e",
       "e69a46c823dd2f79687c20dcea439374699ac141cab2517a320eebda89fab1c5",
       "66fe5f732ac72da76f804ff3582bcd34625cda38fc89aa1d7f1ad0d181c3bf52",
       "fd0ffec318a25197d853fcf94b3a81ba58e6c5e1468970c67b24509925a5a199",
       "7cfe87c51a348da324db06e33377c4efdeb64a06481d1425d8ce0b9a28ab9bff",
       "9d5c6637b2d30f80d68c12848a45df1135c03b9e60bef6838917a5c6c80b4e79",
       "b32a7361665d77f30b29bb36384f390e87e0a66c81bb5cbbf43da309e774d7cc",
       "647e928c081855b45b3a0a555a4929ce33add83725f2284543a889400cb099d2",
       "2bc75e190b6568ae3160f704d2704f05a19a10a00c76ab8b161b1cd25b88607a",
       "f983841cc5411f5469e672389ca1f0d1adeacc36e414c5c5591bd00b765fa149",
       "f7f024a46adf520ca7c9fd4f11eb65aaf0d859e27abc9049e10c558b8e42043f",
       "6b7bb53190f0f4124ff45c7bc7e3f073432f6d49be23f3c05b4df79335115975",
       "3cb1718b2d9bfedc2ac123a1f6c4d66cd7d1fcbe2e3ca8c072a788a0742e0c3d",
       "c2879e7a35015115fc593c4db2ae546d02cdb7a059e1d23b4ee67c398a6d3812",
       "f5f22052a21b0173be061d5f9dcac9e8d94cdabda7ce8a68173e3de7b8ff5f64",
       "a9354b56d944840602bffaae36c30dca3cfc51ec52524733a4c4ffa696bc702b",
       "e75464543461efe70637cbda1b6fac4c9662a6a0188d1fcb4f349dc028045ab6",
       "dba30707b3acb21baf38e1e36b5650e94e48bbac56cb55c3190ad19cc441e12f",
       "f22f32947e0ba087c3bd2d3525b8c48a29569e6a8ee34a92b54758474b4667d7",
       "7a9a0abd81de2f55ff7ef07c512673cfa17c9e816e94412787ac4414945950b4",
       "8aeaa2fe447c8476f50a34f60f20eaee2e5e1748c75fe778bbff491683eb0c0c",
       "0aae3613d7f39a60880839a267261a2ef95ce857a82547e5cd720dc15dc449e0",
       "79b6061ab5240584244645c4da7c1c67902df8238ac2f1142486149b39a6f236",
       "21146b39e575a3f3cbf76768c64a6b21c542ef7ab903a4a6aeb7cd1b36c944e3",
       "587bf66c2756b43dee5d3cb4cc99cdee972cc9f1e70a806d6e043d74330666ba",
       "e37a4006fd7f75d543f987787998ec8484eed01a1307f6627944403c3f326c22",
       "3c526174255e02170ed75987833d38138761aaba0323c066822273fc892aa94f",
       "fc1cf16ebee7545bdfd3fcda9d21b75d34802276b6104f7584fe480300065d48",
       "155232d3612580af6cb727b85a8499c4bdfd191800dbc843e02bd7bd4c975632",
       "a51c8cafada19b69eee6c5e91de67fd59545b85140703e4b7ffceebc2d352488",
       "ef46ce9b14884e5491ffd233b7e38af3ba20b67d994779cadefd338ef2603e1f",
       "403ea63fc8ea2d33a504c324b64f5b8b39b22012a25347e9ad61f74e8f83fd59",
       "5aa984467e7fe84552503c52b3fdbf556d6f697b08a73b385fcc10f017d44f56",
       "d54cecf13327ae4fbb3b0e17765ddf354c7b36c366b728139698b99277d06d7d",
       "f2b39ed056652ed12ff6f6df990c8292157e01edb388a1ad12d625fc7577f6c7",
       "501341a733c0924323b03bb48dcfb28ceb3b797987946e3cf50abdd0f425207c",
       "96f4e9097807563e9d1414cd8009fd08075ac151b21e7f752e7ecd50293ebd5e",
       "5370042e02b0e6a2eaff28ea8d9f20a43e592b13de1e01b03c2cb57dd8b2ec3c",
       "9ca4815097969fd418e01128de26b349fe0841d932b9c983f8ffb84ee3a356ec",
       "cd718696b4bf6d145b737a17eb474a1e6998f9448ace904e23955d54268fddc9",
       "eb870a74a54d2eef7567c7ac01c5785472bb18d0fc968697d3a1312f3eedd62d",
       "175c3abcaff5b64611452d801b2841d0d8d0172da93aeb62fed981f2a0952e30",
       "fe24c2b2706b5f76aebb6bc7209e65ab45e9873eff406db6574c34a5aedde49d",
       "11743210db70427f12e0f5d6383e25b27251359a38f0840e8ffd5f4993df6b73",
       "3b9a1b466018a34248d21928d6b5c7d75ebc1e0f811388f265d670ec2fffba12",
       "2906c4fbdf5211ce22faae50b70f39831c6d1a1ffa34f368883f3aca641c4b45",
       "c47322bb9fd2aead93457959d8233ac951b54dd72f1a039934bf03e0b3394a5c",
       "07be6007e65041b11a3858f99400c92e005af4a8f33c54d99acf849c7af50d68",
       "e9069dc0554300d8c93a34da51041cf3971d23012bd931d5e04ddb90e76b26e7",
       "8af3ed0098984c51f5895f8229a40e0b11f33e87dd9b37e0bac898ea3e8b4ee7",
       "4532a28a1e7d39e955c04ec7df0357ca1902733c828a4f50e83cdf6beff04006",
       "369ab4316ae27291eea389ddec1cdc06d8d3f0fa97a01fd3ec94977dc3e79d29",
       "cb71b52958e902333b949873c7ef1a374dcee9a70b72aee4bd832b3c2c8938ff",
       "f0be5d6c981e1a4af305553564608cd14e56a03e9ae4c1c1c685af32f2c1836b",
       "414bce7c276ab3c16825fd642627c814c6657a74edb3e06891132e73bf8e4f7f",
       "958d6099abe243bbce0652093cf2da3b1ca4a61b0374c1d6f0e067c479e27700",
       "ac75a66401decebefa33d228c364733cb9b161bd7f96cdd525ac46d01024491f",
       "8630dc27290adada3d99dd88a6d1578ad65ba839075833f18d66cd856a5def4c",
       "01314acf91746543ccb0c92d6be2b47389722e1280274ed6e795edaff10701b8",
       "e03165c858bb06b03a5bfe234e625856f42b41235a45c071b7d2c3958ed8c6b8",
       "8bd48dfb21bdc25ec204a2d1a53700dc1942031b42089d4c3543abe2c313d686",
       "4b7d1d03e72e24ba68b27874b1075ac319c8328394b35f33c1f55def0807c862",
       "503c96eb013eba5dc3fc4d61d14209f89b1da2beaccc3b67616f56515b7966dd",
       "167504acf7e9a92327b10aa4061a6ee6a1f5c34c3b837596c31fe0b884a0b639",
       "c24ca800b3de89836f4d87d6c8e1ba1bda6a0f3a3a8cd5261673985ad94fb016",
       "b6cff40ceee4c182551c97a66df7751bb2172e906e0958ac12758b33e2be0e54",
       "2103d48ff66081889c0a2b1bf46ca61e11a0ee7b13b393ec19f7ce614b619ae5",
       "44cb822603c7cdb207c4b1879e6deed73f0d2d43ab5d33d675fab3539049cd47",
       "808a15fbe559b96efc74de6b0c0425eb9b335fa89e8d2a088bfaa7460cebcae1",
       "d60b4d335f651f346cb6df4d149cb623cf48dac2417af11a61729a15fd6a39dd",
       "d8a9e303b4dd5c24ece15392b183d683c2e057d3981e515d31221a925671d694",
       "a37e3773569fedd81dadb95a6ee4537485d01ef344457852412fb48988e25e32",
       "b38e513ece107fc0609717bfabcbcd1f941ff6d703dc38b9dc21730f4b7822ee",
       "272bf6ce578bb2d1acdb751febf02699afe127ed2ba58b4150aa13b3b5f34e05",
       "104546002f9fc0a76a058073ac932f90b776e2864518f96dd929d57f5aa987a0",
       "3d05ec1c70a12ad1af04075471acd2428e4fe14c0c6e6458e5978d1b820a0790",
       "340fcdfb007188a7b12392cf0888a92c34e883d29f7befb0f76caf86b0966b91",
       "e9b8bd3777dbfd83119301a4d8abe95cb5c227cc15620c6f497c96a70609bafc",
       "e9f93527cc85c5dad5ec19aa17de21aebb4799bcf5389c30219c6a3d711b2efb",
       "5ef3c15129cd6d2a5cd351d474dad6f26232ceec0c929e1924d4108a71c27292",
       "b5f9f2f8b1bbb1dac93e989507b057b2164e7029e29393b3393005a8206253b0",
       "d0685fbf0b2ea9cafa921b8fe8732f6947c57b097e0a377cd93ee3840045d911",
       "cf0e8f464ac2e0f05cff3a24d7d51f4af098ccbaf44e2777da4d0bfa282efad9",
       "bf007c2cc7b6e88505545d41ec2c797958f7407268e1eac1f7c69be9ff98db15",
       "ae17be3c4c419f95564643f9849987ae56bab493547b126bfbbe8151d1047227",
       "335432077c01bb75d1b1c61a9f6ce4c1046425a263daad4f2f4749e79afba284",
       "483b58287c59c5cfa68f166d55541f127b7387d5d0ebc87ae0fe2b8ff0f681d4",
       "3c9b063061081886557d4ff0cc15b069d6d13253f0f9524e4d2c94cef7147a98",
       "6c35bc697979736dc378dfc70b3ba533652f13a6bc54ff25b04e99223c32934c",
       "adae858673d8ee365b9c67b22ce4f9acbef0054f5dd5ce84ee342ffb33f7efb9",
       "16068608302944c9c4ef10c9b4bbcfb94d74b21d156b3f35e1282de88d3640b7",
       "2751822ea389341531d9350bf25ae40a6757310a075c0a83de705c5fc7d4b1be",
       "e8e0ddbe0669b429c69167443987408a5d0abf8dfddfa9995131e96b7036b464",
       "7df7c58c88c09f646a07a33a13e06315b6a8af8dea9b0579d0fbf9c1161d0ac9",
       "bb4d8a3e5cf0889750a56118d5caf304f0476d747309d814f964e94315473402",
       "3219c8b49132efabad6c9fad69e735d57cb2284d87f5001ed582adcc5c84709c",
       "80d91b9d437be0dd9017c8be120168f13dbd2df01f039b638c5f98a3364e51e6",
       "59d6b81e809789eb3404cab5317017037d2a791e86e1efbcee9f685151efc16d",
       "f77454b9c9751c0a2de3b4a04d1a9169f91af2089206690c6f3f8a0349340fba",
       "66cf5f464aa25dc6aaa456900cd142df0c0d54dafcaad16a71f05015e670d018",
       "432e68c10b4f60775d31c8aecddb251c770fca8fbada4b36031ca1b8faa63a92",
       "cf5a4664cc1de15bb4bc7617eb1055975ea7df056243add73187d447e95858ea",
       "07926dca1b5b05a734e8cf35383751913f50b606f6430d6e834afc93e9cdca03",
       "bc333407a7d8cf2db568d7a24c8efa11ae02be0e8b9ba7b737fff198a3e84385",
       "b07d9190b527438df688677fc7285244eca8ac7f1ddb3a77e0ddc2b85e27a87e",
       "dae30549f93b62f0435fc049f6fe2d8d920b1d8c11d1b3442a59a7e34cebc5a3",
       "69193cbca360165528d1dcc7d3b77857df0c3a6348127754c8fe86a171fc0c68",
       "b3950dfc0740eac095e2bf126fe000510ce1e842a3f14b6b5212a19cc2ea7a45",
       "c36d78ea2c5fa19eab0f78a9f054f0fcc5eaf9310ed5991678ccb456da1b416e",
       "9028e04187c483c0a06efceff5f888c46db20c92b6e4eae4a395f5b21f6004c5",
       "188e032676193e319e7d8d0af0a0c64b1a6efe45451a1f466e5ca03dd61c4e76",
       "12cb0d32111ef1a817d8164b0422eaa377c3828c6a89c356c8d1b39db933a82a",
       "404f52a55cb02c6e9f2b198cd2fef3bae27edb8383e86659c080f44790f509d2",
       "6c1c44f92b1c6990b07ceb4c0e1ef519825d5fc1568e97c91bd69fd753d621cc",
       "0de53ac47cbf8aea916688a7c87c8978b7dffbc1613e6391022d0aeaef224d92",
       "5a6e3e2bd2e73db96cabac6a0e86427cd5d55237570e2bfb0176cc0d27e43c41",
       "e7fccb7498e0143118b5be66056033f7e1fb240911995dbc1b74778c49b521bf",
       "3e79d830739239f3e688657035aadfe486345f6fb20ca3072c6df840212d38e0",
       "09e11d1887a6d8aa0dfbdce176b59e1148a9ecba57868420d5a512be8a9368f6",
       "b99682daf888c15a005177613eb73bac75dada9053fec957bff01069481cf26a",
       "8904917977283625cb5050d6545110a4246ab016493037117efda4cdef19ed25",
       "e7319e4615b09f6e21e2b294356c1aa15076c3f7ad03f927a771a6977da6cd2e",
       "9c7b41e28f4114c45f267facf78236993bde32b7eb32eb098a34050e647eb041",
       "9187567f2d593f5ad1a058ba637d7fe558176f4378016a55707709348c4a2f95",
       "6678c7031e9a4d452a41a4af07ddc3e9c625d42a7bf0261630a2b4a43b120db2",
       "52ccd6a32b78e333c1d7d5ba06360a39d22e64ef0fa36691f64b8d796e8ee5cc",
       "ec209c3cf55a147d717d504c3bb8f5973073a3ce68dd8b4053a023ee89288247",
       "5b15a0d236d1d7c17bdbfcffb5212da75ee0620926d36922c59172c22d2c8ea5",
       "a4c9b263593aa39f6ff6e4ca075820fced3ac1d51958c774687c28b08866f008",
       "7a3a185f168a3fa650c14c90c03c872c5b73aca7295ff714f1b1fa986c0bb499",
       "064bde96c99ed83c4e3963908d8832fab6839406c200243ed13678fce975bbc1",
       "c954b3629bce086c13bfcc33eda81f4d257d187b03f394cdbb573ad321c38f8b",
       "c370dcd29112950ee1dd76e7d9f92fe9319ed6a3edc4c003b33fb7f58ab9914c",
       "47ac18dc1deebb7cc6ad51ae79397c891354bcaa0f299b00273f0fdcfb58295a",
       "5fd7c390623fc9f8507cb2471697e4c00295b9a06b644479ed4e88b3e34b0d22",
       "a988480671848cacf27c9d13e8198e00d33bbd1d3bfb1372f45941883df53d23",
       "db82ce62023f68ec0085656ec1e35db05ced81e931e6636820530b200f8ad6c5",
       "7f5ec9a80871d44dbd57571fb6296801e0ed162d1035da0a820055db152d67e0",
       "37af2607a871af312d83e7196cce3c06d4c95f7d1c4a596694a02987b7ccba22",
       "723e3c2007760698ae90cdf0fe40dc33238a184dac2ffb27932a3a10506ca2ed",
       "23ec771d987d50570936398fc9a163f3bd8aba2f076dabd2dc8624b838cade9b",
       "8b996bae64f2a05907389a278bd41734c40f9a1f0626313597fdfca9c033bc4a",
       "b5f0bd197df03ceb04d13da2c352b0e4cfc7ad16b13bc29f2ab2b5b33f6f7e8f",
       "91ea10951fcf532c48e00dbf5e6ea3daf8017e32f2405d3dbfd96cb2000711e8",
       "c2c36399dc20477ddd33ff53bfc03e4246bd539e819aaa82b80caca59bb216fb",
       "69aab5e276ecd5a43d0bc22ab8e83f3cb15e4bf86c7dcf0fb8502e3299ce0298",
       "6c053809414f247d6592403b2909a9c8899a85a8a61954a21223502c79e5cfe4",
       "c62f63317a0cd9226feb2f26fc1c0b4bdf3ae59bbfcddf043cf539593712fd09",
       "7189676ca36e93cb591e4dab0f38d46ec51564502be7c4cb69c5167644c0a821",
       "7ffce40a3418e1d191e18897e3d7da0e63eaf0354d5d717ca71ca31c3b479411",
       "cada9586a8595ffd9785ebdb4b24fb9082f8dbe67d5b9cb7d99eede52f92dbdd",
       "736be61e5e78ba6c072c71afd1484ef21a889415bc6e78b8289bea7aa566dff6",
       "8b54a8dc9db875fb1ca6e5b1e70387b58dbc22a30f3c3e9d7e09751f60675d70",
       "71666d808c98ce242fe8f2145c0f57493edb609d58da6754b721abcfa4520935",
       "7b6395631eacd443ebcd0b4ae472c0fc267b770f09b012c235321c6219cbf7d1",
       "67a421100fba8512f43a1ad425097c60bca3d895dbb969732f7077f76c974eee",
       "c586506b0d2ddd19cd6875aa61e00fe9baa86452438e21f26350ded5473ad7b3",
       "4b217ee3183504029a1bf49dd5b4dca3569b61e787c0dd8362a288a1375008a2",
       "59c485bf9176c40be9758dc1f0f3e5ab8a521c92e4085201414bef5ce4f9461a",
       "f46cb934c28ef7890e5a6e62c3fe8a97256851fdcfe18ae93532b96e9f53c3b4",
       "cd3f1abc6b5104b6a0d1ffd65fe2613f9c50ec67dd4ac428ab26abe78211503d",
       "75efb950012bf44cf4ddf5c90c90f88d075e2bbecb8571d66c917039fb4d8b7a",
       "f2cd7424fee3e244b5768df8a47123918cfa3a52de4e303cbd1a665765504d5c",
       "586ceb2bb304e8bba3aee114234d6b56b58b68c76d4d9d8538d425205aed480b",
       "07d81a319d2da13bee1dece60c382d30098793b3f9d99b1867ccb81ecba68e07",
       "5db86a1f68234e59a28b40ec3404787514cd7828fa4e3de2a14e905c71a36d81",
       "e7e5bc1c2f72b78503cd27380b47fd74e25306a14c425fcbd40ba3e25475eea4",
       "51164bd2fbe857e5e9b9e249f4a15565ab4d6df25c76f51803435a21efe5610c",
       "6823d6fac41f223c58bef10aa529729e32fd726cd5a2b580fed5c86486259269",
       "a87d4d369027f6af5eb481720dad7fbc6831a2f45b93655ad3d8109b7b45ac48",
       "1209491c36337bf7b3bb1c3d4683e526700b33a301452f55039130cbc9c2c74f",
       "eac24ff9dd7dfaee271ca0afc88eac5ddcd2c4519c7b43323341205432c68a24",
       "bba2cd4419c4344bfc401f2bd9cd0186ee9b9e5162ea5ca3e256b73e2f16e0a8",
       "2150166e1391c793d365a5bdd145b0a13e994edf721418d3f06433dcbabd02ff",
       "35461c53a0f62081708c291c4e4d20ec56b17d715bba497aa9260d1d6387e44a",
       "78716aee8a959856797780eb3f3cb61c27892caec46fbe5c3adfa45db6c93a44",
       "f88b479dbcf97b617e5448f0cf42afb95d9dfd394cb433e80b9273192c88868c",
       "16285525863c481c352136235b3f2f6dc724f433b0d21e7d809689a8f5d92051",
       "cc8632fe5c4c111f9e0c2b326dbf99e169d41b08d8da74d9ab9f46d1f36843e8",
       "93df0ec015ece8b3c74331916e39873d3b871342adce766eb37d6d827e487ab8",
       "511a10de996d47f81c9cf7a262d205ff43f5ed1e0916f3793b321e420c8b107b",
       "f672f312d4696d0261424586c96420efed3c0399076e0ace913c9c8e65afdea7",
       "b9eaf14791f57c4b7f853986d96d76935cb473432f86fcf3b29d5305c19f4b77",
       "617e99481bcd8f78b20c612082a3c9beac3a038ef9807c88da1dadfd8f44c88d",
       "9903d1524f767bb6483912d930ce7a0ab5e900c566e22e09c0f4bcbf98a64133",
       "cfb1ef623420866bebdba99b7566f7c864e42831472a34f9e08d8989d7186084",
       "833083c0d9ef4a8f9488d355718dc5499c6247b5d9b12622d736bdb99cf1447a",
       "89730bd22092eaf2219cf12b1cbc380a274d45c1f21886a0f896cdf19ebe8a6a",
       "9fd1c3ca606cb779928ab2ca26f81deff134deee045a5daf57f7b37135e89914",
       "1d0882d16318ccfb092cf59bfea8e2d10b7f5ebcafc0ea53f432131c095d8d28",
       "14eb2cd8f9f26283ef3b6c8a634f2227ac195073ac914b2a8f1de476b97f79fe",
       "81e679265206efb9bd30af995d38cf93272ad963c0d3b131b507b74dba00b8ad",
       "381e07b338d3da12441b35fed97039d10d49d099781b2f7002798608eba8f324",
       "a226224d5a2e0405590837ceef0177fe70df0bd2a4adbbc3306bb2a742276ad5",
       "ff22b37cd2fe5da34cf24775b4028a081cbcd4504b7e9b2be4bf561c99815744",
       "b0bd9b211618811daa97dde7c438d960c3ddaa02e336fdd853fb56970bdbd0d0",
       "594d333bf60e1054d79a07ee33d369aea0a12bd5ba5c7d979089f19cd35bbbb8",
       "70c32c8abd00f008f5b10a05c3c47b3f4997fcedba2413dd836f9c0c92c5e346",
       "b84a2d8032545edbc2ae981ab5a17ec5e6fa6eea973d5697627e873a575f3fee",
       "89ea34b1b1f8d43966ebeee4987ad21ed9c60ff53181114080bcb5af6b696f62",
       "34b31abbaebf8d1f4372f630bdce3b68e043d975d4876fe442141e958ddfedfd",
       "0f4a00a5d0001380f320303a48500c7315366ccf725f79e8b95b93a8e8a4675c",
       "41abc71e371c997b3a2581114538ba317e212cf8d91b6a78ffcd4d54095ed2a1",
       "abae5f8d0e39a607ce353f59acb2cd950c861db348ce05a11124ca9a05565307",
       "d83337d4f6f007141424e191d736ce99eb9c107131019694a0a1a728d8e9159e",
       "740b4462bed4c952a53f2aa8afc15db732681b641ed20e4bed67b82b64e3f9a2",
       "7b63c7b4cdb2ea023189c66b90ea1f521e57dd6bec9cda4a4c2e4abd74ef5921",
       "57ee26ed8de5da14933e56c4780babcb717d6798c5c953b95881b298655436a8",
       "cce05e2cb0c1cbf976f7a12d85e44b5eb7c7b7587eb8f2e0c890fe5e6778d4e8",
       "8f223fe86a6badf3ca5ff120f282cb9e2cc8500f140804ef5447b34d4307f702",
       "42503c2cd7094235e67d40582702878371bc5d92a3726ffa8559f0c3f764acad",
       "1f3ddb9b3d49c4eeb80d6b619311625238c631f9b4e43eb2bba4ce73a00a2c51",
       "7713b4281e765fc1e85b0047b93b927ae6f5b445a744bfccd27fa6cd8fc8f939",
       "acf8fafc15b12aadeb7152335254277a22d599036c5c49b95c180865ac7f983f",
       "00e412515fef90264d36d3ec050cd5c83d7e1da6d9c181b267efbad770bef8b4",
       "398be4bbdec5bb5f2dc1440250749f789a15f668f7e718f66859efbf019e11f9",
       "1c14e8f477c01feda335fdb3af5d98bfad6cd65ee516c5e12b683ab2786057da",
       "15660702ca74e30b11a3560f632dbab6820fdd2425dabe1cda070de99261f440",
       "de5b1a3544e1d3457538e21b70245cff60bb5ed72c2687dfd83d1d5e9821a7e2",
       "4d31f72c503196aa64a1efe6d9682d920d76de9c5c9a1147e1738b41704f295f",
       "8a0b202a822472f1dc77654514518bccc8c3b704c07adf997c844613d4adde68",
       "83c5e90d0b4931648dbb07d20d55dcfe9b2a95ef10f95fca7c876a595dbf7891",
       "24f6833b842ed789d6b371cf85340ad29d9780218944dbcb29cf1e9196bf8aad",
       "58f6a97e315325a5aede58816fde1c8668fce72c8b49dbaf29411f585c911a65",
       "870b5143d7b81b51790fe7e1d0a7232d46deff6bb024a866f163db0dd0b0a805",
       "fba368463003d524f908597e470fa0269486be4522fc90c0c7009d2ec75c10d1",
       "29724f5e03af82e62a8b60dcbb44445529a03fcb5328d9208ddea213e68c5fd9",
       "47021844e74733136e0f85b40787fc6bb11d2f1fc8e7238961148fb994e6fb29",
       "a795902028bac4ac383b76393c3ed70885a1dbdd56e169ae8820fc40d7506e5c",
       "e3c79a7449b9ccf2390bee6776f464cff0d9d9b2a3df28c12b652036f6e33f2a",
       "86581b18e12aa8c7093780af00a700a5a3bdf05237f255bc1742b1fed238f16a",
       "724b34e5ee21c9c2ff9f207e701e99a01069bee2fe6366a62edc49418f267ce1",
       "c05eb43b05d58b54d4072adeeb95d41c88cbb10976ce554505a327bf5c3a9384",
       "00154cffded6758dc1130473c854ceae7679c35075cd2abf3c6a83911334591f",
       "9046b8a561a8e067628204ea7ee323ac944fc25fd50b97347cfe2955546a1170",
       "73a41e96abca93c1931dd9da18d787f8fe01b3dfdd163dcf3010d09b713588e1",
       "45fadc941070732cbb4394a1d28fee21e6e5b7aea715b1b3a2cd449b29a2debf",
       "4e3ff818ad3134720c88fa83f622bba86d69b1bc1a14a5c4b04acc74ff69155b",
       "bea8b891bc21ddb3531fa0c4ddef2a5c75fef67bcea626a2af392a4468c95ed6",
       "3383505967c575ca4029715db29a3f85d2f9ac32f81dc0735dedc78679783804",
       "00eb37fec0b226935b1edf5199d93fc07f5bcd183245ea23d02fca3b8196a682",
       "a1e592dc0a4b22ce0267dc1ab5cb4f6c7fcc92376854e8d07ea8c34bf8310796",
       "b66dca0d46c3f36c1055751202fd514ca7dc313b56ed728757adb1c782b468a6",
       "f5ce469d4bc3729c46de9de7178b67966708c39ce9a46366b386466000836f78",
       "7fec3a4246588f3af7077e66360dc19845131cb729eb3d7cb2d5f1b8af8fd7e0",
       "463ed56b0fd582d7e83d7f73d732268fdf26bc8a575115941740af9949f8b858",
       "c7cac697125c17447feb10d976254245bf4e24c14d75ed64e46c564ffa26aa9d",
       "37a6a2e08573a6a3d78df0260aa4ac3c7fbf4aa231a2a5a6a6b91593aa4b2569",
       "a44f58edb66d5ba68b57689d8fe0dd35ae7eba27a38af36d0cff4d796f3d8a67",
       "76f3fac34c6536df3b56e2c73bd0d284d2e0c461eab982adb70613fa3e40cc35",
       "a6d78c014913726a2ed4c3c6073726dddef822f384bc33f46291df8dc22471ec",
       "f430279b82ec6aeb8562dceb203407aa74612b84f631ec9cc4351d41c85bf922",
       "b8cae9adf62e43cecda5b3589e05a5be18e910faa745703b32cfe63dad83869e",
       "3ffcae35cead67b4b2df914f6cad61e6f64c1001821c2a8d5135bb19b574d29d",
       "2c21a9cb5ecc55cdfc999111e25f77f6ba934e5608e622af9dda21b15e235d13",
       "5de8f0fc60978fcd6ab3b0b3bf59ca13cdb9d567439c72b1ef60ce829268ad7c",
       "f7d75bc52ffdde18d0921f7ad510172b5183eaa5809725c96bcd6381ea669d5a",
       "420b288158374297dc642e2c94c953b2b956fba39ac51081765987618f02f9cd",
       "85d9459e78cc0a2900031a451db984924ff995f686f8b1bee8595c265a77b093",
       "c2c4cbc39efb840efa39ba4488f3ecfeedee3096e1b1e95c75c362d86f452e9c",
       "9077fc8cfa42fa1f6834cbcce1df59943f5f2a58d4f18d578f365dbb4e4fe3da",
       "9988215b8df5158d69672dfc6d486043b8616002a1fb8dd14cb809f2780bdf27",
       "5364cc3d5604f8ee995edd2de0b8e14dbec8962a0b63823918fff7178b50cd1f",
       "ab26f547342166bc6e12541ea843480e21be6e2c8bd611b81c9acd409471155f",
       "2825f5ec183343ba35f3dc288a08120594b91245f8f567d95eedf7da2c0e94c6",
       "d32821710c936d0b064882c00c3bcf7dbc5ed3c4faff2ffd38fa176a1cb71f49",
       "adbfc401182072c25d9b8796ef9cfe3109513ed8072ba90cfa5549950677dc3a",
       "30b4f32dfa551984da006bf74f5ce84afd393df3374ab4b304c9482fbbde6c72",
       "93b601ac7f1770908f7f1b2b3d9dfb6825ed6e000879c0593fb0c6746874d1bd",
       "3fcf73176518af2c8821541584f6368ea374acb1bc03b409319ddcd4a2e63a25",
       "7bc699060cd843870f97710510d4e63a6828646fbecb92c35a250b2ee0da29f6",
       "940ff6d48aca0180bc12a821582b48050b1418c6148368d8bd00ae6d89a16a72",
       "832964a248f1d2f92553c56106b36f5a9dc51125a70a771c0380199332d2a2fd",
       "64d8d5a9de08278f81e109d94e21fefb5806e8687db68266ccb3aeeb82e6b9cc",
       "9c85b0d11f3c36eaa985b3adc66167778241ce52aef3697b4266489711f488e7",
       "19179574792bbc06d16938d07558796484692d7122acbb3fd2a1cb3272c7a8cf",
       "fc3eda759582615c876c24963106166f5c567f6c33a0f08fc16ec047c30bd5fc",
       "c6b601188572792649b660fe3a0fbb60f9e8a6c64a86d9175ebd9507f4838273",
       "368c2231736be6effdb60b737e8ee1fdd8c9cf586f77147a600be7df58b2ca29",
       "3a4d638194580353b8a7c7b59b2b143963cb328fa830911aef661021b03a8932",
       "db99206b86f216de27383db3db05547fdfd3cff24d2a682794e62ab6724a8e87",
       "06d30c4d20040f5dcdf9e79dbbcb4988ade5973ac35f66f0084d5c8895515aae",
       "300d5456ae1b970055e3c422e75ecc2d8dc986afae2db77d8362ca5bb21ed153",
       "1138fea39c134d7a1d94e176b60171b3c60d357a3cb48eaddc7b4b6a94a3340a",
       "79521e5c8b9d7d2f468139ace6ba5b099630d7eda069dcc91cbb0b7f2b32c596",
       "39a504a77ad54aae6279e7b907f40a2508f0ec01f24cc8a006dd99dbb6ed1f2f",
       "197f4d937572a2fbf753fb6e38f54f78f8e1efea65d83936d1445b2c27788208",
       "4b09bbc67a0d43feb4bcab28535d1f2cfa344e8d33f7f78248266f53b29857af",
       "8ecbe0c3eba7af95e2da25e18a538b9610c20d2d7ebfbe657fad3f4f3043730a",
       "5a6984501d2185d57154cae6efaba487283cefb0c68c8180bbc46fa2c8961fbb",
       "81765121c2e2404f39b8a86102f06ffb97e7735b9697c7d4390aa8535a6bfb11",
       "764c59545bb7907e9d5397772014064e566a1ec65e69c272ff7d7f308578adcf",
       "b16335d49136f3f8bb3e4d44d761eb1fcd4b6e29c2127da825bf31af972436b7",
       "daf0f7effc09be353fb3190e15d51235df26d7f85ddfa057e16d553936149115",
       "c1894ab738e7213233d4a67793a173ff3f49bf793998f2578af46a3215fd9b44",
       "0d825cb081bfc9c8fb64f10610a9ba86dd7f3159f35f835bb56ca5eb2c1354d2",
       "1ce2ecb58ab41b761cfc53bb4b9410204edcbe24d21c17a042184087997f8893",
       "775c21c046c4274d51ad4a666daf2b2b43f50fd7dcb03be0c36cb666867154f6",
       "3a81809b5b2a2630c560903acdf2c57d0964fcbdadc04e80b6f8b279da34bf9f",
       "2b4f9428aace35346901c9e4db11b48e2877d522c4949f5e4451426f35d58afa",
       "391291036deb891b6de11e451c2b68bc8b42c0a3d50b5cd3ca3a3134c9df4200",
       "1b7e5e516a4a1fe1c202867b5ccbbdcc52cf59988733fc8545c1c07f90cab3e3",
       "abe53f2890764017f8f569e9ef2d450798c25156db8c34450b4cf17934bfd7b2",
       "ee0580ed195849a0f8ca02cef9aef306ad049f098da60145479dbbae31df7561",
       "4bb01ec418780ac325bbd8055ae07a3818ee85e8f61f3e81f449a20d7d64d87b",
       "ac08651d0df95eec490f4610c994d1ee78a3e484961ce53a266ad588315057be",
       "c3e9bc822920b2b903bddcccf9eed844afa4c719d59e27f009db1a86c985bb50",
       "55ef48396ad6c8c3530feee737544a9eae443651d6e75d55d420990417bf609b",
       "4abdb7c80e343c6ebb197370a09366d611971c90c24565e48a0676f1001e2952",
       "5741eba0ffda3f66c3410a653b1bc1c9038dcb214e4b3e620fe2157882f5d71c",
       "256f6ead0d3ec3528a0f63729f88ed598fdd2fe8c3632941e0509634ebad21eb",
       "68f87aa46a475aa6d86b37a23c59a5361c358023f4774bc423206d25824d311c",
       "16d63a3eae01ce893c8cf3eed030f33fe558cc83dfbc3c2419ac38f26713ae4c",
       "0d3acf5bd097a4d726d8dda41a21c3b71ac1eef0fb51c25f7adb6645c9edd863",
       "2b6bc0c51fd94af1c521e15c52b24d5c7a2a9afe83e0484e4fcab5d569d42b6a",
       "e5741cb2aa86cd47192e394d23164b949536b1c4b424e32a879fef73e509159a",
       "a5bac6df1edddadd57b8dd89a4c7538823846448b6ad45563b47dc574c882069",
       "ff9bb5e861a972c2cfffde25dcf47571dfa7e6220adc8628466bdf4b5c2640d1",
       "bf10fbd02b983bba5d78555cfb5e9f438702bea2588ba448a48150bbd752dc09",
       "a69dea2d5ec14100196b7d21e3cdd089ff1a595f2e5684184c466f32ca946ef0",
       "75a5421e35d00f4f3599e3cbd8ade838dc5088d01bfdeed9ee987c22ddbb20ac",
       "9654e9fa49538fef4360763af6bc2e7b5b37ba97e6f31b6a177d681dcdc35cad",
       "bc17393bdfa8a7af1cb4351c5457773b7345665f375ae6c79ae4ae2d72c1b024",
       "55161f655a6ce8b531b99fa3e71a062dcdffc212feaf86728c3839fc6c8b1b10",
       "ab301a6dc451d8b66ea43ad7f0e34601a2742fa0d854e40b2bd59c548db4251a",
       "0c05f4f92e0a920dd22529429c37a78185fd2ac2014010cca0d42c74a4da8a69",
       "706fc26d75df31afea7b51e8dc622bbf9c3603744a16305ed5332eb5ce559093",
       "b630df7eb078da0a7d56974a0c528abe91a5ae32d33d24f2fb59b4976795a3ec",
       "78331b496aa7323f47e2f4fce86fbd63e3ee57dcb93d7f9161856965bd36d786",
       "c0eb0ef7be1505a8fae0682d80beb70085c87d7518957f1dc784e6fc561655f7",
       "f40d768c95cc9401481bf99a5ca8fa70bb82c4a1a1b1aacb0fd2c2313a4f1145",
       "d9c57e075661d2e42f454812da58f6ed3f1eaf3dbc68cf8dee3aee79f6c79be2",
       "0539e81a5f0d61dc01685d43a838e16777574537caa173a3c142a4d480e7098d",
       "f928a73c7ab7acc90473eb81833f6d85e6302195ea48699fba771f6bf91f7d07",
       "66ea4c7ba9ac1ebcbda8caeb79b32b492d369407be81dad6d0b6b6b16672e18b",
       "30cc268692d952651672d852f9564336c7ce7916f42272b9230e2661d4aa4552",
       "8214bdefa93154d68b4d87170bad9aa6b62dc8a09d967afa8fd3e9673703b74e",
       "9ef354eb3a2d1007599edbd71b790567866ed9ff261240de377ba0033c82a82e",
       "7f630cdf3cf1508183c6f12da7938e4e8db3a3ee4d00574779aa7273be68f815",
       "856ce5841cace04cef55ff80723e0dd0d0469170428b773c50a289bb3cf3bded",
       "307a73752ff58827e2b2b8121c822155b9c6be784884c31e4de26fa28749765d",
       "6c18e79a7645f855fbba531ef013942d99148819d247c512ed67f364dd4e35c9",
       "7d2c17a7427e05a9b97df3921b6037cd40ca2d84c5a5f44036096d894687cb7f",
       "4d80e491168670629dde8da5da689f09bd93e869b697dff92696594ae3554df8",
       "eb682858324475271447a71d7cf5ecb0dd486f4a0e724ca5b4873faaff6d5079",
       "47441f07622cfd4397edc354cc82137d42093f27afbad17b01465540caa32b10",
       "80bbfef2d478f98761ead899a50ce2c8cf719f406aeb3bd6f28e83e4e5a5b930",
       "33f39393d931314618101ebc92b3699f76c641bafb9bbeb2d5d07a0fc13da5c9",
       "009e591d1b203e0b27209c74a771319383b1d5cdf0517f417adf8a074e9eccde",
       "2fe5c7b0885e1d6e774b6dcbad6325485b7a044fa12db98951dd419ccab2d449",
       "74da8591fe77c474c663d40b9741a68829aec3b1d678ff0a8b07fa97f734ebcb",
       "cc9cf7acab81bb5009ba83251835754700f6eed8919bef3b254e3d7ee245c081",
       "472d1ed335038dfd2b756f64f75cd6f76b5a142d9d56e4797ca8ab9490370806",
       "29193c62acbfa74fa05a8a5650c9f1702d43f4e805d2e0e6c75373145dd82100",
       "8edf0bc6d201094aa894ef7c682afca73ab9220fc6a8808397633ea4911956cf",
       "d6028dae5acfe32c8e345a57bf3d7143af7b9bbefab7a1f72316aee2923314cb",
       "3ca81aa31186e39d0411bb96acfa4d6b2903d91fe65ac5cc7c3af5f21214e2b7",
       "57544d65397ad4fad4b53af095e803cc7c1495fb3dcd867218cb27a0f1a3a25c",
       "5ca4e3bed63840058e3428a0b50a9de81bd561d4232c1979e6bcfb5586e81288",
       "ae88a43f570719c9b762f21dec971e777f009ca914f44454e07cb20628bec953",
       "3eaf5f6340b1f6957d15722254dfe6835033f9e8ca0a8db88be3e6252c7cf760",
       "90f878b256489c492e8b063810414a2e920a78eb6393dc8b83a35fb1924413de",
       "695c808a935a049c08ae8e8040048a7ffeb948b5ae50a6cbb35546ba30b53e72",
       "5162239e79e7cafbbfae0ab2bacaade442f8e0cc32ac0fc8be28832780e3978d",
       "2aba6bc1151dbd5be81fd031eefdc2b04d381e1c79cced47a8efaa214cd8c1ac",
       "919fb260b52b3a4466f599a10b9947fd80448d5dd0371cb84ecf070393c0a8db",
       "c647a04524a9163eb3b511a6bf7fdc0352f668e11ce7a1ada5cd892e7a834da0",
       "dee165ab7545ebe23bb30f7b0d94c0b26415d7903a3c2eb9b671cc6775bfddc2",
       "8b59a1770cc909666e577dbdd8898b015d18dbc46a460a7a1dbb9c8c88720336",
       "d4ee337b459213b6c3741cc1954fbaac2a44f95da83d1cdef3d72df250936c2a",
       "f3ece90e16693ba24b5268c9205d8f7f30674d523d144dd937e0ede5e3d14b8d",
       "3bc05054c52f18d742c04d246f35bee2b425562d39a220ec19d165072e26d859",
       "1d98dab7d97351e45430619ce9f45432fbcec6e5df5b38a778e60ba7d902301c",
       "05dc2673630ce8fa93dab247ea938554bcc84da4ed93113d74112eb90c959cb2",
       "e7c0c675de1c96733342ac694f9c35677a89918d75b5be90e2d4e0dbdcd56ca6",
       "0b2fb7259aae6b59930fd90d5e0e6c7d470c03ed7fb4d14d478b1c538c719077",
       "0645486f185d3eb20ec08f99509fbc44c0e6d3171d1f3f98ea731021cc1f0939",
       "5466f7c9ee9cc062fabc77d9def87da32e098b94caa52fe0b1a9d67ebf0bc53f",
       "b2e8d90816e84ce98f2241b5a9489e44e469613a7a27434c25128e9bfb51a8c7",
       "3eb238f58df4bf885fe2984f1c95258ee2b01b5801e15dd7e5a34bf385cf3b79",
       "cf3a8c29f56516ec06f7d32085ce04cdb19e32482befd34554d6363ca5e76f58",
       "1785edbf385478769a68076bd465a28f789ae547b5d53c665b7f869c9b4a3997",
       "202717845431e5160b70c21410c967ec6bc16827628a6a00670cdb65b8be8eca",
       "3e1bf1f04e1931680a2eebd3391a96df6f6db31e24186e236ff24df85a1ba9e5",
       "6f03b5952f7c26715370f22e44b65806c5c98dbfed3d6487aeb0b1d5da48f7a5",
       "8f3dbfb850223871e6396c98732fc335d0ad708d3d40894a073e98a21c38921a",
       "b7809b4f6d1a97e3a430dcb35d6ec73c89ec70e3d3d0b4931cd26710ebb9125e",
       "858089dad06b99ccf28ca5ce4d8174fe341f563d5ede6cc56a8bb825a634451c",
       "f0a8ba4c923665611a7bd8a0eb3cc218a63b8f10ed65d27b46075eebe93517ed",
       "3d10ef289b81456350bf6e646558760a88596a1cea05f2bab10a2fdb2fddbb7b",
       "5047bfd5f51f713e6e3af9ec922ae30bd20230698ce16093ff25cb5cb9d2dfa2",
       "62ae2cb09c609273056fd4fb8fd2ce19d792d8f4a566bde34f2ce3d59328a92a",
       "c7d461d17f56da6b03dfb9c2387d23005c9384bdbcff4b1c640639196ea20770",
       "e1990fbd08347cdc6aeb29af5aa91cf7aa5abf11c649cf5258d1cd7e817563a1",
       "2aa5ae7e96000e9306773f921a5e5b5c448bbf7a875239303d225a7b1db296d1",
       "b48478d4d4577e6b04d4ae4580c36b49900d276ac705ee208f941ede34ca8d87",
       "b9f1a8f3d6d2c02d7c76dbe7794a88bbe2154398aa0307b00bc4be3ff42bdcab",
       "e0730ce4e9afe8e5febebb54efb07882a146dabe00e336deeccadfddfe0e9487",
       "2a4684e0e23d27549b267824b8aed59df226b5a440e9894c610566d09bf3d45e",
       "00c08342fe78f139309ebc0f3c230cb45704c3d165bd391b811afd8fe2c8c8bd",
       "142c231a4e2fa75e667845258f7d93c3b4a3a6b04dc647e936e13d2f6e7f90c9",
       "f6259aa77e0be13fb06d167ed52e14ffce490b7f42c56fcb2f5ca669060d49d7",
       "3854103556af7af99145be3d750a55b52451abc426ac86e161b757f244aa75c6",
       "7ad51c158b7de3e16698f8e8115822a7ebb6df09be7e5e719baed0d484906b49",
       "dd687f644b9db33a994d2f6034e1422ed578ee25ddbe917ae4d854fd7197cfbb",
       "f0e05eb6ac6a9f5ea5fddeefb9cb8842202c1f650286efcfb973361619140c1e",
       "f520cd12b9cca4be37c824287588cbed7df3b9f775bfbe127adc39439a133b77",
       "2e60df9715bd65fd53b2b18f41e4a58498f2edbd5662e2cb6542539eaf10e53f",
       "d0ad662afbe916e614fc5d0354a6a4ef2eb01895cd1f00b682f7122ea0ff4d8d",
       "b28c2e1f04d3ba1ef5bb71886a4913e1b2c790ac7553c8d89c2e2a69bf3d6ef4",
       "fe513966fba86ec8ce1c5d7566990ee154c2e38b74f32952a1b5e683a91dae49",
       "fd3d6e57e3d3e49f5a508530770d16d46244ef7029640620654a809f2a00ccab",
       "321c8f71e2f5ff008aabfa13d5af8663fdedc3f45c1530903c58ab41711fe919",
       "f2c5ed9f1aca9dc6c82ee58522b43d169b3b44cc9ffc3b296d283406c783303e",
       "255f26fbcd76d6b9551b1fb3b4adde94769e00ede244e2fd712eec9ac9263d70",
       "72f18cd8e472205ecbd75c00bab5be9c8a144689bd24647de028e99a53adcc6d",
       "d37792464162cb946c49e502a7a97b4faaef7c10133f97e0339323e6c2b1e9f2",
       "8e87609688299b9f633039eaea379c131c2f5afd87f10a529049f83bff80a3bf",
       "1488c411158ced5b1976bf5d28df2fc2fcef13419cfdeca36d4065fc7bc99c47",
       "1eba890acfd96e28ad0fa080ca171822ccef559ba8849ef5a9f5dea1cd45dfc0",
       "4341796d8cb0490fb4f05feb7af4bc6f9cd1947eec9f4a27838c19d0c1535557",
       "805affe3414038628f09b3af5605b7a6f97e1004a4e93363b587ea753e92abe7",
       "15bd3fad876246530d3b79e3687106c50f5d405f286b31817e32b051106cd899",
       "37131954668877b976823f130903245537ab8e3d969619920aa2f7a756ca4c63",
       "f8656595739252f1a166867b027afc11cce875a3ed472c4b19150eabba0b641b",
       "9bd3dd3ce56badf0bca81076d3a3a4c5fca276a5c816f1d3828dadaba4db6d30",
       "dbf5321b153145e3f9bf3850ded0301f7012af4d92e260782e33e0ced0b95704",
       "9101902ea899ae6b9bcb3d0aa4a90346bd2cc0daeaac7992c8eb87acbe1a79fe",
       "68900b87be106b6dbd202e54fd0238722f82458f67ca23c337f0bef7e7a8b077",
       "8c3af4c1bb8ce2a1af44822311a088de572d9eba644fb171491cda38882742f6",
       "3ab784234a9f35a25c87abfb55f4dc12c2af475a4f2f672892fbef3f01c3615d",
       "2cf40720821d87f1cbb7fae9536d72a650bdfb3dfd202d06be43a6f3113fdb65",
       "21844b46502e9dfaf0ff39e8c9762e545cec9ca1e104051c3b3702c97035c710",
       "1a5ac09670b4f4d5fb435693e7387c56e6d48fdc05b558aa1032a2ef7bf646b0",
       "8987cf39e96a4190f4a4f1dac118cf9b0d79ebb31343f2e33416a0c107a9576c",
       "97414c0f42ff01fc5ee2715312770d8e2c78ecf29a678f71fda0d243215c5e7e",
       "812038dea705a445d1330bbdddf542ee30ca350e89263d8b53f7fccf6f29ac21",
       "2300b77f639119b6663a3e88d97d86498ee8aac96481cc50f025de8531e911ae",
       "20d14bb8b39b6b1eb00412e9431cb5d3c0718c36dc247af22d9eec6f34efa561",
       "ada5021671dda383b0d14f42fe53ad5c950fd960ed9f11ba1ae46d683c721e09",
       "cc14be6c69b2524213a3fe0dbb581337e6e40bd2254cbce21acfea77ebc19518",
       "6da55a9f661fdfdddad9ebdcc5ad9e2460202aabb532fb9b451e498188dc5121",
       "0a8de6b5a1785f84af897319f3efe0f266c3fb08b448798b311f1dafe86db3b9",
       "2296c3330435770dd73f3fa88bfe2504f8b7c7495256e80cfbeeb6ee7362e492",
       "ea2b7f7a4ea18692bf6cd8c5835f1e2d038e9534f06fedf56086aaa71c4ee2d3",
       "cc25787e44f36d6fd324aaf128589274210726bd7e37be31f62c01d150e0beed",
       "cc7f5d0c8e23349a54e76d656816568a90dded7899199d4748e2555c4721bce3",
       "dfcccdeb5ca1797952db45aec892d4f3a83ab3d1efca75843eaff2d2e391b41e",
       "dd0b27e145d80ed37c05c925126c7d05120d368b7847856c9fecd1d92a09f8bd",
       "af0f4b538e415112d637ef6b81897346271e8ac0dd7c2d2a3391cf44caa79a97",
       "db9678d7fdf52f5e202ea91673cd8777bf154e4d4c9ca1869bafaa011c550b27",
       "5ec70fd23dc39ec261833d9266b58a37cde3bb23ed24813185bc03a2cf07ebd3",
       "affb87c0a11bb43b8d2396dab0390cb76040a78d280dabb56c83a596820bb980",
       "a6d998533086ed95da68673a2dfc0452f093f12981f1858a1a86bb95609dfa4b",
       "77cebe741297b60280f5eef02af1d8db4836e1654e44e19217103e9ae6b118bb",
       "ae00576cef8b325664c305cc8f32532b2eb1d1683cbc8674d91a2d0b9e409c79",
       "5841307a27e137b10a84476ce4655d1d095f7cd5778432b8068dabc11008b870",
       "b3954f7b2da034f00b8e3d9be6f0e9ea3c813e900a52212178f9c0e8b7c90f8c",
       "e2400dddfcc7ce345dce73820e2040c8add954151fb33eeb5751462e2f78a900",
       "41f24bea222e55870c7cad612213147fcf6121c078a2df786c04e112889e52dc",
       "66de115c574082450e42329e4a013025e3f3bbe04c2344226efebbf6c7a4b0d3",
       "2c9d31cca5c448a4cb6da9b761ddde1b2949b86b662baca92ee04665efb37a89",
       "c67b57f9da5aac09bf9a5868e51c5c4653775c962974efe0c898ed57817a975f",
       "26cb413ceadcd17c5fba35e4a93ee15133aed256b703101a2a17906620c2d6af",
       "e49dd5752b0bd02e51296f26b0e76915b39d4916c72b15892b95ecbeb305082d",
       "cdb2b07ba16691253a0c9038c2e3873ed2c243ca1feb6601407888dc0567a026",
       "209c18ebd9df55ec7d47c032cd05cdd47a7f950285472da3d8ec1f52e6290d1a",
       "bb67b3fdc72bfd682bcd6f33f2f0bbab258f03772c5a5ca99da4df770a0e0ef5",
       "a22ec0b913111055bc35fd8d3bb6096788149d443a032785ca30e32b470ab74a",
       "1840399eadb32dd4a8e37d9c763fd4756c5b44f218762b8370a040de9daa3bad",
       "4454584178f47b6e2ae6be3371cc13a601a08d8cfe7afd6f309d60032167af0b",
       "9533fa4a2cea62b56dc9860166832e8f7b9e95e92b1f537b913715b6ca27afcc",
       "e492cd8fe36122947ffe834e28693c109ae61d56ad4219fba2eaf1b818eb23de",
       "f9bfce8fe39bad9ad2ea11b8ec26a35004c020d40f5b02a2ee09efefaaa7cf4e",
       "1fa4d14fa1688120db9b0c7d0103f486bf3e58ff380ecdba4f56365cca611abd",
       "15c399a9b1521cfd934056e905542a5452b1393322a124965aaceb672c9e7bee",
       "0d23c0792f279c39bcfff866f8a1dd52d63a7fe75a9b8bbdec8b095940837308",
       "48cd3c39421f5db0ff3e410d2396f4f3e58547479d676f0192d4e5bf948b09d9",
       "ae4e27887e5403f38a6ecf838babf314175783c4c1c9fa03d6765f89cb76caeb",
       "262786ca2dd78b0e1a94d8454b426237e576a54787667cad8862292bfabe1751",
       "691b4f7c484d96298b343652063000d6d53f0fecb8b2cd2de9259c6e5f8aaa32",
       "47eec21b00b350377533975d4e49546af0389ab8240e456e5f0fb0e04fcea71b",
       "ccb19ab19903b03f1d67682dd6ea41f28fa9dcb40ffd2297931d7489974e862d",
       "855e84b27bd579eeec9e44811218dba82f6ebd3ece955723e3193fcc2045457a",
       "fd49564d8a8d90e22789f5cbedae02774d87243f0ece5003927ee72ac0eee64c",
       "1d00b58215d381271362a85a886a98421b8989136a2486767b4da40d44640df7",
       "31bbde16d90f281bfc41b542b4212ccf8b9f6481f11aa907102be23632dcfe67",
       "7795489d15765d7072109c87297d79c07b7b463a210196674945c3ab1feae326",
       "1d489fb8ff86f1b6eb360a08547b6fa49c0521ace2b2ce89eae2257830f830d6",
       "a5c99a63770a980857145977f127f09661b97a6474315c29f85b9036569036d0",
       "7a132bde8976c865937c92eee5a7d7d8021b944135f3d55a2ed398e56c80113f",
       "b9d7266076548e839d61fe93f081bd36a37a61510e34e106c71e8fd48d410086",
       "de657f8f73c47f20ff87ea0cca0925a79e073face7f53b3ad8cb3456b6ae5342",
       "10fadc28f5c0119713e78c091be11903d45fc5db9a7ef7b36833b4468b4f20ee",
       "fa7a33b4318c545d21dfe02dedb099e5e515d8c07d1db9b2d9f2a5b93a371fc5",
       "b327bb402567a4b98456d686334df5de12de169a1bb17edd10fb23ff28ac15f6",
       "41c2ed2b8c35154c32a8cbcef7b2014cecd02fc74e3399423de611d96d811d4c",
       "b92dff242f4cadcf6e354a208b3cddb9e93de27a02b95a96e5eb1a39d6f22433",
       "a194a512e27fa6b449650fdcc8f26c0b8c50f0e5069e0a7b888f878f6879726a",
       "e2c6432e9a9d60a7ab4d91bc5325c8be61f1a08fed0723b6765319a0c286add7",
       "a0302c86e5e3ea39d36e410965e26894d350489ed04942fc035caf25299e1ede",
       "772bf56b54f46bd71b4ff934ab6a24b2e7a95139cb9575f16d41025777b6b494",
       "28e4451c344d7a7ffc2604a63ebfe20daf6f110da06e19ef8f0a13c05e1018e5",
       "b0baf44bb543b57581ea18ec95b67ece16e6be5f01973430621a3a0a064971ce",
       "0e142146bcc701e257c989b4a73041e6a64b3d8bd641e274eaee0d6232ada81f",
       "a4fd75d2eef28a7ca1a09e063fdee900c06989ac9742966c0870258c7af837ae",
       "4c2b02bd9a2c67635bbb06b5f08714efaf6760a063fba039321674a37b917b16",
       "409622882453d68ee9af8798471818a860452b7ac9d9e92f2e55d5d5e12b91c7",
       "2629a16c127a9e52231593ae7d4cd1221b1cba2d150f7a8cc998dcb8d076f4e2",
       "af93081aec8be24a97a961ed2a742d68b71538ab21f2e5cecb2b333954843763",
       "b0bcaa294e4eb047e974edf69a1ea588122e9dcd51f3d206a3886b4cb8405095",
       "a25658a8a1461b6fa992257d8edd346a8f827f14b03ede4a18d10c35a04b39e5",
       "d62c0ec06cc1e51371eb588e77c4d30670834dcdcf2ad2fcddf4f7e7adfb4038",
       "30df1d1c697f8be4c709e40ee4c0e1b35396c74305688c86c8f1258458097fd6",
       "9c7a4690c9c793d3f8f8039937f13a4d7278b163e4f3a7c8b22233c656f90602",
       "284c73dc9e50854f9483888b69142afd8370bb9acbfd99eb25a46c1be95fca94",
       "1859706adf427d4123b512094a09cc061cf491e43f2d4fe20fcd609c137cc0ca",
       "ed796080dacdab1881a95bb8a3508327df1ff14db8d2a59c2e40ce001b22ac95",
       "9ab690339b99bf2969cb0c2653bd8e7525c1328977628191c6d134f0f75f547c",
       "60c1ac56372fd51b19c60a39bd2d6d82d2f26ca54369559e722be244666358fb",
       "cd100eb5c6dbf2d3a4c7dd97338d929081bfd27bf5c133e2cfaa19a4572dc4d3",
       "b698faa09f349e60501a6cf4a65b53c477c40d9bb70c9ca9064c8bd0168374b4",
       "6bc969da93cc681ac4436798e153db7b8da5bcc0bf6c5f69a4b778473c2a8fa2",
       "d02acb25fff3a6b7ee34527ec51f07f93293b58dce77fcdedccf6b4162241eb3",
       "2fb1b8de69897ac26d8b6e1c7e9f6b5a6306046dbc9578376dd89b3fa5d64616",
       "11c45a1b94fe2b03fa9bc1320a30cad71b51f09ddbc0f72463a49efb997a8243",
       "9a3185109af81d55679455f51fb782678d9761ba90a850d024f1d6487b9c1c4d",
       "2fc1b3a0ae40609e7c556e618c4dbe53858fcd8bdece645759e9452d7dde06fc",
       "ef277e3f146cee3b5e88c1541f424734221077c98b24cc8250fc807b67e1f4b4",
       "9ef7f34285ac7201442b8ce4644d8aa5e12390ab520bf6c7a088cc067099659b",
       "8637b31568039613b25dc89c6dc43c2d5a528c5dadecafcafa7bf7a2a4fe4228",
       "aadb9b4df20e6434dd9b04cb9e2888a07961d63eb519e223caccd069fd7e0eb7",
       "d22588407df808903001625760347960c24d1ff88e48786f4ac99b201917ac28",
       "521fd7b1f874718e7ce03fa9c09c16122b8cd9601f94951f78c132d7e2c0cfa6",
       "ed6b9b85d903dd30b3b3c99e5b14ba2306eed4dab192cc022f0744722ec7162c",
       "089caad1ccd4741dc7906f3a071af86fb9df7008d704d11be6d5d869691cf8f0",
       "e94aa48e572c5d9a499580da4decf01a0da0f039eb1a52960f0fd8daa90025b7",
       "954a365292df7fbc7af654cfb26159887ac7b85471d1dbba0eff9c4e9d04011f",
       "3e9634a68deb819a03e717b21e5eb961ee0fe730f13b71e875b0f1dbcb5475d4",
       "256d06dcc662e966acb18ef22ce78d7cac19965d8e82782f0c6a18a4f7149c5d",
       "3895b3495397a2185fe538b527b7b802e5d78653e4d5b2d5b828fa70478842c8",
       "da7bf22fedfd55661957fc67848cfbd4bbdd48d77f86617b5d89b666f1ebfad4",
       "b1f6ad71ece35533594b11865dca054c8b6272a925cd4eac08f18efd368cced9",
       "8a90c1405c1f87817c0c9efb0cea1c0d1cb8f43e432ebd44863ec72d83cc2bf5",
       "7aa207b43cda33bec455d86cbcac9352656975ea6840558ed567f99a69fa14f7",
       "6ba8e52111cdb19e723e41068959c8f88e056e5b205b97dc2ee90c271f4fc548",
       "56f5e2765783e56b31c2d5bd92d625e0d86e2a907197e4679cbe5322f6a7ca25",
       "baddc2eb5ec7fd9db670ee81822fa0c82c936343f0209d48b0097445dfd543ca",
       "bb56eea54a3669c9a3a015c8919988df9847b1bb4e2497973b9cc267b90033b0",
       "13065cc4f118ffe4ad5801fff9d29d60b2a6c6da5059ad7a55556bd247e85032",
       "415c0c848b2dd42959daf2c3bc251e438e0d15e2787964182dded0f78b4e4abb",
       "b9a30a36318631d2ffa9bc062fb81de118f00c058a1bebbf04d87854d12ade13",
       "e7365e18d35a5c5597a3045cb7752bc9e203889f22ca628d763a59ed2111e943",
       "1e5f924a7becdf12d6ecd9009da5c0e9741d716bc3f1af71a7fe0e3bdba6c01a",
       "f08b90fecd98b0b7ae0988ba5bb234901914dd481856e75643d0a49d7d40f172",
       "000afce1136440f042506ff9b53c3a59de18a3b508322c6bfea8928eb5bc956d",
       "58189d78e9af793d3dfe940db4fa01a3b250d9885cef4a6b22220192b13077fb",
       "035f2dc32240faaf2bc817c84211a47ae405356d7bcf5c5c76acb24babf9ba0e",
       "5b7a0b233bedc47930b51830ac1bd073677cbe3a222d71778b28cf1d8dc4633f",
       "2f3d10cf15fdc5030d30ffd87b11ebd1502d2053ef008376664840e718791bbf",
       "c39af62c56a6e678870fb77bb323d67e746c0144569edef613c2e41b5ebd895d",
       "d2cc91608ebb09bf5d75cdf80d7f9cf3df745c9dbc0236ca38c652e9cc84d801",
       "3b13e8aa78df05a13619c800f67b23d69dfd07b2e3fbd33173c7b8d16fd3faf9",
       "c573385e1ed33686d6288de9114de0023d1c9425d2051ba6b81a0bee8f9fe07a",
       "066df54a6aa689c75e75278ef257060961c99e5c7be4bcc0d8a49803ea3e5aa4",
       "791c26c72b0836579e5f6b625d179cf5531144f1d157182db8b3ba2ffe986032",
       "6362e08efe97b6e14fae592b6dc7dbbf1724460897232d35b4c6dcc7db7c12f8",
       "8af152a385b2da93287e372ab74ee875b3e960c9eff33ba7f758aa67dc2af40d",
       "1c8ec05c50a3bf1db9b43497633816d2f78fb4b6b50913e537765327fe404038",
       "4474ea12d70d055413a860eaf48d35e7325ab2fba1550f8327c8180ea18bb304",
       "be6fbcf876f139e041c2c8699f66d9e93276987327dceefa872a3a35cdaf2239",
       "40e8dd98805eed7345308229ceb49cf5f954fe6636d8cdf63f4200c8d66f987f",
       "7add8eace071cc0a5bbc5dd6dd26b3a4e6375a16230f71c249a3d3cf71f5d93a",
       "f23e6aff89a9448a6a64d126ec43ab1c56a9f7aebe4cb7e8b6dc1423ed3b325c",
       "b252f97e73730a515ec0c6f64427755a1c8c900fe9ab301a2129a216ac84ee6d",
       "7078a6362bee97aa85ff0d299fb93685b661d4132f929a55a3cf7158f279e451",
       "666ffe7ce15975c947003b1519902982558a5d68fa3547a1d979ccfa57699819",
       "f3fc57aa97136ac331af00cb80f2017edb340203a8dbf6fb23b26b001a8e24f1",
       "339cab984a65cf67b1cbc4a7fe5ec2a279d4d50f6bb200e22d461e63cd5d8b5c",
       "3c09a9e89b252a4734903507ef24d3f6f6e423bc4df3fb3c2fb48fe7e8f3aa8d",
       "d2c4bf0cd22a0df7aad9b94d478d28572cffb37be4ec57cf0c84d3ccd526f176",
       "62df5fd52952ad8b531b5be1477dfb4a332abd93593d5492824896f249e1df8c",
       "08d1ff9c4765341cd799f3de4124d71e7390505c78d5d4669c51b3f40029bc7f",
       "7144ea53c6e27f69ac9a7ffec7d31c18354b63dd4ccba0ff7b2f4eba020af8a7",
       "e62374159442c1e273ca51d259364245786e53c01fe457841e5574faf5094b63",
       "fb9bd96c724462ab099a1efce4fb9e39dc21c1b8930d49786488ec8434726c19",
       "da204251b8cc95e8142258556a4ec8f038bba8f0de63644d064f9223bb24b4b1",
       "efd8c4ee10e06efbd70c2601e60865ceca7bfabbdf11d555ce7c1f5121b3fde3",
       "55018657512cfc2b845618779a96fa3506da328cac024642744178ff7a19b389",
       "f979d9080270bc1908ede73a390c51924a6ffa504a90df094d65859533b59821",
       "331dcc8826b0267667b96a2fda98e03f19192474549dd7a809cdee93f65beecc",
       "42311d2279e64b928deed54cc3f33569651159d22daaacfe777ea6d94b3dfb17",
       "73c446d063a01204b9a224213f5d8a494f864b4a914e6084445aa29e699b83e3",
       "75c28fbeb65d4b1c175d59b5b42a5db90bb718144b55c569c80acc292eb427af",
       "6d167fc8a2715be00f5495f0a655faeae7ee0d763280419c52978a9fae3ab35e",
       "14e518e2dff9ead998a7909940831d8ad39b207dda141cc2b310d11b871db897",
       "1a72183c473dd9500473e8ba687004a230194e3dfb31066a28166fd67433a074",
       "45a325782dfb4a53bc6c9781c3021865d2117b8a93284c9590cf3b8781a3e376",
       "038f1b6fce92f3421605f00e267039a3c558fff13b5ba82860e499008fbaaa0e",
       "32442d0814caeaa098b9b21b04f2bb7a962d03e851b992af3f74a4e7262dfbb1",
       "d7bcd7f7f9ebcb0c4d1ace382ffe2c8b090f17d3d7128ca9f5b0a57a13bd7903",
       "2926fb338fa37ee6f339b1deeb4985df03befc2115e41a8dc6bc5dde9751143f",
       "ed1c6a300a6f8c4fda9b9973a7b78befe37231bca8077fc654ca74b846f38ab4",
       "a932120c17640e8b46314398f4e7e45a69e6c487ea786b0094b9383738285877",
       "b599916eea0bfb67068b4bd0913b2b007951f6c0225c3c8926e193b7d47e32a4",
       "bd8d1d5c3260747ea3be2e903c1eaa7facff1c6935ecf433df2ae396a7dd9f58",
       "688e09a763d78ee24dc1e2c653c2add09180ace54ec3c816264d76368778be90",
       "ff66bac2c5227a8656dd129cf569efb8cb04897208d75ed255abb1455cc1aacd",
       "1f825a301c1968515fd5e2572bb0badf253b6e578ecf3044a48faaf4b4684db2",
       "42914b7df0baddab51e01c86c64572ce648fd0741c10668b5a9382795ee0c138",
       "67541394021efced1c488550a5edc72933e5fea1520fb80842ed779f380df8e7",
       "f253a833d5eeb4153b133c63b7f18fe5b6e368c3db0c17fcef5dfaa9a4e33c27",
       "362b72d1b838db3a4f4bc6ba3e62db79779d0e232ad22612ee7c60802f08a1e9",
       "3edc8f2a023e46eba7b4cef88524b9d7e929138c1030ee160881b924a643febd",
       "256fb76526eaa9d3d7a58a57a40c9a422046ee6a7f0d474261fdd04ed517d75b",
       "fcdc9eee358ec37040bb1209c926b5fbca0312a796b66c91323b67f4a69c1395",
       "2464a155e10512f72c284fba832d391af4abbbd9e1293ec2d708ea8b7873b25e",
       "99e2f2aff590d99303a752246c0e582e3852e0f28b7adaf99ffa34e6a2f7ec16",
       "d0ce870c4584e7aea699d5d08d19ab08ade3fdd36cc606814aaa4dc10304a602",
       "92540f78bfafb80a5f56d32bb31482ca52e6de618c5f70bf843cc73378f2e068",
       "cfe6172a2075afb1e507ccae16cc4014d39ba552075f75ad74e6f206bd28fa68",
       "b09f7115db697fcbf59e58064d62c3721041a217b509b88ec65740c70e7676db",
       "292936d51dcd7acd63222ce9a63a254091b04bb9058996ba6ab81eba1f643733",
       "6db1d7a4b684ef55ee0d2995ec2b076c4c6bc4b4ac51b25ea790d06606c0547c",
       "eec23b6cb958025fda464e6ba4e080e54665260a66f2c20e64425c575df19527",
       "0536944df169eccd2f1a1d3d1c19146c51506e2d18352f63440da47a14a07d23",
       "09a54163590365added2335c5650684e8dd88f884cb3033ad8ed6cb5aec1b293",
       "2fe4b71d4eb898c5f151389fba0042a3d670d88639476e565259e6fd6eb95711",
       "191d76f392d22621dc246e41d5e66e085bf07b920b6367a814a9566a2515d30e",
       "6c6108f53a57af3f88ab25e4c0b52f15f6027b29cec5929137dc409dfe1b6666",
       "d41164c233431ba174c706988e18ce33ff660ff261ecf780dcec3e1220c09da1",
       "d59e4dbeeaba174b64bbd6c8735a6ce83a4973d7bf6916665a8f6fb06da60803",
       "be908de3885acbac7caf4afaa5b9f4240f84eb337ea8d45ee47c74a267a70796",
       "4064f65336c6e6a4ecb6c23349805effb61cdfe48742f5fe8116d435ec2af5c2",
       "9b5b4b11c5091024fdeb472cbd8c802e98e25806c39714fceeb65a339885437b",
       "e17932002949e646a79bcc0ad56d63683de435677313d99b4620d3c34da6c308",
       "c81ad39746e6036dea5490c8a4ba5627b940e003d607799a151cc1eaa9120f91",
       "07ee44dfcda763d1a97f3d4a22fc77caef5c9431b6fa8b7ae03ba03a2400441b",
       "965ab8e4d02b06e0007eb684f1488e3c0723fd070b6001a410a386c8b7214388",
       "470ea59ff06dc45ce40a533abad11fb5a997c7cd04a51643a7461d3c0f90f0e8",
       "5d83521ad16fd7d0108c7eba945af5d850592f034bf157cec08b05db192075f8",
       "9240ecf0e48d4158971108dcdada5fd3c33fd3b82b7d89705675001c571a2715",
       "74f7818e7c4522fba7a3c3e5f1a5b03966ddd1f981a6985544b92520fec3fa6d",
       "696aea0a3311d7686f6d26d661b11f059a43038595ccbdae51287919b31e1e54",
       "c4c241e5b037e15520d9fed4b84c42e6ede9b1f2f22801d694f0aa490099ba39",
       "f2eb8a5a9f9cf5304a847865003526d6f15bfca89c05c7db986ef739d70aa267",
       "75b53b28ae69165b1ea754b6dae0f9809b6266d073b8dc65e5aaf24b8ca0bfb8",
       "eb9341f67d9a9d6fbf0b8a838953fd6b7e9583ec6b2339d0091e356ecd9b334f",
       "a5c98c821e2c1a954b70c20d4e30f80ae2db049d9beb8db9a1fba432a4959618",
       "a906cb6af4e4d059280cd8e2f76bdb84317b43bd1459188e2bc13a3f307c52ee",
       "2f3f5f826accd7112541e8750bb9b31cab86435072e256065fa756663228681e",
       "f543945c517901cd804d259af32f40330346d1024cf29bd47b1a50d92098a250",
       "defbc4dcbf8646306aaedd93f50b8117398bf4a5dfbcd0a87dacd9b05ef20c18",
       "9266f027fcf01d6ef65be903875b450fdb596f67160e87df361fb7f8a581db22",
       "acf8fc02b2eea53ccbba179c463c085bfc58a437777eb77df4df56f0a95b7cf8",
       "e5a507e6ca8b754def72872b2bedfb6b76c894c5e9737c0046cd833ccffab665",
       "f79475115b96af831fb9aaf20c486e8285ab5428fbad6970194ae2644d2df245",
       "3355e605ae90fbcba80c621efef510a5a9440a723f687ab3f236168913bddfef",
       "fe771ad1998a9c7b6c37a691bde72da317a2538f5a2204404a3aa2bf3932ed49",
       "b7cf5e2ee56ee009d1bbb288de61c1b33eb6521b8ba1f08a367e5f5379308fdf",
       "ae1049e52f97824e43abc4038bfc02a140d4c240725407116ad47c428c97fd74",
       "dda7fd6f7a6469339abfb012e3f35603e1ae8c553f7d7bdc469698fccf8ce659",
       "7825198674ec43d2dff5b3217330994dfb619f4305938713b2bff9d2937acae0",
       "11854c68efa7b07224f4417118f1b57d4dc344f6a31aae8a6774140c37761b5b",
       "8501e2e46e2005071d7fba23644372d87a36f0de0ae07b45adbfeb4e59c016a7",
       "1dc7d1ef8ff48f1fdb7a1bfdfaecf6037219a9a83a4fd18dfdaf7a9b3d9185d2",
       "bb49c6275b33681607fe835a777cdef155e77b469f050df89a6011e7d8c9347d",
       "3be949b403d770a0b9f05cfff9537062b01a4621f8b095de1adccd9ad5ec26f1",
       "6e0a16d1a4b5a10f1f519a10f5e72c1f32108c1ddfc21ddbe308a3d28ed022f0",
       "dd0f94dc98bc033fd081efd91707b7eebd1997154b1914d2e7178cc2de347782",
       "60d823ef5b99ca85380ba0f05c505332025aa373866e67d93e3277f89365058c",
       "974367145508b45039d6d0fc5674d6b92de78a49664c3fbbff54fcf888f9ffe8",
       "92d45347551decf265a81ca586f2e60fe747ec0afff78a6bd1b7fa30a59c2b24",
       "9371407951ee2fc226173b54a7897991857dc208b8803e102de911469c7a8737",
       "cd347b082e86727ef0d346a2958c90b8761a1d4242da0aa2a180484fd04fff23",
       "8fb41c72028a5e2179633dde02177c45fe8bda9fa8ceb143297c98f7cacfd3e4",
       "529a919295a4ab1cd43952f49463d3b07cf634751d92c0a0646c69a03a496476",
       "aa9d908608080a1d201f48c5544cce221e2dc1d2726ff861c5a9d4783c34578f",
       "fa326c2f34b4f5c275cd71140a689ce36aad558153851bc1057f4bb2e19b9ad8",
       "af70a7b9a606e8faeeec56cca60af46c5ae170810640b06c9b9048769e484eb9",
       "df0e992081c5bd6dc73c821c7546187ceec9c8918378a2c32a8be849fa7b703a",
       "993d932b277081f09ca8ed631574a2f3761d06c187e5e76c102fe92343bf0e2c",
       "814bd0a995270c17bf038474efd407e2ff7511876aa95733001b2e389ab86007",
       "fc6f9e3ea71e19cb915d19e17a361509ffbc581904871e49167997a2ec54d6c0",
       "db96a98d388a4e6f7809bfa27ca953d2c73581957063cec8a18fc96fc9dc98ac",
       "9ab1ad5db630fd29b2777e329851f61a9412a9d425451b1ef94b1d7ee5f6bb05",
       "8ab5d82bef40484ec7ed23290daef2c830d64f4ffed7eae1c2b89e5986b67e8f",
       "acdebe1f46b89642941b34ba7c8945b989aee865bc9c6173537652c6cb9b71d7",
       "178ee06c1b3684eec58cf5d4215005aab482ff0d3b80d9eb420f513619680959",
       "f418b07d4330d4d2573c609272363ad2033adcb30d9fef9cbcc1ea54d814de62",
       "c7c7b1963de1716157d91520ecb03d545e33b048cb20f5c04d4a3ed583b3b9d8",
       "60b9bf67cc6948b31fb64152798ea68b8d5fe6951d1265f3c92780d76725a15c",
       "f5d6289924dddbfe48894d0da0a84f4e044c6d293436af003915c1ad6360dba4",
       "910af71f50e7f34c779b13de8e1a8ff12af0810d146650abe0545f3e1ea7124b",
       "9f3ce28569e18060f385e81ee9b0559074c3f78114a796beaae581a6333a3bbc",
       "042580391987e95e001b4f0e3b2e9c9b3809e18b937c00bf9cfff0b076c1ead6",
       "2914c30929cfa0c8c5cede4adb3311f2af01d16d57a8514f93e745dfc5e17f5c",
       "5fdb82116ad8596b2bb2c029e62c2b3e3ce86157beefecb36c459edb414dc184",
       "e76481a20d52f3afb8b7557a336bb94143773703a39160fb5b78f95b89df4d2b",
       "9bc35269af794d4634541cbaace25bc773599698dc2494e8b50cfddaf660e0eb",
       "4f5d302ab1c6c89af64d3b77f41ae12e99046bb306cccf7adb4670dc30b82c82",
       "d7bdb7c638c374a579b2fa896d4a2bfd9dc163f0cdc3a0ea28f5a2f36c43b4e5",
       "4cd0153d816bf5b10a10c1c88c8071695e8eb2dfbd5001d0962626ee28949bc3",
       "bf63f38b939f9a1ac0cafddcd3f7d0472f034b85673de77f9002f603b0ff50ab",
       "473ec61e3855a363f10d86ae70f0c88fe0cd25f8d8a924f11d2a5dadbc36ffed",
       "fd92a33f44a2f6ddebbd80a226a8de0274a40aa5a8e36e344171ac0181b5a661",
       "f02ed20de3fdfbb00357631ca39ce55a16dd7f341662bc34d0a677f9f0fd4370",
       "f715e9af4e2449ddd757d6ccca5eb3cd08f833936b96a39d40d367685c713439",
       "eee07e788db074ed4a752671950ef9f70f3ec18a50c504bb4a3457f0c1432488",
       "cb88e87583de61e5a59949a04ffb8d72248b62394900a808c8608085c7f43ab0",
       "32de6c25f5e854f96428e6c50b20d3aee392314a09e8ac14dbaaa07a87af1a2d",
       "837ac3721c7100858bfb84256c2243c7adc46c476e3b2bcda91761512c1f47c6",
       "030ed97111e2801c38b8f6e4ef54105d71e4d99cbfba039ca8d86faf1d9719ef",
       "f916ad427d74ed18d9089066cd80b10e324e20833b2c832fecb3358226f7c1e2",
       "a2b71f75bbaa4ab83b32dd03e8a0552c7d77e6fabbf7ad3bc5898a0e0b0e1fd4",
       "a2e99a9a9852491b9221756f67190df3c8be1f79a512c32d38c0cc03d4eb9f94",
       "e2179ddb5a68dd52b9bd9f3296fdf60a00cb557deba2437b8b21adf3e4fe50ac",
       "5a6f18c7fceb33337c9530cd949b20ed3b0d4a0faf83bc6a19f249305f745189",
       "52009b7d8bf9d393ca4e0321d71ff9edd28d564ba6bb861c0138082c8e61174b",
       "4b9f74092c35cdf7394acfa34beadecb80c46e3ca65f9af7bbf87cda23360277",
       "777314e8b00a44ead09661fb8e51afb6b1c70c0c90bd7dbb423f78f228effa34",
       "c5b8dbb2fbe281879dadac0170c4eb5c2494a6ba1f5cd74e9c2008b2e51e4c72",
       "8247bcf4209d3f8b2fab4cb19464777030403ee6dbbf0a77fda036a0c674be7c",
       "2e2aa005dfd32e6912a7ce5cc45978dbee2e7b529f799e07ef1be5fbb1218997",
       "df9a98bd26832598d0b8e4a790d9017156451e01d2360cf111e64b24c3fb6d04",
       "bc9f89557846e81544637f61750c3223ffecb81681eda103114e0fd6686b6156",
       "189ccafe6b8df0829969494f9373c894705c5bebff002c051b734e9108a9c59c",
       "7e712738f486b7b0b2cc13e643f135019d003645e0bf8f5ebed743a8aeb47854",
       "6e3f724055e5f3a628816eb8932334b668ddcc15a3372d95dd9c58f320601322",
       "b2ab8acaf3f4a99312cc590e534eb6787dc569dc32ac291bc22120a0ea016e09",
       "9c534319305e400a09dee63518cffcb396c6375bcf50129ada36ce37421f51fa",
       "f096a37c5c2291035828ad726946b2d3a366328a75ddcd71fbd8d3662c3e6b2f",
       "fa012a89113c5efe88a4b4509dc91e9b02899d5876b3c334cff8b4f6845c8f31",
       "84329d4e43b401437ce7c5ff489743b76da873314f78318c9e5a232bf2aa4688",
       "92267a49b5cd891e28670132710d2f5bf12d1582fe09d7ac02d5711f4d4c4a4f",
       "a1ce6dc8cab80b1b24c299f42ee78b61d32eaa1d815c9922d09d62ccb9c7b51c",
       "cc66b30b8bcaf2d5abf1ca8a9aabf986ab40393b1604c01cc623f48bb2b771e1",
       "ca67854f568cc0417b4dee43aaf4a16eb8c929f215ff004a2f0ba94043d9df80",
       "0124bb6643276d58fddf6dd43a70276b09a40184c3d5c3a2cc86f51573a35cc7",
       "93b27a6d922cf4575246e9fc83ff8d397dbc552586ddf451cafe0ec3149fa343",
       "279e893c8a6392b5dcc183013a833c2f68d2c814e208efb9cd153a7e92df208a",
       "ad3be5c8ddcc9220bd246e53ff0dacf911a89263f6992f623a2a2a4225a62577",
       "b19c20bcbfaf310ed7120b654354bc37049993ade390123a89175b2f5bd197eb",
       "4f979a8f4d19bfb786e3107c8601d42373e544d72a8ef5e47ae3197f85ec452d",
       "66eb1721c38466cc886ceb5989e9a452f3c737caf0b888364a49bd99880014f2",
       "e092f5dcda3ac425be71184f023b00230d17db2ff6ae37bc7fc8217a8f2c650d",
       "eb15d2474889c4bbd5f30fc22bf300222dc64e902d02018d34e916bef61c8484",
       "366c92e6f8c33e6a94a76d2f8a005e00f4633d3a85a1320488df1d29cba989f5",
       "360e049cd6aa2a8005e4869d3774bdde65e0f5645ada34ce74b32dcb201b76d2",
       "6eee4d9f37dbc87d4e351147c9776f8c1f3098db6c0e4a0f3e95e1ab1338efec",
       "2cb5aab099199f485ca3c78763b0c9f11cf8044ab7b31b6ac5923a683e49b6d9",
       "2c015b44aa6823761bd32a94b6dadd76167252fdadebc57c006d2f0f6846f05b",
       "2b74876b2c9fa64436148db0d65585891c7d7c9c1575567309cfa2b9ee9b7a13",
       "60fa1a46e276403bae46fcc6b9c4406e7f64d011c3748fd08c24d6339e14f9ae",
       "44473c457f8838f295793582d8f776b384f63b93494a3540c73f2d1447e72a9c",
       "54ee98f6a675829108dd61c6fdcf61501de61829bfefed911ba0ea227cff0fea",
       "7633d705441cdee9eec8a5fc98b3d130563f350fe71e16dd6e5e2b3dc787323f",
       "4921139d34ae0250aff2cea9e30e3ee179e44109d54787f55e197acc8b051e69",
       "6575a90f26d7546f5c58bc5e49407d92af915f842fcfda0fbbeebbf11b168ac1",
       "8178d412549d7ecbc64402859de2b233792f93add861bb5199398eed0b6311a4",
       "ee6fc49b179b0b2d5daf3027bb2618576e08a82685fd96433933aedb450da441",
       "4f87534e0046db6cdfaee937c172cf92ab3f1344145bb375c537ffde50c1857f",
       "8a50c0849c67cb562d144274c8a3ac5ad8c11e72ad939468c6b52cfb33285837",
       "374c608d18bf61233b2850364d77fbedb31b42a2fa162921ad5102f7baa56890",
       "92e08f69ca74594be74f51706ed84bf12d97615012b2c8e2ace020af712bf656",
       "cd560bb7491afacf44d368061a18665ef57995c6ba57dd37b8a4984b5fe5daa1",
       "96c98ba19c415d4a6c64aa0da272a22e627fb031267cf796b92a1ada39c8b9f5",
       "a9f64dda1728a443b9c603925d8a610ec0c99fb1e57c28bd78e3f2154ad7cdf7",
       "d544e0565912657842f6e1a14ec9fb24bdb561b4d0b04fbfac4579f0828d2303",
       "f53df3673d1a31841bee2471cf395cc63c15b88daa4d5743f1304e9958f125c4",
       "e13e714b048326ba3db9a1ab466d2ca4832b9a1dc0b7723658f24f1bae531cf9",
       "88e1e657eb862691577e1011e79e25911533e96faebed94c8a992db388e5a864",
       "d151bc9639e142e9dc012eb86831ba0a363353dd9f210df77bac7f643781487e",
       "7bd597288048d1313efa3f2e80bfc86925290775cb776dbbf072cccf03a45b63",
       "1713030f9e5da5d823bced1c29af1c4926438c5cf95dd228d2444db49c3880a2",
       "f0dbed46fed0c3e7453a2dc53b2763f6b13e8a353465eb17a0e6da76409d3338",
       "3c393bfbdb82de745d412a9d9121bf7e6de49732e1fbfed746431a8b333b74a8",
       "540511b9827fa241c052003d1caef6994e42387d3f6c2ab4e204fe028423bdcb",
       "07fa50b858b33286b405d7e9451b3ae8b57bec895494b2ee1073c01adec529e9",
       "4d2ed97c5eda374327707bb61d2cf9514d4a871badee96bca929a4ef25de5bc2",
       "2a6c249093e5672f04374f21e07cdb077666aa4434ca1ef0f68f6bee6ad565ec",
       "844ef6547587e064c4751d4c6c2614cb776bbee44f6a25aba1213718f9629686",
       "8727bfb38a6029f82ed3f1e442fcee6c21c13886b150976721b503a89648923f",
       "cc4a4ef9b0375a19be8705c404cb2586dfbfeed8a238559b71108ee909d209b7",
       "b13550b80f184d4e7e2404258e84d422ddaa1514e25152664d4b6908ef3b0ace",
       "a58a7c23d5ba70d437b20896cad68a79eabc8bb53dec8affa02f50930c88b214",
       "c15196900918b3690e9e308e0fc429c0f37be96c9a77dc1b59554b0f64b88828",
       "22fc89b11afbd5b71cf2fc7d759bfa72b9b748c9d44187e7b0641d983edb6011",
       "aea9e9dcadd3fecae4e7ab79985871a8937690d6d9b062f2a3420ffe6dc1c565",
       "e4e1f07224bd2a104ac40706fa2dced543ccfee12b41cbd2afe76f820600265f",
       "fed8f1e554d01c3ed77aaced8581c0e6105464cf50849a8fd43b408de267489d",
       "6f763e1e25eb74997f7320b5fb3bae98f0cd6b3896f1261f57a1095b778ba0bd",
       "6df37caeca5e900c8053b576941fc85af35c1a365690bbef39019c51e0a250a2",
       "42b6745fe79be1a8b38030bab6058d400bc97a39c30c88c52f52fbaf7483abd3",
       "de48c6894049270827edd347873286bf7cea623df132c7ec7fb5dbeed4b68d8f",
       "6a64468aa5c0242550decccdb7485127353035d9500580a48020146e49d1785d",
       "a6fdfa0d11604d330d1b8925c23815e6fbbfaed6bec31f11cdd3e3065eb09f1b",
       "cf1799dac2ece525c407db8cdaf855b0e76744a97104dbf66434cff50bd19802",
       "f913b24ca440faacf12c17d6340cbe10351650234ab4441d99465d7890c1034b",
       "b7d52a81a3bec7aeaf506876fe1072861395e0c78cbcd5bb0a2ba1ad3d87289a",
       "4ac92e6806b2913e2f84a9498af534e0f05d14801be82d19a4f2d7dd1d29103b",
       "3eb0886081166f7e94fe7f05b91d582eeec58fc0f7a420eb4f8b874a76fc79a2",
       "91d3b2a42581958dd8461fd694616e718f5b9430e8b4ead9874518d2fcdc1da7",
       "cc2222b8d7f7d7bd5f67e8e4963e3e4212526bc89eb68c4fd2631ae02fa157ca",
       "002adf697585664590f1ed9b372e750a562dc96f2f2a619fdac6c0a60ba60a7e",
       "35151079736e21aa1d3756e569cf5a250e7a17ccb80ca3cc60bdfac7cea74852",
       "35f77790c071695364d6c9802fc3ad9b0da1e331523a1e991291c23772982dac",
       "385eee4faa1efde33d8767d0d1ec7f21d37c0be22b9db47bb092ba0722efe011",
       "500d00019eae7947fbf5e2da9626753aa564825b7f92577e46b04d85fa88e0e3",
       "dd7c097dfaaba74bb5e82b56fd45680a48751ff23a2fcec648fee6735a0f3bd1",
       "e80483cae7bdd3fb4d4184b335b077d65fef810ab9b3e5a63736690a337d937d",
       "77eb371a9c27ca427d1bce1c52a0313b20443368ebf582d99b885189042b0056",
       "fa867cb21c58df219e01bbd7ab1e0d8a7f61a32b32d639320d4e6c1bf9ed7378",
       "22ef52a66b21eac1973f89e4c8c48a5db396830bfd1bad4124b201110edbbc45",
       "cda401a6daed46190c2599d2073bf59f87d12680f7012dbec52ee91c522cb7d8",
       "89f2a8b4f892fb94e8ab6ee7cf2b94d44e88b3edab90ba122c04340fa38b0f1d",
       "3942c104cb8bd036d70a2acbb50563c48c7788dda58b46bacbaf69e1c85fb211",
       "10b01ef2fe537d024fd1aa39937189c0c39bc7ce84471abb864d5bedaec615e4",
       "2ee5c7937651e304525f10c8bd634b823866cb13cc0020fc1028c843543a86ae",
       "e9ccbcfea38c28c03ac6a04b7b5360048041da1ff1d47d7f0a88cb541465d30a",
       "7ddafa0c35099663cf36449cb0f64b96f3e58c203e9ca98ebeaf825c0d6619c1",
       "8d813de85d2fe140c906bf3ea8273e8b44de78a7e3d6834fafb8e91c842125b3",
       "20459991fd727cac3f45a4bdb2dbb85f963225be333a8ce3fd4bea8dc11f4cf1",
       "44fec58e0be8d5d142370154151c1b88b4dffec7f3291f230ca8a6a69e69ac76",
       "d87de907c8655f62bfeaa5119ec9dd5a33ccd3293ae4cdde8fc85d4c3c64bfaa",
       "b5b9813b754e89a726b8920dac09ee492d37c42a7a60416008f7b55c95d1254e",
       "634ab6e8b7a195bf8fd3be5766b58f2750a0052d16590be1511da242203ccf7e",
       "99fe763e6cbdbf361a005874eaedf731442ac577c66ac07c4a4bc6433f5787a9",
       "3d09fd4e07065d1e01364e8498ef01542c2495ab9783bab350cadd3a723c08ab",
       "8945a2a88046a82b8eddd124bfceb442225f1a3795707f79cf1298f33eecda7b",
       "64e847528b0a489349f53dd3b81ec284c5fd85fa1f7726a3f7ab743120669e41",
       "526fa184518c65522355c6bcbd6224d81361e3df650a2939e92e996e57c6ddcc",
       "c5f038e35be024ad21879cb93f948a7d7790662f7e4efbdcab162b1a38328ccf",
       "ec1f8f5136cfdc7454aa61d38fa7f29a55439472983d1939087d46e74e2c6c75",
       "d9cbdadb48f54b4d8ebe92fb1f775d6f54f59f2a6f1ee21df3a3404c86728ad1",
       "ae83871d6d4742051bb05aa2687a9218c9e158d5bd7442fe9f9c52f94b6b2588",
       "48f2e54a7608118284694a12e9aad6eac4f87257aafd255d39ee81990aa14dde",
       "a2a024305552bb65cb81959e033ee5890f9d963408950419e59ecf390e9f4e79",
       "3d1ac2a69efc36ed69dcae15aceff44d2bdec94bae48931f941883319430512f",
       "af3d421dd9a367820dc162b9205e3838a0e3020c1abadea951c8a96b7f8f9029",
       "37c2afea04206fb8d5451735162e00c18b885c09927a99c7b7e2413ebee16866",
       "b3df2c2ff0298bb023a617e93ac9980c4115503c058ab7a4e3108dc1c414b459",
       "1f5102aa9ae361782e15d85ccd40d365eb4c00c01f3e9dbb7c4d24198da244d4",
       "f17e5474722cc0799595a559ec887646aee920087b24bf3e79eecbcd302be48b",
       "d658498ced08c62f01f2dc0c8c7a3accd365caf2813f3b37016c76fc0e82031d",
       "adc5e22b5cb6c4853d69959c6a1d0c575724335044d091928e76cb50c0b92ad3",
       "39c08844bdb3fade59b9d72086a9f4722932a161408bd8dbb7b0aa62e9e062d1",
       "57f3b561199061484bdf4160770a9a75f88f330658a4bfce5082df9e8e3da1fc",
       "c9fed7e6692e41391f96b1403f82982c5394d685e5d0462ae7fd3f4afd4b5ddd",
       "4430f3f8f2cfe1856ce8260530d25c1eee626efd3901f5d07164f17f3f8eb1f0",
       "fcb962a548b502eaf63a67409847d6f009b6b4d1fec07c2e16d3bb113faba07f",
       "a4dbcb24f432b9f21c9096bd8aa380caef4d769351cdab9d2deaa824efe9e3d4",
       "0d262257314b8e4c67c6e522d69b0c4f0463d89de01191677e8da20fde7ea183",
       "22175d50462480a46891f9ef1772754c6a367357141ba6ddd3be036e07a793b7",
       "67a9718d0e8af385058b76b556bf6973e4b9587c749547ad7ff7610b755e8a02",
       "5ffc06278245655846ecd29a5370adfc37ecf6ddafe25413fa04096b7f6763bd",
       "0ba1a54c5b69c3463be41d0cf71a52b0a59f68d30f8a9f88e06cedd435145ffa",
       "186e95be442be54c920eb86d596fc7648a44f0bab8b69dc3bb20e006f2186e26",
       "b42c9b23aebf26ba6545b90faf81fd0125ac66bb445b627568395b7c7af52386",
       "51ecfec3aae60724f5ea76e08e561f5585dcf4eda1ee234a644c031bcca177ed",
       "c242edbb38cf0ec08d3936fa5420f96e966653497d69e43f9e7600fecc18f018",
       "b3fde5b9c24406e3346f400e071f7fd8c5520c132abb1b27d490b1af654fe35a",
       "6776ab5b95762cda0fe0f9cddc4d24496843070ed5923ea1afbe340a1f4dcb7f",
       "7878fd3ab9d8f7bc28a5005709b23c08b5ccbdd1a70770d80a5f55eb4d266380",
       "23f6ca4963311903f1060b605c618038a4b4df0f02b1065947336a0938a4ac23",
       "104c2b060cb787be357f4496a9d2d5aa79b609dc9817dc47a1772c448732527e",
       "80d1423b93e56625d95be53ee83f0a800a7fb295264b3e1446d1c29d4bdf25a9",
       "8d3a60b631cef4967e09ec333de24714ff1b4b23bd51925fc27454f8a60d4561",
       "36ceefd1f5da8f2999a2b8afaf2cf00c857b10ec6d6f532a699a54f658f8975f",
       "0ff7f8597b7cd2ac826ed0c391cccf6530e975f35b020e15b5f42b69197638ed",
       "621f6a3be39cf1b38a276beb991460c9dc2bace6b4841fe2fd5903a4001d6c4c",
       "ebf7a579d567db84d8cdfb429cb2994d3f653296698454a22b81502fb611780d",
       "d255121dd8da6a7cbfca429b178bded003f6e359b569844a1be760f5ec6ca21e",
       "38e8811a27bb047c10441d0e533c1dd2bc2be28628e2f58c8a38331dc72e52af",
       "f3d4a351fc9c694b4051f4e9df4580cdeb835249136fa2b6e44e2a9470687c5a",
       "6d703ca1f2dc6e05714d3026cf345ee4acc52ab3aa9158644520c04da9e9651f",
       "8f87ed5a0d25857ae7d16c12a7301b9c044e0836ad974241bd03d3acbc4379e6",
       "2b9be9d7b56f8ca64927923cbdf0b8464de8719c1d8aacc00043f961b435dc1e",
       "8fb52294a7932123ae108797a830f0fa0991edd61d32ed2459c964314e7dfce0",
       "bb3b858a38460b489f015b1ad26aadf1b77d0623b8c1c8026a8c03aa96bad7d9",
       "20e01abaab443e30a4a4c02c209d3db2766539fc4dfbf643835931a91d73dc26",
       "431a52016480e24f955497445bc535d04979d3f1f9a24306e0957a0545c5eba1",
       "b7c09c8c4d22dd04a18c7c7439a2cf985853e0555ac0fcb51eb72f4310753033",
       "0f0f46eccd9dfdbbeb645bcd0c193b562ecdb25fce2fb4160542a143ac9ddbb6",
       "5d4d96791523750e54f877d3bfb732085bbf4aa41f806b1e41fd42e1fb348287",
       "7887e64e11c29ba22e2b57be38df749ddf9a8810f75c84f53305e98b1c984dfc",
       "0bc2f2f722940f1e83b1d91035f2b0e709f33c76c6f9e8d9df49af01980d3cfd",
       "f7181ce44242d928ec5b202d9b95a5420c2329bcb821ea36e0108d30dc7a0a5f",
       "41aaba8a9a4eab022d67dde3062a7f84e66054ae961dc066ad17f8a401ed362f",
       "4a7ea36318d8ba34bc4108dd8d6dc7c88b88728e469e37e59f929e310bd7d1d0",
       "fe3c3877c71611cf404370c18c8b5fff19e7d1c75db8d4f45963ae0dff647382",
       "27b3ebda382f874fc5df07b395f1b6a4cef52022662f176710125f0502079331",
       "ccb212b657f5801f298889c00fb66f5b901f07dfc2bbeadfaf3cbd181afae3c8",
       "982ef4585a38592a05bdc5db5017467f1007dcb53ea17429f6fbeb97535446ae",
       "c4f9f3093e672e29cc9224472ae44b4f029dcd7830551c540080979e919fb65e",
       "a6016db904b2a60e34ec6e5af3bf3ea4c921b43e7657483094bc4a45e50c25ea",
       "140862fbe105e3e952494a80fbe35c91fc89c0ccb8865cd7d9e522efc48d1714",
       "1eb1d9f16544a2a35a254190a13c579d3a162015e793884916d9f33607f32f12",
       "392e31e34e3b12ae09b785d1e40214f12128b0a7f5c7f437965ecaebf88066c6",
       "d9e5cf5fbf8cdf286a98805b2fc184e5c0ba3267ec63a5166429d87cecbfe1c6",
       "896da964defd0e973077cfcbc64b7d91ffec959cea22ac9782ea2b6c9774637c",
       "1de7f85ddc7fa81a6337428f646067a4a0b77225ceabcb5356fc2f218f169028",
       "2986f12c02c72beba77aced38ce22f1052395c4d20e093099ddf76597a00ab9e",
       "d82ec0f1ae154482619c87c0a254464a4419b4215ee25ef2e56020f44e5a5265",
       "d8bb98aebc93dd26a1722c7b826b47f8d7e7c7f78c7d4554131e8fab4643ee67",
       "8f0f93e8aa0d6115c63d5abdce3673d8670efcb8411a7e670d5a5f4abd1eded7",
       "7f04fc8305ebfeb4bebf3576d2d20da6232209bd75ad1e73bb48630c5199d3c3",
       "b5e28beb5b49fe23de4a1bc1fb518c2daee86df3c9c6fd735da296bc1cdf850a",
       "3d3e3df5eb3b970d20a9cd9dbf4264d084412597dedcd1135abe99fa0b41e1fa",
       "018310ddeaac536a714feeed678e66a797af39a86b7d366edf1869a22f96bd2d",
       "4082e673b6964d70bcce1f08afede7122a0df206970ced3a668fffa8888e5c6a",
       "cdfabf23f95be89a5784b13c97e3978105d5d6576fa4d7a9030cbbd27398ab71",
       "4b95272089e2e664c4e3293126c5722624ee7828e77dc472772339d5522a2d87",
       "42301f1b356c6ec43780b64cb7c963ccfed73387cb04bb60c66ee96df866c4c7",
       "b7f8f20a6fe6c5ec05ad92fe43ed76a510f2eae210499d8c6173c30dc8425772",
       "e024245b8c914acf88ee0432e44abb7f78d3375ef1f1c941229d1fc5515a7594",
       "b4cbc349aed57e32ee83b6c8a82b828bf8c13beb3bc6032239d1ff5aed59ead3",
       "ccca2f35bae2b08a4ab87b1d06ef84f3db9cf0cebcd1a1adcba0887bd308a072",
       "1017d4770e91fb71b5d7bffd9717ace2c735372539a19d27c21c60fc4e2a3b5f",
       "f6ef5397e17e9de77fffdce6ce31644923b1af2f4f49bbf49433694a133344ea",
       "72b716cb6ef7ba88fe3ff3370baae58bbb02827a7429a443f1a991398770ca8d",
       "dde37c32df6ce2bd3e761b5360397667452233662b74371f3fd3a66b74a22b2b",
       "3263645d3b62700e7a2a1c528b61ad69c796cf1dc3a7d55608a1e8d3c76f5b09",
       "39027b74f73e12814417d3ac0caec434d1500611b29d6f0e72bb131700bcc8a8",
       "d45503ce132cc9f834a8cfe8d179362642dc639ec0056ceb3588d4821ea59316",
       "571155f7e7bd06c8bcd4110e661f880b5f4f00a869880f81c5aeb69987c87bf3",
       "bbef7f4e93387be17af9e1b1085d0601319d13158db4a635e9f351d62dcaaa30",
       "221750b65e93fdb02dba39253b3298a642be3ec3602d2b43cfbfede4b838c0d5",
       "43074fe92204834894898623188a311cceb7dd6838862fbc8e598bdb9f02101e",
       "aa5fd5ba92c2eefe3abd5e34086281c06c35f95ec7a79c1d0aa024a32160dab0",
       "981525430d08bb81ef57fa89bca9df2e232acddd035756df3f2870d8cdee2616",
       "ed6bb18b8cf6a1e42d0900871be434b7447aafbc942f6e32bcb4905ba7efa0fc",
       "d28b64472d78793ba597574f3ab88d7c11160319f30ef4b297b60c0cb19e64ea",
       "80ac02f247167006bbf6a9383cad4147fd3aad2cb100abe88644e4d27fef189d",
       "14ed526a75d9a77249753cc26f43e386ad2f617200a7ef605b76b15fcecdc760",
       "6c0064bf944a957ddee242178c9974ff2a4cddcca1f9c2c1fcebeba436a05a1a",
       "90dd64aedea2efc39c0ae848ef8590e65a4fc3129e0a430347c095dd14866001",
       "383d6e3b04240245545ef995c93f7590e6d83606e317482ea0862d64d3659697",
       "ad523119b43e37a2135ba0aa110a7ae703806f9765b044f8309bc50798314ad7",
       "7d9777ab4da92d56a5adc6cec0328b0b9fcada868d23cf23140aca864edc583e",
       "b16e8b2377d792de27273e048bccef4c4070711c0091f3c2e2f1f700fa47cef3",
       "eefcc02b9d520dd701893cfb0462f7acf1e9696ad091fad2db8c1b42edcaf694",
       "aa23147f42c4549044a7b3b569a810a72cd9cdeea2e8d36c355b8d9aacbb9864",
       "1070de8bd84ebac1f289d8b5032630ee55c3e7fa23aaae6fea03d0272c9c5d12",
       "fd24abd7443395b8132e6c427973489b44747c19655c5ec7fbb10f87f170648d",
       "125cfffc7c9d2107e6e6f3be6ff1eed32d5196cd28fd41bb8461bc8e4f9bf089",
       "52cd952bd834e1b3088983bef3df4e080acf76a0a98d025225ca0920c62e983f",
       "db8dd9652c6e28339f479471e7f2f1c39afa47764a49b65376743eae4fd7f734",
       "19be5c12175155a877302c4c0c5942754b026029486cde8df9862d3e1c43df4b",
       "184fee456412656e4b0a02316f3ecf94a9a522710bf26312c133b42b4b0a507b",
       "69406ea58a01cbc3c2cf68109ae4f64ff9570aea79bd091dabbcd3fcb59d1522",
       "830729beddcf48fe46ab18d3ccebf38850decdae9c3fa92af64cd3e43668d06f",
       "8a7310a44af912bd037f6766a7aedcb737530a23cc6d19ce1dd4ff66cbde9f4c",
       "4ece390b32ded05d4fa3aac4d6ac2da9f61c6e814d0c95880935d9a9db4f0623",
       "f63c0c6c7f296d0d90a296b92de77edad79f179ed5b5ed5c7636be737c33e66a",
       "c9080e703fab4c6ff24de63d465373ec5fd74d9759f21d706707b9cc64b7fac0",
       "8efcdc5b499bda428b496abd237491df9d3ce4d206c43a7ce7f85e7cdced7874",
       "65d869550056aec31f38d52ff96e700ef0c5eaac6c884178cdd086df706d38c2",
       "7e4e42f9d1f2286fbfac15b0a75facf4425e644feba14e58abd5d633164e1d90",
       "1734dc15069e7d8c8d954307953bda3f8978c77267ec44f3d5e9f0465e7c6412",
       "71af29517f47061bb5fb97545701b52d1c925f0f5ce0cc1a5b0124016b60bc8b",
       "2afeda29c84018b0f8223724dc488366fb469cbff76ba8a4ade7d83c6cb2d8a6",
       "ffa3a88b4f5f861692b2f65e986867dc98e396c1c7a992c63f0a6ab03c0d4858",
       "7543eb14afae9a7d51e15435816e733bb004fc0c54abdfa29dceb9335f286af4",
       "e3d83693f0b0cb71b7031d8552dbbf6498fa136aa74d082ce3f59e5b77d2cc7d",
       "99c0ca140443e6819c562e048138f40c7881de978963298366bfed8251de51ed",
       "c0591b6f38a3ff305ad5453f32b1bc0f7f9f8a7d2e5a6c15fc3fdb7d5a8fd31e",
       "89c662b3222e0a9e295494f611feebfe124394d502847b132b215f98ab1ae353",
       "51be718824fa21eb4ce6576efc2c7af441d48d0831f6fc5af90eaa4a1dcf3d4e",
       "580465e09bd72fc51d0a80ba208d20346f07a1bbd7e057bd9a54ce0422458e92",
       "cd7e1562bd3fd72a9a9a6f1718d5f0d033731dea56e5bc3775ff64c19d35101e",
       "0edad1a614d41c315605af49a53c690447c59a8534c1b8c6cb621e23e0257ff8",
       "77c013e468887827aec50a2fc8fa6489cdef0ac1f8a062703f2e5c96854783d9",
       "1f8ab8e843f4ce83f69feffd2177d1a1a6e69394ab740f1ac25a7fb9bd683f53",
       "52cf45e4ac86cc98dc05f17ca4f4105f5b639e5fe950c1dec9a9153a499e5039",
       "92276e89ba0d95c447ab33702425829edc6ff54dd85d044534664e1cafd21c7d",
       "65fa42d17a19c59530ab59a20b6c50fad7a396c3f94f9255d6007f8e4321abda",
       "25422a26538419a8552ec8196038638aae042515011ed4ed41c48c42cb5b2273",
       "1cccf7d59c52c25d58d9547c9a85e7d58b20a19091a98906046083712147680c",
       "0cbc483835271c5277b4603c86d720c62c94d534e842ddd5f47c46d7bdae0ac6",
       "ca1129b4b0f418be21fdac55601ebbf55ae41bb7b6191f4deb427ae7517e69bc",
       "ca5231d2b207808cb669ac86713f5da9f65d91f3eb8ffbc49d06d011e6c16534",
       "054108a3b930a28dbbc18437f8321c2bc2c67076c55030cefc8ec6b364cd3daa",
       "278e89d0f1024c1e27b97f420ac6e7bd48ae475dc9f593788760860959feff64",
       "1b2bd4425adf78d33b4936b9d1dfb902df84d1f6f92e9596e49953c7fc1563cb",
       "3d55ed902305b9a7a372c6b3ccdc27aee276f4335d6815879ab3412d302c8c89",
       "96b268adb74cc081eb7ddc92214a283ebc9adf1be19c5daca336b67bb7e52f17",
       "ba3fc301d917d011b91ff99f5ba7b3f03d02beeff2af9a911656b8d15cfc8f0d",
       "251e367d2a109a511e2fe6f5c6d64e336c522d4003092a07c5ffab1aafaaf9c7",
       "cbc019063ff79b2db117c58c7a9f9bff69de612edb25116f7a597fbb6dc13dc1",
       "b8770eebd9a7029e784553eda6445d166b652b9bd24b619654839128194d9f2b",
       "db23287c5281b16bbd5d0e6ef81547df96ff4c2a6dfc91b71c11584448646bd8",
       "57f62daf6ce4479c5f8d4a60c49bc0ce6c86c5b126e31d7733b61fe719c0ef45",
       "94badf2dbf25c9bfc23462d8ecb1005aabec372086463c8b0613d5d79d824ac9",
       "775de6faa507279261832d727211f9da3bc814e44889c6f901f52c41e72cabd2",
       "49745508f9020719bdffece45b5da23e222caeafb1003bb6535dd2327dfb5488",
       "2c52ed76b2b89775023ccb5c77150e954985c493c053f9fc126053cf92ca1699",
       "82fd97f32a5761929385c640c66b5d9428b370b1bb6218a10209f3e38cbfd0a1",
       "fb2c195843af4b228d310c419c9ed0768f585ea46416ab08946c0144dcbe8769",
       "6a0974a9ad52a8ba5493be96b2fc40bb2cfe3f9eca93e7c490dd557b756282b6",
       "4a3516440f4be9a9feac0d8cf9e9d52b9e8e3f377f996c4513030fe3ab3c4655",
       "e33d2a3fcbae46a9e671f6d42cc2d8e1b983f6b69817a9e10fde55cd2bd9fb22",
       "c95172d8120740d39308067a29e2fb10ccc362d9dbf0da9dfc90f718a28933f9",
       "90fe7bd7b9a144b7d8d515be52e25a49326b0db1d976fe18821d3864bf128b98",
       "10c133aaefef4f60a26d6346b816fbcb362ed76ce807e49d8386c8cec5b22cc6",
       "5a9f4c7801e03d25b47627dc678d3b149d1b1bb796c951257365523760ce31cd",
       "2299accce4c7ecd741e990a636f806d2fb4e735e99def326bb7583203dda3fe4",
       "da18a96726b980a31bd5f618ac66fb67a0f8c77252224861f9f0f14038933ba6",
       "9870a2fa7ca1b725007c4e5a7b92a456960a039ff4eba53f95881eb075a2ff67",
       "beb5125c794836b865c62af949f3e33b6dfa1b75890be548065d692503cc0c9f",
       "b5fbae0539d8d7e2c8574f5b10efb526563cf2392a80693996347ae0cd7b3245",
       "b9a9f3d562e0569be32c5d9d6325ccb5a7ba7c014304820fe021261e75fb1464",
       "e04d3a805a2ea556c277837e447b6ac0eb653a8b43231c31a3e1158c2cae79f9",
       "4bcaffb71d904e814cfc274e1b3c173e48e02c30d8334d4ec42acca48e0b0705",
       "859e484c1561771ab716e87554ab80666efb0d54b18fb257658718b08083666a",
       "238be963bccad5418557b814dbd6e81c9867e0bd87b06f269c43e5dd996f3491",
       "72d5518272b26866396817d48cc72d57c5886a142a7e8d5be75f61959a2a2781",
       "2fccf99d599b7132e3da530dbeb83155c73be2cf2565514a8b354e9f3e765230",
       "d2e3721213882dd4fd509cb4b30460456375073db77c5aee221cee2110c53790",
       "742881d40bed5967eed6bfeb4262cedab6f58b7205e810d42366f3359a3ca7b9",
       "7d064edab92a5f92f583f3d8f5c9870659b9ef90a23d6c9ce5eaca1a50db75fc",
       "b45e8ef02d61c1040312949f118d0489acc5b4bd0dcf071d3fbdcac3623525d5",
       "958fb929ff1a1b6b3afd4c83000604127614934f92ec8517f2e1426d0a592c6c",
       "65f61a6b2712a28b2365f619d473a9a3fb7ff6d494484c048431a63ac41ea985",
       "8f3b1465075b01b437cd41a0af12fef811d7e7abbb4830b859d271bb38a2c2e3",
       "c8df390bc52db1983789729f82d542992bd07a1a51bf48b0f5906e7bac69f329",
       "4487f4d12cc459989b3cc394c4927a9f3e334b40e4cc4cc1fced293017f65c35",
       "34db3b14a1c30ee83f4b7afc5f174be7659023ec870bc939ebb218e6e284903b",
       "c433803539faca7161d6c61316831444ec0452e348338c3e5421a135f92ff09f",
       "2b82688566c7ada38693517e05f2eb42a04abb8d6243beee441b0fe4200a1fee",
       "4a0bb9a3c1db338c1729c7fd000aecccfc16988bc9ebc657798ec30e2a0aab5f",
       "c8300565e9d5835fe529916ef52450f6f02c36b22e445932395246f550267428",
       "7ef309ca28aafc8264fe1b742bc6a00915acc83788e0dfb1486e6cf212d6fe53",
       "e92072b25343baad35f9a40785b43ac01704a0d240d0f23afae2a92122d372e3",
       "c3437465a0024863eb01f8cf44c1dc33b78d60d97abba44f3e214a4f3110d0c1",
       "a0f181be1c38889cd484dfcec6c2b0b2182169ba83b32b76bd248877a677dbdf",
       "5a08dd9a5916530a498b99451c58212d640e0281020bdb300df03665e90447cd",
       "c93e5f67f22f1547c8a8e8155d4e360985b7cd9ec9cbb0c34023832001a63d9d",
       "532e3c95c6ef6c6a3dab14b1bee85b3a33745bc5321412cb69c42d76fc68340a",
       "9aea569cfe87e0297794f19ceaa26e123a784cc3881483f82c3739ccc6655dd5",
       "e0621398a508743e34bef08d2f18afeb8e50dae8debff4e32ee011be19179b68",
       "20e4ae4b399873152a602081f035db21334097ca09e9cb599d56e2f9f3e5385c",
       "8eab60cef6edfea2dcbd48e56efe75dbdff66ccca70c2ef3f5ac873350563363",
       "481b8cdba8b4784ccba774e80e8b71d4a7a198044a814324e3ef1748bea6b2f4",
       "6b206f1c15d6ccc691bcf9003cab3704c388f21d49138bc5c799edc297b1cbed",
       "bb07907ba840319e040f7e0d2ef228644ff8391ee5e46d7c3c8c74e797347d6e",
       "2766201f9504b2b12cead14ada1b3483c5b5a9d4414ded20579b6272c235b426",
       "3b64a25b4a5e52cc0f09a7f7b951a9d74a43f16fb37a223055d4b806f9d112bd",
       "25855629e5761be5c19909429dbcd90ad13c8c6d5652a9f321b07d2b4d91fb4c",
       "a2dbdb33a534f994ca81421c64777e44fd9ba81590c831c08863ac10ae7b9385",
       "faf5199eceada2372636ee075b1a99dc07e7b580639684aebc977dd6c1ee6858",
       "17c02ba2770d6632f510a60502c049b6f59f13c26069e86cc440bda2cc8fbef1",
       "04c762b36bf68e86976f3e9635428f8808d5374ab0272a74b8f036f32b1ed71c",
       "106dd30d88fc851bc63735aa966b836597e9ff6a31e183ad795f481d0c4c934c",
       "11c5026808eb1853b6504b7daafb5985c279c7c46fc692be9eded8b7c22e8542",
       "4e36aa93d6bfc9f8604b25b319f04f338f7054e49fe6084b3fc50cac9ff61a15",
       "188e2877ba4ab10513f5013844a8d5ca58d8450e540696990c67f8623d544fda",
       "36ecf2b570a3c04f745c6c5819ccbd2572dbb1ea6cd7226dffab903288698358",
       "9d9c9c3f11f5f4d4a00b408dc069137f73402dbc835da7ee70f6e2ef2d2a4eee",
       "47f99367c2e84781fd27d3945a2f52ab73f71de26ff3c48b32540a984799efa4",
       "69a20fa71e171a42f4a41250b4e7219114d603fd5c91c1062bb83714e1398085",
       "7f741553972ae4d1a3e7540ccf37afe5bdb0e2e3b5f1231abc52674582ab6181",
       "ac009ed20c04523199587810d6c0d7064a3783ecd1743dc3f7430b02cb04a670",
       "6f3151929487faf62c53c49e548530694185672a2906a26ba0098daea1749e80",
       "154d44349b8407e262a47f6a3e954ccc36b5ca42d4e8c2083e6987a5bda35af1",
       "48958aed5a7e23116adfefab34604b880d885b51dd20dc1b2945e011ed240545",
       "8d7426c811696200f2fd048cb1ef97ccc42cfa4c3a96d94974dcc2a2a769c13a",
       "0524955e23101072fcad6668869f6e1922236498248dfc322800dcb5c65c2066",
       "f35f8ab23340e185d9e756c8edad71b232c59c5ddb9970726d6afba31163fd94",
       "b0d2fa66c75db47269fffe413d45ce287de166edb56780725e73e6a8188639f8",
       "026b89eb469e5156305212b03b2b7bf5a032400011aa525dc665e26d7b82b916",
       "5b8eb748444fd10d8b366c8037f3a1873ae70aa5ddffe308049b992d2b47a560",
       "def5311fd388ad0c147c3380c509eda851e41a49518fffb19ea592abdd3ca736",
       "76f5bfa172921d6490117a97a32a2f858758ec159554244c5e033d0ad3ae1f2d",
       "d3d791c2c39be588507a240cf9019ff62c6664f3ab534cf8f0bb1d0df01f6e3d",
       "4dd28f3b4e10706e65806b94fdc3cf5540424f3947cd1386c3de3550e2497ef5",
       "7f6d56c7f3214ae0b0c4decbf87912caa4ae52c1a6789b7956ec75ff60fcc549",
       "a6b0cf907abc36c723b5b2614fe81f4ecdae6d82bd20b614b0184b1040e9f7bb",
       "32e6f44ff8c29ce141c0d61ac3609f6c5faf4e0730637ee723cfa9f9511e5dd6",
       "285072dc8493898e4be06bc561dbed087b3cbfc6a5e40b2faf8c8a24717b1049",
       "413b0cbe4b2423dad2e1bbd263c6c803f34c83f0336b3da60124c02d11e39cdf",
       "24784e9b7dd2c23fe248a2632fcbc1e2f3e1e0d2625885224a67124087cee4a0",
       "ab5b9560640dc7203955a2e2879e8889516aa2d15f4092e67367761bf4c2999b",
       "37c47ba95fef3a854cabed680723fcc187cb7ccbdb7b475501addf699af315f1",
       "5c58752a120864b0dcc1cc383b7ab6d9995be197be64ad05a1339a6cc19d2288",
       "31f9e69ce67eba6cdad240729a0beee21d2e40a9f1cd53da2e04a0ed87131a5b",
       "c3cd66a88d54e85fc1d300eba08edd5d2e2f326dbb87e9a08d5f71b8247ffa42",
       "439adf8663ee8bd269fd4f8b745e03ca3027407d08dc60031f0b52a850161fe7",
       "d7e5638f30d114ead9a13c5d9bf06d282c3f63721e54a8bf0791031dba76da80",
       "0ef64db6809a54caf78172e178280d06f99e2d4e0b729639e07ce00a76cb1460",
       "472fd60676f47f0785eea6707c0a5ae0592960722424ebebca3ec9238fff62f8",
       "718329e6ae50ce67aeb30c6b56584a07428635482288cb8e2fb22440b84d1a1d",
       "954fe1546d5d39b0f0f3b9dae731a01beb6789875e6238407f0f34c9f5ba2ed8",
       "8006a87b9c69a57ddd484389892490ae395ea2e06651f3c2feb87fa75fd8b45c",
       "23f12567d8518ca480fcf1afd84215050a226efffb6291ec313acf51d91ed234",
       "19228fa3d96954e6ec26e0b7fcc6cf934da92193048767bc163bb8598901cf2f",
       "9cf1943d29494f35fbab4414a52ed09c90091882487354d4fc6f612cac228745",
       "3d094952482c981c5334daae539ec50949142c32d5acd1580bda57e705b8c85e",
       "bfb076f8e01cc3e241be9fb8524c0feec84a037fd8b75b531c0534c90489e020",
       "ebd8dba3f7ec0219e9b66dff036b37991fc63a0fea906a6ec6cc5f2ae9943bfa",
       "dc255f11d611b3ae377f119e3128b2f19217599c6aeb1e70a6d3c8d026c59e32",
       "8b69a0b95ee6a9825db35a095baa2eafaa356aa6edd69251ad19daf710bd2ef4",
       "c377055ab38a929dbf0d214b28d353190d2bb7777560b0725c009ec8b03f8370",
       "6f9e87992cec0ce1fe5c5d521f2ad5120c4f410d3405a180b9d82c9a7df497d7",
       "12acb0c492b76b93a8f3ffc3a83e7cfc270930f5888ce833419a5a879b456800",
       "f19146e2277856ddb38e35bde27ea2abaf0dfe3126469c28ba594b0446cac680",
       "b28ec3a24bc86420757d05d8da4df52b8a6d21ad67699d8a4d893081dc442260",
       "a63c2cb001f5734dcc97b0ea98eaf0e391fcec9593d6b8a4bcd0fc89eba102b4",
       "b5af407de33025dea9e8a27e23c68dd4858bd6ec582f6b677ef2de5b44ad0f90",
       "f6bab385908d20c8b925eb799f883e0475802e83e40d1728326cf1ad4bdc0778",
       "5a30036bd20308a3269ff912bc15469a573e29e956a5a072bab6b74db800bba0",
       "38f4735607242f67a3c096e52747b73a50d9844cf174df412438d238d215ec33",
       "918cd855cf5f3ef92ecdbe2ed0af8ec7544c1d93bbb87f311137714b407cdeca",
       "958a2c94ff4297fec912bf1c707e4768918a4ddd74e98767ae73784b0b0d9f63",
       "e533f3598d7870a1edb4c59126e72088ed8e4c4560de987fa5137739d8d18163",
       "580669d1168f602dfb101c2cae19fac4cbf25e2115c61c9018c528eb15d57bca",
       "c46abc31712b1f2710a3c9acc84a97d397dab4484a0cd34a8b7fc1fa413bd787",
       "1e44b7f3f3612a29765cb6d7277699c5c975cae585f91ceec28863b9dbc371a8",
       "581455360390557553ce6cae3d0990161d067b2fa64fad1c2ce30d7d790e976b",
       "736f363cd28d1b1550145cfc64662c9c8b94a593f9a2c2bc6ae984cc5976ee18",
       "0a4222d0dacc0a0a0d5013cde4bea3957d06bc4dd7f11d5a333bfb5a48b4810f",
       "249d4ef14a0e8c8edcb938b3b4d548a419485e719f80418b1571819b54ec3a2e",
       "c606b3026bc63b2ff57b0144be5352d8ef6dfcfb917d2e0ff44c2c22c0ef1635",
       "60c8a78951d943e182c61532cd0cab771b56f014f86bc2f4d30e4c598cc76b2b",
       "3f752f0316fd1e62f42f9eb01155b79c184df84b0744367d7a623a50caa77787",
       "66e1b28b088e07f9418c44d4a452fe4013a4c51e699f8f4e2d616115dade75c9",
       "46631d9b0c72e32b0d6c4eadebb6ff04267a8e8cc05906fa2558830db9ca9da0",
       "0b00ce6309d16295aa499bd7821f59e5b37e2540b84bd15427fabb3c57572654",
       "2cf31265470a92f7629fd7b75d13423dcaa95af699dbdf087cf6dbe607c00fb4",
       "5a1b56dd64f5af369045e4a5b3261b47866c01cf31c3cec500fd2b8c3d0ceb54",
       "9ab6cfc4e7adb0f09fec0aefc705339db747021afc8b1266eb9a10a79dce2af0",
       "fac53b280d212e3e78107fea6014656be0d4bdacdd5805b33f524b3438f27a0e",
       "3973dcf41886c03e02762c7c41ce34f0e5f59cf62c89d3ff907d18b69be59baf",
       "489356c13f8a02b9d4685276e93a6eb6e964a224ca15e1f4b847a9390e1fa83d",
       "a97d902c3d80cf3ab266c17cf7f4367525a05c45fccf446dc7301f6404d2af85",
       "90605ef23f89cc112cfaaf5961a24ea5945a4f0e5698b16a09f89132b3e5c422",
       "0f7efee8ba8d8f824069587838cfadfb4a45f8793f0e74c84374ddffd1410078",
       "2153ff210b800d87a04ce75a03c10d560452fc515233b582808de988cad5061d",
       "246b41c0a861077b1fc48db0577031c8fc44e6e359098233dd45956605628253",
       "d67f594ad7e9061767fce80a0705fdfb7f76de50c78b2319b20e0b0253be5828",
       "7ae4b256df0450d8598f1e45e8eafafa509c7d2035b840ba584b50e250ca4ffa",
       "df1cfe7ef583e8d4a42b652e4e833064d270f00ccbce39de85b978fa3f73e47d",
       "6bc3785650572607bbb4b7bc2efa697752583cb7f45a837c41f4576e7b1d6dbd",
       "c5367ae7ff186a1158d0d6e0c910fa580ab175dfdbc2a8d0ae894e96610652f6",
       "e43591ee8f798a9cc40ddc33cde01bfa8c17fc06afb35778daeba670d07a91cc",
       "2833159fec109d7b9a688da8429649e4d39e24d9a3bffd8b8a66f40aa1ce180a",
       "b9e08b0f5cb1fdb4dcccf45d5ab13f547033cea7ca7eaded6c506c05b903fba9",
       "e33f852c59c6e63a8b5d9f35e2ab42229774da791adf22307ebf7924836931e3",
       "455932ae1c5b7c0d904ef6ac83fe017f5d6af229934282754ad262841765efc9",
       "dfcc8d86ffd985c9cfd45fc3fcf50d743336914be6f84f929e5f5652afcde705",
       "a79abf3a194568b124c8419588e84a7eb3511eb3435881c396e5764af172110d",
       "b449f8a2336e51638c08c79940fc72f17cdb3241a1a07c03599ad2efaa0fc7b1",
       "e2ce501e845c7fd330d1e55e1b3a360bea70346aa9c93b29d98faa56a117c540",
       "be7a4fbd3be24570568c407969dc9c31f0a73a49337adfb66c0dc0f4c8df6ed9",
       "9b2aa31769d779343de8edc358b098df9fc3ed5a736ec437e422001dab5fdeb1",
       "85d616ff00e3fb14247b5ae3f309c27b151153d9ba453d339609117fa92e6e1d",
       "8f10dcfc7e0c57f325ebf20bbb34631ceabe30fadd851bc1939163063b8516ea",
       "ff56c173c6fe228dc6c69c63b626a6dbc41215ea94f9d98a39ce43dfadb29831",
       "f2e1588380ab91d3316216ee83487bf616cf53cd30790cbef740cab6656dcdf6",
       "7058ebe829032cf99639cfe4a6195f6cefdea1a6131298e6cd8756e0bc3e3b13",
       "77a1b11524f6640a945926c500e0d18ec75ee4e94d3251299e2af064b89daacb",
       "bcc334c9ed04bce7665e840d7a6998be066d4899a777fa3387b7b6bd96f0e5a3",
       "5a51ff5da7f705d2ac3838a7a45b7975d7b07e210f854069771a148fdf4315a9",
       "4e2b9863d394773c7e223f8256f24b46b3a90a144d18d1d45d852c7231f0f1ee",
       "8973fe0ecd192f17bdb7c9e09ef7562c3175120851c41f96869c32e0f73a809c",
       "8079fe1002c5d51cd3b97f138c2f2845f1624e21090c5381db40823c4751c767",
       "18614975034353ca1453bfc030aef4e37af64d0bbcac00471e38188ca179a05c",
       "b3ed7aff4bb4ce4caf5a71414a0ded47bf0568e8c01535f5667994dcef88af7e",
       "795343581657f58455db45e9a7db94626fa7ee89bec303a4d371055a804cbd32",
       "cf19a1224341916d995622eb5c4a92696e530ef1bbd08d663f0935cc8e2045b4",
       "1411aed9a80d04eae7ff4d012fac055bf1d4ee7678cb51860def79af34c56e33",
       "26dee6213e695ecaf39611d3a1a4d1a929a77d2fb813c6c0751ddd8b92a22e9d",
       "522505403d5a97523bd3dc5e8471c5854c892626834bbbbb223742995b654432",
       "52fae917508139ccf66817ad88e4d6e94914b0380351b1b7048559d1d9d89818",
       "bbe15d506723f9cc8d85a77be3d1648f839bf4773f8739a7bce7c2263660194a",
       "2998a37d213bddafa2e68cd0b90f40125edb1d0ceb8984a144a037cdf94a4bed",
       "b95e7747ad346ba1cf662b77530be510712f613301dfc4ccdc19fdaf89f0debb",
       "7e920b51510c0b3d02a58ba15c3f64c24b772007f71f034557d917feb66b8843",
       "2296e7cccc27ae56de4a2e514a2c3d468d63286b603be9fb93217ff19e45618e",
       "276c7451f6c5e2624e14637499da9f2fc36aa8e01019292bf57ede9313152b29",
       "84f81e8740346119ff06b4da2d29ffe1bec941352e93d2d3f411e082e7a49f39",
       "3fc8ee6a1583e63d374c25074f4db1fc661c8730138db8248928192b8931e917",
       "2a3b41c2191d5add2dd2ed2bc3bc5e96723c419f5af64e225cc7d2f71c4e2a8f",
       "54488bbc2ff931b5a8d56b244a0c2301286fa9b28a1790202de24d21a6c11dd0",
       "27c464ab848183b5fe39f8eb60bc1cea98a0cc15fcbe20f34c1ff78a39cd651f",
       "09923e6338357d9891a0e052f74b024fdc07717904defecbcced9adce2467cb5",
       "c66f3c1827fc3c2ee69261ab116671e79ef227d2c32fe7a1f8f38c5712e2097a",
       "661b9dbcda9d3fbed8b6a213637715d5b19505371f3e55116c7b880585d54f43",
       "b18130b74ba9f7c405fcad997d4877c392f9fa873ba90d590261feb4380595df",
       "ff1954bbcfb9ac98ad313ab8083c031d56e474f155bd3c60803995507ed35df8",
       "0832826c1642e3cb1ab0b6948f05811678f1a9ffa93b5cfeec1dd3be7be357d3",
       "580f9eab4187d4d540edf2b8b54b6955844e52973361bd49806bb515ea0e7fdb",
       "17fba040c66d0816acb53315880166cbffdf2b1d053085b4ca820725b669d95f",
       "eef08be249add35449a46dd55bc7c53d4ab0cbae8a17a31504f58aa3104b3b2e",
       "8e0d35c71aae12b8bd6bf6b71ccf2c8cad4d066a16fd1132776642690027176c",
       "abba1b44fa2727382a6591b2fa346aee5a5683c2744db1cca663bf6de5d59ca4",
       "9ea5dd2f5ba056f6fd7dabbd31356699473e166af90308bdaaebd124c3e79584",
       "6607c998d213dc7ce0f2c81e66ba24c1db75292a7fea485d8719dd46e6547d41",
       "97cff4376366a8edbc3f976588fc2c1c29658b6384896b3a7597268ae0aafa7e",
       "0e656f43f2b7461230abd0f645e8ea49c410c877406515e79a0f6491f8e009d2",
       "25fc82beeefb7c48626245cc73c343d4e4bd40af14026ced17c42f893027cb5a",
       "8f6c121fc2bb625f1079d6dc3958c6c1c5c8416b056072bee3b84ce5bce5e19a",
       "cfe8c8c79e0ec0abf395a040f4d8a741db413b756b41149113d002eb28ae7105",
       "fbdbb1801f7106d73937a2ac411fd8093ee781c5dd250ebf00655ed271a3e8d0",
       "f70f074c15721915a732c19fff105c6fdb82accb0378904fd54daa33338c40a3",
       "000564b5f107daaeffb98eebd8f4a0ef71dd6921b746572d97ef5013226e1220",
       "25fbce12be92bc1113de4720eaf30bc0ca3293f538154d8c6c27765279c9f7ce",
       "c999f7d8de585d360bb50b0c15c4d3659b129a3352603d1adb7cd1e3a934744a",
       "2f63d98e3c9d8b5ecc09e0aff50fa714de958ab533c6972e65d205f087ccd765",
       "08bb1af3a0f01a1c1b040ce0fb1f2d1fc1647d4bdf4ed773bda8fb2f4f5c52d3",
       "7350685c5f55c8629091ed6947720db03c7494ca203204f66b2744d67f0d442e",
       "a9177902af359a7c746dc4aefa92c903213a2d8da06123fafad16b95d43709cd",
       "42bf43a5779743c975be82581f253a83d842c6a4d0f8bfc767a43d9dedb5b9e6",
       "cacbf9967068be3d9a77c69310b4174130ccb9b4e643837bcb12466d3db77aa9",
       "996c81823bc30411285be0ec94028a578530ea264fa9f0a9a2d962ae84de2184",
       "e3e8093a95e5c5b12d2c1d8680ad7724e0bf0e8b4c4b997fb7fad4fdc51ee4cc",
       "4386a6dec551c515840143442d1f2814c0d2ac1abdee0ebfac4b966ba8526eac",
       "d4f0aecad6d61e417013a628384d1f4ef1eda270ac8fc26a57263ed3f6488d30",
       "e27ffd993f6174e02f4c135da8de56a2491b5dbbb892c8e051cd2b050df36c36",
       "247e462e743e01e9041a8460da7ac1976a0732943df0eff64ea7da727593c26b",
       "eb892cd78d1133b3f1f03918b1288c033a0445a1e07bda9a002f48b2db3c4cac",
       "1290420a74c03b51f55ad7deda3630a34eee564d92c7554baf93470a7f154189",
       "bd9949fb34f23787f57e3d4762c90af8da41396ce2f900e327ab8022655d0b08",
       "460178b6847a197074054d73eecc74b6c93e0ee7238b361c7b012ab731566bef",
       "a81f91b2fc228188984e841a0240992129ddcb65f393512652f36471aecf4995",
       "43c4c134c01bc9db208f05bef6b9698a5847d0024c060fbfb9d402a13d90cd5d",
       "1a60dec2151878978a529c53c97e1f61ef3555ce2b3316b524fd25ec3d7eaff3",
       "7129b641e8e964262467b80ce2b1ae1dd10dcd414520d06a777876c9dae81275",
       "e1e2db9a19e1363e5d647256db33b2907fa72af79876469d0449980a5748ead4",
       "3e04e4d0288b8213411ac161c5933bbadde62f11f92a4163e788d2a7c2f345a4",
       "174c52a8deb46f2f1d4e4f89f41449b6336188a2d6f5a43f191db8edfc5cc218",
       "550bf7895e0a3b8f13bb50c40b05d72f65c2a2a2cb906e63bd7333c621f984ea",
       "3c3cb3c99c3f9e78a12bbaa961ac5578f8c11bb6e679b7cad3e425e2282af6f0",
       "40538fedf6c9f7b218210390745dbd844cd46a25b3983cc86ab7a1fd2cecaf8c",
       "97bea91420059fcb39bba891e4560b4ee615352f9798e71a67efdd0d678e2846",
       "1ed06703b1de858a496dc86559595108faf500389e5097801e5e2fd58ea7424b",
       "5c4ce2d4f3871a65d6b5b584886abf7f0e3738e5739874d0c5a931bf57c8d229",
       "80da3c837a61457fc8eb6c6baf1ecf33921d0cfc6af6832d4cb59cbf6c5a633c",
       "c097cea27e2348e423d8e7aa8cae1298cc1ebf618298275acae4ced12dc19ee4",
       "5dd105faf95561f63064929b947f01a27d61f529317352a80bb957391c5f4d30",
       "6c74c30467d88601abcd1b73fb9134a473c8e4623a3518ee994ecf257e667b6b",
       "f5ad2656c39c423cf06412d5b29dd5dc2bdb3038dbc1db49ddd43540f6cea688",
       "df8d9566b619943527fe5dd2a65520ea64c4dd339edc878f980aa8300c5821e0",
       "8c7a4f106baec84947ce1876fd5e3cec53549c75087b41bab34051048b6c14df",
       "ecafd680e11357605fbb0744e3123a0bfb2df8712993f2eb480f5d2cac87610c",
       "64c7123948387b441ff7eaf9fcfb9f11984ed88b91573914f0891dbce24b0b4c",
       "412d108a69b7a43f97c975c04bded42c8c6a04e227ee871db62ce8b7961c6f89",
       "fa7cbeb95df34141a1824c689772695cbcba989028c4b03f03b6975e30fe2bad",
       "9bdd485cb6dc68cf2d0b3b66545926d5bc88fc91bb630980df6f626d72ef2ade",
       "c4134bd603c2c3c6338f18dc1039588f435eff4766ebc59eb3b9af160508dfe6",
       "e717032d6718e8731980f6753427d212e720a7c345e942330f9bf89ffdb99c0c",
       "ee535056b359f80f8593271f68a5f2707b1da6069ea1abdef965a251fc5dc7d6",
       "5671e495152ad656269ee5342b3bca61d2d768f41be91ad9aaee606972f202ee",
       "692c92c4cef5eca9fa26d8c31a29a311744ffba2d28e75a610c720daa4a59c89",
       "a75ce2a8bfe91ccf23f0303068f91354abfa8868fbe7f145ae5ee3e5db51ae72",
       "eaf248b584226acdd13226e6d8d37f84d634fd7a1aca3f01bcde37b96cc2ab2a",
       "78d97469de6a9fb337a141605bff8379e1170fb896989eb506350bc634a8b805",
       "6c644ea76f32a7671a7a865dc38387cc0310e1f6bb16c7cb54cfb3b4df48db84",
       "0a1ea2e90f9e8d73cc8b7949346791b2aa454f6571ea46d40abb92eaa684a11d",
       "9396199e076580479978c21c5598d2d62de43a7b2b2b6609356ee61bc2afd15a",
       "e1a0b46cbbec3ea502c834511fe3a41afe6c2024aab56ef8202e113a8be89d26",
       "a8160665e084916dc24f2d91efcd70fb4a243b0f4f741891f0c3ca95a3417112",
       "35b099851919a52f1f60a9e9f54a5459f6787be083acee4460dc00786d0f7ee0",
       "4385e230604013042cf2b3d47db7d718ca8828fa3d7dd2aca17febfa2cdfebb9",
       "108d65775add0a0794feaf969c7ce3a34baa958b9c1ba2625463ea813967ef4b",
       "ec6306749a276cb18f8f369c75dbbed4bb39a308b22ef5060d58d7173ce92945",
       "506666ce41036a4e4b3e3221696a3e416c28719562a1f6334ac938ae7d343c14",
       "49eec88b974ec4598cadbe40086477903c5d3d248dcd0a2d18d691fabee30d17",
       "746e048dfaff1dab7fd3340f31aace91cf7b44f178f975b422d7ec6b52aaee17",
       "dfb0c32534b2c78217191b48bca1afb253323818d5ce2d0e1e7bb84ea1cd271d",
       "9817ed203a474c94a89e7eed41093dc6a1c20ef94fe269ee19047e27b8ed3c17",
       "a5613ce0ff20fa9504adef4b2e4240b4e91ac3459b467ccacdc410e403413892",
       "a4e296565c9c91d6a6c90d99c33a3e4c742ca2fd941a5c8ee0939a2e7e0bc096",
       "1e999b44bd4746cc000601188dc4fe8999d86cce56f6be16dd02138d6d42fd0a",
       "744f6f68e20a22a4dc69a9ee4e88232bfc1edb7762fb00fa8b6e50fb2a1f03b1",
       "520dd3a79a6d4e9631a37b40d3da4ee5213189b40a7968a6658e904a4bbe6345",
       "4288e749e43f36cd29df97a251654419ec8247023fff3168bac48ff3a21c4707",
       "1ecc5a157f5e240b8bea25ec17bcae6d00685191bc09256deec752c534f24050",
       "18a41659aa012239602708bb04f450447eb774d368c34ebe4582caeb138e6eb4",
       "ff202f116daebe362fd3bf1f3da6306aaf39e9d5cfe289c8d533abc2d3d3a744",
       "4ea031e8d6b649fc638633ef82b4bdc4cb6ecab300d8962548bb1bdb621b8ba1",
       "1f8298c9a858652f404e5c63d9fbeed5875ce7707f98f397eb6bac2c4c06ca9b",
       "9e3a0a2d9749f853d4191194c4e4c3ad0f2463dba7dee668951c8a2570618cd6",
       "64a5056d66455e4aba5828910f3aae02dfd2f778ea5be14afbc02edb250b240c",
       "9bf4cbeeb865ec258901c0bd062c9c09d204ea6af7fa2a3f159ffede60df599d",
       "867c9d28d438bbca899407f5b5623e812b0b098507db81902a6c2951a656c149",
       "423eeb0721ad62abe2a845a8c0121298373ed47fdcbda573a4dd9c43d181b3ed",
       "e5aabfbe746c2f4dc9970a356b9b13ec0a55836959c03b4cfea7d14d56ba8b3e",
       "04aa70410057231aa2fa3de2c36b9556c9fd52dfd6599ff5ea4f0bf51207d5c0",
       "306555b8f34d029ff3083c173324da855149e4bc5d0f7d7a080a30633e972803",
       "8fafd073d6d8b59da33d232bd8f0ba0b6d07f2345ce138a53af7cdb9eb572d6b",
       "af2be95f2b94b397546077034a417af00e4278007f432662a58890d76075bc50",
       "39c507875eea308524fd8d3cafada8f5f9feb3f0b69cebb402ebe01a93cbfe16",
       "796874dd38d687d3e9669ae2506f716050ed92764e2b2ea407b6e5a8bc4fb995",
       "9a6ebb2cb4d63a8ca9d39269eb418f8442355238ad5780529a1cb4edfc3f3146",
       "230420747ba7efef058a62a20c3c0e648e508fa208e372d4b8be863727864962",
       "ae61d9d86ea123700592f585193cf7b264b382ffa5ef3893d4346459d13c90d4",
       "a8599afd840759308e1b75f9c346fdc86fb65d729d8a3fb493e407a44595bc11",
       "8f0c6e6e65a5c1cabbba37545b82026c7869f4c9e20b462cfa2e7d4b4fea0d0d",
       "5aef2fdd53e234d1dcf3235c73201a60e2cdd46b5c4df773909c30e04c7a5e5f",
       "a8278a6d8db9d3d21efeb897fae142154af363c221a086643d15281d0b9456a8",
       "76c861b4816186631a9b489a9fa0d9c9fb454fd20016b53df036d2e0bf814fc3",
       "4181732437f70463d3729a593b722e0d7f9cbe9f31b38f8862cb63ec06a409bd",
       "ead80feb2704f8a7ab8b84f3f0aa714e4be0265d1fd71ba1863bf1f70cc244ff",
       "f6a2f055dbefdd6743d3e4ae1fc74d7d98f76acd432cf734a9f00df31b1e6f41",
       "05d1043e6b750b855a9a7331a80258dde0564c616a28fc6a63ab2a94f99dca2d",
       "5ae3af2611c0862751df37671c3356dceea39ee290c518b361e0813673c45576",
       "e5f761984b43528a4de5f263eacff722ca65ef424980df7eb5cbe30b7015f16c",
       "3e18b136e5f25168ff0abf678a3168f14240946e307309f2275d9fab0893b802",
       "9f62ce3f30f9d1f43f93b1ed519f5f16718800c5de4356256ab78071da87a46e",
       "76eaf76ce4adcf2c61c3f6c684d155f75d9fbecd48a1f9835538ad74dc067c2b",
       "2ba9eabb4030eaaaad58e9f689fb407ef18ebf3ec2a98252a764295df1518514",
       "dc9fb4097e7fa06c111e652fdfc40654af661124222f0577a587bb3e05ba0a12",
       "5df58601beb4cd956e665356f45d26d410d4c9b7db9cd28c8361e3bd0d1c872c",
       "3e4d8ca48656720e17ba19563f46cabdb6bb1d582642fb66a5e306b2f0d457b2",
       "ab3189a36309d4571f0d9518c4ba17331f66c96ae07a43e90090ea3190080f9e",
       "4d0f021e1726b2f21afe17f1b88a0eee33377990d9bf772336f60119c782a9ab",
       "279be4303a78997eb3b23ab208b34c2f46f3f4635857be5ef497e30515d009ac",
       "d7e07a28381fa1631d4cc5634f6680648dabfac47e346dd7d1dfaaf93b454e31",
       "4a77870493f373126a9cb935a34eb718a67056bf13423d38199288b264d7dfdf",
       "218ed656b76c2d87c25bec06bc2fb5963278ab1a47899870230ff50c73e13ce4",
       "2c1f5541469ac0a4e3a23259c421ab43fda1fada8ec4f13a8d6a9cf1166958a4",
       "42777082ce65e14c55cdc37fbdff7bd439e199216e41e17cea44b2a0642a5307",
       "a420c246114875c2a05d5ac5d08aa5c7637e8b1146f3141aa044257aa771ce06",
       "8c3a95f8ec9fe98f1c7b71f31b426be22de089db180f53c6c546652ba9a15504",
       "f25f0a5d84f2f3ecc602a9bfa9393f35be8093de283ea0c5126d84c672e1ec04",
       "8c182a1286e9d89d6ddd38ff7769bf7166bb8aa191e52bf7702b32c784e34b7f",
       "7f40b2b51c91c8ebaab6a63a6adbcd386bbfc88f0cb733444af096ea6e40034e",
       "ae19eb6272fff63f63585a689ff3e9ed0c3f20a96afcfdc5d32c32ac97f7a9c0",
       "3fb334ce195840da1090f076402e6d001d245bf009e633aee4079a5e750a4b25",
       "4f8a6563276c62f20160a095994fb4e3fbd1e928d30e966556007007dbc392c1",
       "f99c2a2f7402cd827a42618b1fb45e3d6edefb3fba39e7f7eaa961b2bf4c89cb",
       "93f97acc6c86a602fd53afd67c49a852b808f19bb88d9505144aae3a4b8e2509",
       "712148c61189a17d65ca205fd7db4d191e4631cac34822969382040dbe23ab54",
       "22885058969679c4f93ffd1bac8cfe8f29328dd256b227cd4b0ba3a456fd3398",
       "ac91479a1ad1c010e85120bc80bafa2580101da24afc5b3167edc8b2a8eb6ae5",
       "5688cd581f0ce2e76f48a4a27ca97d87d2f88a262b22c7705d5e9dfb0fd382d3",
       "ae7b9cda579213cea085ffb78ae0fe7d999c35acf15723203a669460cd56a661",
       "e7cddb247ba69ed75e27f4ee32484d967742fc3a036de50d6e0e32f8c5f66789",
       "d8d210db9e9dac5e8a60135d9eb2e90cfb91fd25783b6dc814c5d6b4210dedd8",
       "c2980a7a2be39626cc3b8d72b755c9c6dc3d75c7754d24c579d7393fe2519a7b",
       "2ea4096f8c973a47b0c8b0f4c8a51bda2b7dd94075569edb3da58ba6605765d4",
       "471462ae7892a8768909b7af55f909eb4867888fd374976a75d514441b169032",
       "18578c30f5b146b92b95ccf68d2e5febab7bc2d916c52612d38f46d2c2548542",
       "fcd2dcede9c0e2adcaa638fb9d07fad5dc02cd400de99d0958095fe7d38f021d",
       "83a7506ccd692e2c5b0090a68595986d9f0894e845a3eb9b14a22cb9a8475020",
       "9de4df0f85f583cd32414a965c3a2173850b4449987915408a5eae5278898e4a",
       "c7fe150d51e3c95e66e10452df8d2aaf731fa3093f69c876b2b1cd54a3430ad1",
       "68409ab33232e3e00b3ebbd7ea5826292299a8efe4f0e5e443702ebd5a3e5a0d",
       "9f154e7c1e5bbc31d85447d2d7aedcfb573949f988290a15b87ff60a736a907e",
       "b7b51adb3374b23f814e78f16e6f8279b801c4e7a68cb3d8845e30f8e8afaf2e",
       "4035ecfc4cdc34329a34cdeb082951f07c6fd00a6097195672efc81885f15be3",
       "909b4f2a06f4f2ec7a446b7cbb6de5954728cdb6fd66dfd7003935c8fa6281d6",
       "e16ea68d581fb462158811fd17f1d7831bea2c9ae6b1241bf06eecc9c8adc191",
       "b396a79cf82149406b0d318e38217ebc30d8b9f45ab271b7d8ff925a935f4d2a",
       "190ab71b01f13a678853a53f481422abd7f26e6d3b310e87b15a17b5710221e5",
       "1033a223a7f8b7994d6dd6f26a75d4f0be14905e4878cc95c1cd969b44052bde",
       "ecafd0b5be5701305acf86b6fb9e970302e6417e23429c988ee51fb983831c28",
       "71d114140218721207fdacd7878795f4cde3c43aa07621d8ef79813b030837e5",
       "e84c85997bcacb3577db04d8c9e275fbaf207a74146204b33f8b9e4a62a4d034",
       "b98c3045497ca986d2710d3892843fa0c78c70c4e066605932cf34bcb06081dd",
       "d2c28496b13e6c354c6c26b5974dfce86c42bc78c8d9586248839b44e39f149f",
       "89931da8182ac10d94948e188c440a450f007c05e06d3a4ef4d944631a51d387",
       "219f65f9c21a8e01dbfd1e1d5b5b462aee91dad2862d1427deea2b5feff3cde7",
       "2f8d45434d0671a14f2171c3661c04a9a05a0c00f897b89b0f806d65151de2c0",
       "3e0837981166cb0a95ca0042eceec0b94c90357bdc1a45520f488bd686d60238",
       "d58f8b856e578c5c287d47d9abec981504bef5eef9a05903b3a2e4c939665c15",
       "40fdea443caa50d2ce09a65bcec02c8b64ba0c0d119debdfc33eff98361aedca",
       "ad65c03b8415044074517d3da8d153a45a7694ad0649aeb143dd09fa7c4480c8",
       "547bfe3fc911142ce8cfa8139a53e1ba88acb028703756949213adae60643451",
       "2aaae801af786260371cad73eb5f854ef613b1820064acb7e8669ee9d12f7e65",
       "c3816560414f6f814c537a4cd14f019fb2cb691b71f9dcca7f37184eaa62d024",
       "619ee904897cf994b904234eb8f5d50f0f3c2a72eb4f2326c3490635d6654e00",
       "3287878e91597e8294a48ff9f70e7b65d2dc71266ab0aafcba0bf09dee61ad8c",
       "c929d858ccb32b6ce4a9b2343a20b8baae893b7bb4e93b4aa4874bfd31d3be06",
       "16c9c0b07279e89e7fb99cd13c93b282f6810887c2948ae50b2fbc7fae59681b",
       "b18c41668f4454538a769a6361249b996d30351c39b8d14f02f35990fc15b9ca",
       "8de7429637e128383b7c8e7b2560fd2e7c993ad07bd3011becae22cba219aa39",
       "2c968d48c2a565c5fbbba98e500bfebfa528bab3be8be8c41361aee60ac68c30",
       "65f7cc58cfaba440e751b36bcc3943ea6224aad14d8fd45876fb188be1158ea3",
       "4a4b052525a0203565809a45260e30a8823f312f8d181a4464a7576ff9108441",
       "eb4c536a5d04ecdcabf1326656ee039fdc6a4b23c4462727c4848669facbc8e5",
       "cb89d80f4dbdc08d9a75d9a962f8318a3320632f4d155b9f9f9ad35f0d6a30e7",
       "2bfc5bc5b3c2c486d7561004773f959fe2e56206ec79b2e9f1fc541bb21f2983",
       "3a0c90209d2512ca5ec4051a6842ad74189aefabd88a3b20a54fdf97f702d41a",
       "132656e4c4dcff50aabbda9847169435871502cb6b3a6d3feb33e406ec9a2cd8",
       "00f74f66abac3ebc81ed8b0ef80a6080252721b5edc20c726392089d32d31cbc",
       "b674304f0038b0453a706bd90ff7371c2fc1b72f1bb06378761f63fce78c9fc1",
       "81570bdbe78ae815831f2a3a82728fdeaae57a8d5fda176c101a39dde708857d",
       "eff5553626eaf9e6a8ba32c40965a0326a0737c1ae801d3c0eaa5298bda2625d",
       "1b8b03b96e1228a9372830c147011fe8eec5f5060a1c22b891edad7c84f04a68",
       "ba3cc0ce64ee6ae0d92df14afca612a44914d3a3bc03aa150a6969832282c3b6",
       "14e254ae7d26341663253775155547e5dc1cd457e01878e0e582f90ea947adc1",
       "b15f156c320b28a7c1d5721106c0ced97a45650eb277a4c6102a6af57e587ca1",
       "cf673e8005520353f420034c7258a00090667184cd9058d3d57e552a47e5c722",
       "342fa274117d9c75c59095460547b793192fe9c21e04bea77184aab62488f786",
       "63f5298f799bf9cdcb35db26672ef79ceeb5a68f23cb39426838f84027af4ca9",
       "13ed3556a987a86059eec13047ad9e56c84f8103846ad00bfe95f67a8d608856",
       "dd34b6d28fbf8665cfb580af7f9888bed25a0f39d0004a6be53606ce214da8f4",
       "56e714f8ec284ed1abccf46b0897a1d3626fa881fdb2f1bbf96b6af1df51c27d",
       "c143c67a2892db17a5a07474b7726b199eff688515966bb850628f0c6694504a",
       "4a7acd4d9b883da002869996e339efb5dafd6dcb9e3630d5d2d5dccd35feacac",
       "d1806ab9ca6ceedc128c36a444adcd2ef79c4e425902fb764198c5a4c6442de5",
       "93e5667a124e63e0ca01e4df9cb02b44f1b8d6db5cc03c29adc259ac94ca64c3",
       "6b385690d3f99972f645b8a775c4d0394953ba1bc76dc7e8ff1be579e53be0fd",
       "f1eefab62a5ea0a328374b984514d591721cff0f108987e2a461510f7c9bb5bb",
       "34b085b1e2ca910c06b3706acb8a30a32721e3c7349e6598bbc38e79588e02b9",
       "8f03c32ca8726c4902596ea501827ddbccf174e74fb2e84b3f2500dc5627440e",
       "2d47b678402fe3de1ac3b6322305a37629f61465c33160a7508369b7054cb900",
       "a5ca4d58066d5c5cd6f0606bfcdf48920c1cbbb19892794c697b35ca5820d9fc",
       "a5145460878ce5457fb011eeb1c048b9f95f1ed2c352e32f58c0a21c6d3ee403",
       "d50e0eb2f8b6ba6d75b53a8ca72742490a5e697176cddf0d45ed12724068b5e6",
       "8125ea606911715a8db429748c14d8ebd7d743d4bcc764c62c4cc82c9a531dfc",
       "339d3f81c86461248206e704df44209ee2fb91573c40c4b02211682ed57f02a4",
       "68c7527e0cd4a8ba8a14c2e246b496e193464b5f23367bc666591830af94d6b9",
       "d8fa13f8953f251f86c802a1cb71879c55b400e027ad95d097cd46ec692e641c",
       "da675b5c8923e65241782500c869d94af50f32ebac498de0bf20cfeed816ad1a",
       "7d09aab26387c4ad9289e00eeaab7365f3d9d59cafe384fc7e82218c1b4c8d31",
       "86f7922e27870eb8db0bfcf684369e9f4db9ae430c4748bc64f257216c17dc1e",
       "4b8bf5de1e84e98d6e22e2c7dcf5003064d531c8213638d672315cd76093825c",
       "77e70bebdfce757e3c9b815ed9c2eaf356abec65de5bc5ff8eb6dd6d49774791",
       "fb12ed77e922763f8678afb3043efbb51accc436d22e39ba741c9632fc3c0110",
       "b3ee1f04bd93bbacdf395944e9bb3eea10f632162d21bcc529ae08e21f57c4a8",
       "e9eab99cb5417377e12fc027534d3eccdfe2f21b3610171a01cf140bf19d0f20",
       "be1acd8dfcb5a88a1709536f798eb41e49dce7d516f202f36c437d4401fd6df1",
       "2c3ad2df767d00b4ac7f0ff3e9fc61014d70edce7f1004d4b8badddf86df33fc",
       "623d382e78f3954b4560ebe7cb5e27659dfbc4b6e40ec5a6e4ac60362a596b32",
       "f2ef9c0acb3f660557ca317d21ce3cf61b27d599ac63e270ba457c2f3381f7ec",
       "30ac8b664d7393853bce3f7426bdaf2503c853e41716dbba40318a0202440aba",
       "f4e6d0fe0ab8e940b4705aa683a4354e2775b9b9151e89fd59c2dad019052fbb",
       "8a163c31c78ab5c8e53a31a9a59dc64bcc71af7681c0f1f4d163a9c735add99f",
       "fa60978fc295159a6f987fc1583336f7668a9d5e51bc0e9f1f21490fbb52da0c",
       "4c8b5058e34524596d1f3f0ffe9ba532a6e0d55d93b6029c5f2769859efabf23",
       "58fe62eb5230b08d4e69bd0c9187e43cb80e73ea45438a3679f1160ba8a0816c",
       "c34a3624d9ce6d4fe57db301c94a0640a8ff64fe27cf8fc70dad001dcada0e50",
       "16712924a6692acf25c0bef9b2d40fc51871224ef9f889a90cdfb276b6af864f",
       "e01c9a2aaf045fe5330dcb64927b6f831821000afa3430bfff82ab8ac3c5f368",
       "9a0dbe4b4455ce45118cba1dfd6c9a773bc82acc10d23427e86afa1f211fd43c",
       "e230e619077d90e0c921a178d6f2ff123fbb9a26c9b87c64772a4a8c839f1ab7",
       "8d5ee23f86b6f78d137ca8f09b095a4046e86ade5cc3c017d4bf6bc07021c534",
       "ae6661befa242a1278d752ceb209e241c28a48db55722add125cee39f094bed4",
       "f4ffcfe87e61b9956a1f71531a3e1d7ad16bf9bdb41f21ef73cbc71a2abe248c",
       "d03e3ea83d915d7c7ed32c7af258d68b4934c007ece24d2f0ec2eb448de840ad",
       "eaed683ff54eced5e68f186293f334b4fe536268ffbba3a8ab736d31f8d63372",
       "f03406b86ddc26aaa763c0f4b07b9cbf39820b3fb034876b5d619602317c834a",
       "42dfbaa4121cd13f47a1f5c4ff186f91a3ed467ee77a48bacdcd368e3aae1046",
       "c45b6807ceb3acba5418b44350b0909ac640568b41bc5771f5a0eb1742bdd53e",
       "201cb5cab6511bc51ac8f37b2ada69369489545499ba514abdc13f7fb0a8ab17",
       "4de571f9d35b9634a8258484318b9d7fc791ed05d03e5278c4d63e098e48568c",
       "ecc5a6862c2ccaf786e106a272cdb15dc86c072f63f90af1b7641804f3621d26",
       "16913ee2f02ae7de86e68cbf0afa96614dc5e1f1be51970641c189b641676653",
       "5707b363734f1e91d7fce1992c00ac85390a04977f36cb6818bbe5d55ade3011",
       "5c289c1e0a7e466b691a025fffa22fda1366012c4869264e14ea346f8de21a42",
       "f44a7462f9afd84e585eb19c061b20c9d67e3ae86ad45f08253d6c37ed06e949",
       "8eb4e5799a61628534c0d3a078461d9ae0778197c6de288ebd9570fac20910db",
       "9fdd9d4aad06adefe1f40b7a7c19b513266d041cdf88f4170cdd3a5d9cf6965d",
       "246942fb69ed6c5e116b079a00755eae04ab8dfe4c58f49da259f6cd6562eb14",
       "c87bebcfdbfc11c7583bfecb63acaa641745a4bdeb1e4ce991ac52a752ee16db",
       "56cc9537e3e82afcc84f3e7bf2a2cc1c4a711bdb69f6caadc7e7f30f7187f6c0",
       "117b8400423284b049d7515b73b78ed7794a98aaf7b186d3c9445557739211a1",
       "24720e000f4d6be6bad7737e382c07f3fe3a47b51c8df9805c67441122d7d287",
       "b2fa6da7de59382a5d725d1788243bf0bc268359ec5e5d8414beeb898f28e967",
       "c02f7b4d1dfe530458c79b1a38c1190769c727d88cfbfdad75301520226d9edc",
       "645196a3d177a057fa7d70ca657d9db81390b7be527d82b2c464dfb7863067d6",
       "0deabc545deb022f78906333d4569933bd30eda9ac4a037c770cf49eb67adb0d",
       "e344f2cf1582a1bf92135ca53360270640783d9745f666eb864f829c0c792d2e",
       "91c84d598ff56ebc5fa8f6e360d1ff173a8b6ae1a90849b48f8e9c52f391683a",
       "c3180118fbb76a976270d2e68b8bf76752088f31bbb9c4de098a428bb0376943",
       "e87c9f80dd8ee659d180b90d57a7a4ee3afee18d8fc0e99b56049aa102898adf",
       "4737a94ab6fb9aa119be593d71416fb54d3e19506b13711ca4390ce40cd1c028",
       "89623abfb002074803935dfcc12eba57f1ce64f7f7989f9170feb65895668bd1",
       "b20c5e99b93fc3537347bb1a27ea597e19738592b5e52c232446bd1303f1d1d4",
       "0316e1dd0c522bcc0c3edd33c9ccc8965419dda41b550542d7a676fbf45d4672",
       "ef0dbf8ec36b1337781338d5d60e28f793ea90d9235b28d440e70520cdb7772c",
       "0869f05373cd38b727a9125555cc34d58af11322bfb53a8c4c7c24b2d54ed8d8",
       "885aace319068e797e3b67687be7dd0bece6dab44ca6c228864c5e43fc89767b",
       "6f370a7277e14fcbd56296469ab05744c6496c48a755476115ccc87731341cc3",
       "cb8a874ba5382b5d6d007700dfe00d259d086741a3da88ccd2f7272fbaed01e7",
       "95944daf214d2299af1b5e599733c99be2e1b22a7e89912693a5aad863ae7de2",
       "a8cd64dba71d6f934e2bf24a778fefb949b9818385bbef52388855832fa18155",
       "3d2f69bc8d36df44a852fdfebd0744603d965ec14b67b54cfb1226cb3e3fe31c",
       "277c17f20ed99838d0efe64ef763709c50aad35f8a77f71502b5475ae92d95b6",
       "7b0634a5ee3c2f8bdc7be3e4c65fa9c1a0dc87d4630634763471b8915174e73b",
       "f0a999c0398b4b5de9556cbf462b581d32bedffe00083f71b6f2c234614eb75b",
       "6b5ee7aa6a47de5752018271291430bf38f7ff2fbe0ec42e7c9e9677df747737",
       "f6b597ce2491a3353736d151a1fb53c59300cc9ffc3dbd49850edac7546d63ae",
       "cc3c53b60de13a22993f26d44348544b40081a647615f593ea8578f9e04d3086",
       "09cc9c115f45fe21b84f352900de0dbd3818470f06ec5829f80d283979940356",
       "af22a08e2f6180a950e4ee599abd85e6aecfb06853784cd4693b05b931b6895a",
       "048b887d0eaef76fdf5952df64b87edfd0f8b34e43570fd7a857ddd76b2ec26c",
       "cf2747e0400b67e69f593519a2f57b7b1177e2ae54b0f8e5422b70cac7789f60",
       "524397895853c0624ea41f77b27142745fc50856adc2be5966597c8b9c1bdf24",
       "596310e7748d3e926004592a1460d4ee3cd816a763a75f08f2b20ed93023187c",
       "480ef3ed2109d388c82356a311707eb5ed7f742313e50e77c12013de286690a2",
       "8e4326baa8362ae723ae82027a13db97fae4bffd67ee517f4db203263050ae1c",
       "e2fab1f7679e76cb4b3828584c759620d5d38b97b1c4287470158f50ba68fb68",
       "66a6ae09ce3004053839114329e701a9fce091c649ed5c3d19f50c4c0db72928",
       "d04e5bbd1161b0dc858f924d48ca7f276f76b631f23149be170e316459bc05ff",
       "f7e56d4490da11013e07fd378ca0162d365457bb28f2c69ef30d67552f7aa754",
       "bf7d906021771a9a7cd500bb2f18997f42e24baf8227378a4a0ed12bc7bb85b5",
       "cf5c958c9df65fd98c31bf5f79cacbbd0108f4a2cd06a7f99c1dc605c833e31f",
       "2533572e30fcbc8e6bd2f83dda22dffab5a547bb8e5e821f71c3a8c472e67d3e",
       "0ca8fa0e246e4184f813b86f6dcc96b925a6b2d806c635c5aef7da171f7a01bb",
       "f88095ea6370d1cdd1190a7b61388c9137f4ad0fdd8391de66b94fff8ef88442",
       "15a998b603235f99f28e389c878def55806a445c6be9e6bd73acc07d4afde8d5",
       "ae6ec6257d648bef96e0496865cc1bf58d62d0fb6fdcdb0a54ce199f37222d97",
       "519d5527ee06538225bb82a5439746d8a72d411969ea49f5319c219dac1cefce",
       "09c7fc2fad1b23a188f21db85a8b29287536afb7e5b6b0ad2b950b40985ff158",
       "0a92ed77562f873c4b6ae9040e2f008d4d00a208ecccf90d1e88e5c7e12de0c4",
       "62be1e2210c5b73c89b95dbe45d05fdcee245965f9049d432701d312c8689c3f",
       "e321320e12bc1d5922c29bdd791557bafb65eb8f9d73025eb29a39a5917240fa",
       "eef458ae37319ce214267e4d2b5d8fc9a7bb1290cb8460166bf564c42daa0198",
       "f7b359f99f8cbdfc934729021a869048e02a52dfc4189c63d6daf2ba79a2133c",
       "37d0c87f9e22ee117a1a6204f9e852f9c460e93b045672526022fd3610ee17cc",
       "b1b81aded7f3f700a8b7c8f116721d88846ea21b44a0b073e8fa95ff0c5a6652",
       "f04e92955c7d610b563c692d950382cc7d2ddd1d5d7b9703f2ba0a7b5caf0dc9",
       "64c9174f3865f8d6520a249d9dddd8029adf16a8997d8ecec514ca7c1be3bac3",
       "9a4c2dff8f330c1c7d286fc2efa180bd15e4da68ca566294a3781f7cc5be94ba",
       "15bc43e10c5fcc7ce93d26fd6a15e75f7d4bd7fceb0f577b4d3044ccb7f8aca0",
       "ff6c8f5134eddbc894bea5eb64890a8839d94ead9c9cb0b322afc3117202ba45",
       "dda1403a5dd195637e71c82ce8c2bb4e20ddd46b82ee7e9edfa8276723309f10",
       "d2a679f6dec47cacd8c4bee71febfd7f9166e0e679374acd125fee276fe3c676",
       "3bb4f55d94eb86849a947cf801d3880942466974e623d19839f8f5a6d877f239",
       "a4cbb39796508aab987f0e8839006bb943cd51ae9a81c84e78d517846e039d61",
       "9d8cbdea7da3cd72bd4637e48913c76b4d16e1b9607af6489699a9b50d1bcd06",
       "6ea1f84a7fcb38c6eee550b5cfc880df6e55f071a00e57d223f3c7a271916154",
       "c6a60a962a42aea5417593134aa2317f115cb7025a91ca2161403881b95ee3f7",
       "14a2f649d4754ccab80be592f583eaf2f2c6afdebe0d6dbc0620154b74c5b483",
       "869b0845ac221312ff381515965d072f6b0a4de2ac946c714586ed550ede3d34",
       "444eb546c84ffa6fc9bba45e95f020bfa1630d9eb0b4e1e330961b139b3b4d09",
       "4b88e5f89c0ec4827f5d92e083e279a1afa201075c1340382c8b75bafc3f6f89",
       "2b13475010f69977f6a5035921f99cc3da20d677f7ed306f7cfec86b6ab907d0",
       "2a16b5754cf1012c90487d68b727bed37923756b997a2627c4f0e9c0c80321c5",
       "37aae973ca197cc9ed4625ed568b28f16c84a6f413e5e4eb2ebad0df148da919",
       "cde86df7fae3db28e4e9ceaa45c82eb22075b65b7d48c3f4b2c6a460f115f4c7",
       "0e43f65a0324e8cdb5dabff9ebf665f92d82b384aa8c5d0ed49b8ae1daf75c68",
       "db6053329113fd869465b91268a87aab560f4d231f959538b36d13d27b1c661c",
       "5cc9cb031a2791635d82f7173e186db66ec0ffc97a78200aa0ed6d56794c8635",
       "1b6c460daeff3de49447d68c032d3533f84d4d5a989b758fdc28882c1afe0171",
       "ca8e5eac2aabd884c46b1cea7e1dc79ba4da39e572ed4a1130668591b599df6a",
       "a60ff55fe6538f1cca16cde8b8ed56a23d82a621867a2d276af802c34ea94b6a",
       "29457eb652a67d69ca498622416557017b9bec50cbcb60cfc4a9d5c9bf76b77d",
       "fd314711be6e5cac9fb0d0517d94b8419c230891ec66081b3437e8dba242b6e7",
       "2c24accb95ccf20e459e54d97ef70611c35aecbcce9d619d125ed43e47b77fab",
       "393936f25e6bf0c557b4873ce52068431b5ff33937f0e84dfd74d275df63001c",
       "f7e30ab0e1845fa11eefa877fd2b287ccde5ac2219db8c192d57a9edd2fbd62a",
       "ebfe484eac40e7b067af01d8568f304e8e2575cdcda3a900211c2bd5afb4bb02",
       "352360c574085d8fd18b059d0f3cfc24234668bf9ea7861f09cec475075e9808",
       "db675762bc2e46626ec1d222aa52b2f2acc66298efdf4d75418711a3d0017613",
       "0f2beac6e72d143135b2703279fed4b7a83328304dc0da1e3d49cc8caf1c08d3",
       "0a39688cb836f9bec483bf4b2b8fcef38fa0c6e6a67dbc68e330fcb53534b3ad",
       "1f6fa104f4dac9c4112ecd7d627579f8beb606406315e9fe2bff9305375bfaf1",
       "ac2c01cb2a84c80d882838dcc98bbd17cd4dac90b0e9f5b5be1920909cbf0a72",
       "7d9db8450877c9364c050c09de536c89010405e623238fd1c2cf9ebeac04482d",
       "ceb635d8ba39ec7dc0ae1605fcec15090b5b9afb2152958e2afa0e75b99f58bf",
       "d1b3b40c3fa38c1d17fc06726ac62b807dd05c3357b34fcd9eb66d65c51231ac",
       "649bb94d7afda29efaecd5a1e408b539161211464663930fca294f48b4e7f417",
       "d4aafdfd64e8f42175b9d652b3ce4919511ded57071f3649b3468aec7bc13af1",
       "8f890eb2ab970916834bb67b3d3510765318dab57e49993ce91229cee3184521",
       "3155de1a34c4ecc32eada67a727b0c72f50752b469b22600ad687fbe7557ddd9",
       "25aec69e06e19eea239f566882993133cb7c5d1d8757233f0464e332520e80d7",
       "13235a931496fa69fa133ef37c9a7c0c7b89f54e715b28f1d8220b70aed36a21",
       "582593a439bfcbab6da898d741b3014ade419181332f38c560cf5b310e8ddfbf",
       "0e44d6e0122b529adc66dc222a2db316517d1c8912fa536ef0f188f169788295",
       "52b073d15e182f7b072ab60d49896331ace27c0677ae65bf0dd34dda7619f588",
       "d347cf333c81033d8933df85eaae63d83f01912ba8c086ed3fba21cea0205e1f",
       "4d5e810e7cd3d111fe88dab9c92ca7f8e30a437df74ca2749fef92126d39b0ca",
       "97addaa322b78759ece1751aa8ecfae5ce46c17673f71964fbc160fe9a6cc201",
       "3c3ec140760466305e90396ac93cf6f3071c7a7e4999bd0f58414fb19859f0f5",
       "db827eb984394d01909924391bd13eec783a3e803a6861a66fd32cd8a3deb018",
       "97cadc275fa41e7aa2c9e390b1c031b18cd5bcaef891d13b4d4a0b94cc316324",
       "932b9adc40d1c4c52d04182e11a4a415a01deaf83b88109bb34fc3a03c0c9f93",
       "88d3f0ea5b1f4fccff925e943d8367192475da03a40546778bd03f997adaeb82",
       "f8e6a1ea1cca33c90ff57609c36c785ec8e273fcf3e9ce9116c09620e9f9b59d",
       "d7435a7e93aa8f49b450c5aa431bd0740796f55276c8124afefe0351d876248f",
       "b65f676d57280973a8d13e13dc5170ddef7164a1d895629243d711e37e332c6b",
       "7ca5ad005c01b794aec58021540693702e1ed0c95bf293be7c40fd778a4bbe26",
       "81898d83779145d4025fd86e46417764a56fb9255bf24d33e14dee0c56cfd0f3",
       "753edef1b7aa6a214cd5e7910abd70171e61207e7ab989642b43ea3bab4fffa9",
       "ae8e01a1ae60fa3f3a2f1d76b9ae7b0ad7bc0c2faa4bed8a2e5d7d2c34c996af",
       "0165b41c84f2552297859d9d5f511e9adbaddaa35c0c0b3efdf061c89dfd91b5",
       "6226d5ec88bf245db0a441b94183f6e1f97b65a51b5cad7cc7bed3b0c89f577b",
       "ff279ca3f1e8d3a9d95afa7c5f128cf418ba7ce895d102022340461186e9291d",
       "06bcde4e017e7a43fd255fe6aae5e61d1e523e0a39cf6d7da9e22926c0d85272",
       "71dc9a43ba942186ac81f61b14559bc18fbda397b4d7770b9535265a0ab25a57",
       "f9935a0bce4665a602823c10675e6c77f853637991709200327b36eb79b62e6c",
       "793ddb4ae2b0b1083ccc47e11ab91ad6e640080df318844833d32dcb0b07d17c",
       "c8993a1deb466e1fb1bb414eebe3a55f0fe65ac6750fa8943a5fa9749c5c4f18",
       "993355584cbe11b9f791348c15be80bf736055f6f09c31e087cdb3bb803f8d23",
       "63bcfe5c1f8d639f6548f35a659ddb903fdbc0d82b3d640ca4ba30dd1454254f",
       "e673989451728badbf49273d7f91143f770400e99e0e3f6ca5a3422349937be8",
       "1d5a19e21abf9cad87453665e14cc4a69b320944e95f8597ba6ef791fcb5fd17",
       "bb9e14bc79c67b3f377f38de346da136cc6cda05b86a4d6d446ec2a0ebf21c4b",
       "1ec69f5b7d83a4fcba6c15e1d9c642a6e8e816ab4fb676ba12d2b03235788955",
       "8e5419311c889552018cd09e6e76ff6262c4c8975310c174aeeb9efb85c491dd",
       "4ff692238d8b15d48061fcbbe3efd2a60a13a2fe0a6b004ede3f6022eb174ba0",
       "5391c51529e13ad4ea99bd3239ac10c63a644785c3bd0b0d7f185363568fc53f",
       "a3cbe5f475f7a9e49449700716d5b254b0455809bbcf935beb4135c9efad9d8e",
       "aa6eafcda214f655c0e69f5fbd9af8058d5517db696bbf678243e0a29bdf1625",
       "63229b9354f8db8fc2bb7bba3972e46ae9996349796c07ca44aade690994afa6",
       "5ed887d2bf33949afb3cb20164e8c47bb763bb4bfadae986a8575c53fc2086d4",
       "bbcee4b1bd8dab5f56a390199f756e9692d2902c6becf87513bd711a4909205c",
       "bcb4d87ad0763115982252c30a19830d4a00d9ef4b0108e924040b9ba83000b8",
       "684888ab424bb63b1543db67069c8c94e5e5e245c3dd4d1af66dfdb63c2c69ad",
       "fc58e1202bc85cd947ff68a376baaf8d2254b4d10170b11b1fe4cfae6a6333fc",
       "b2050c89a23725a6b601ac2c66595d716a1706c77c14cd4d8b3245e2f84ce0ec",
       "0eb2f0460d26f8effad9390a8722d43ac93e7982753d17ef5869b243e586e397",
       "7568fd8cd395b530175b9ff5621c962f2e3a3c8017e245ae439dd842c8ca7999",
       "85139426f7ab1fbfed6ae71a89903433acac4f3467040fee7523e20f21ef4d50",
       "9640a2185377059a8584ec32da1dad2578cfe1b1d88ae29e4f7fb75626480c6e",
       "5b6a0faa3949489e91c26d44d1f5a0ba553e77e4cc742623cc4309299dcabcdc",
       "4c1d0c16365fbc96fbdabec688e0e74782ec393bdda9241b3b4c433a5b3077bb",
       "2f5dffe63e353e70062d5923b94e7120d0b72e3f6e8391ddeb21236453c3ba78",
       "1131eefab5a182bbf09b4ebcaa9352aa7ff3f11b9c89562833393c3e85c77d1f",
       "1bec3fa14a82bcf9bf641f57d9a82a0675b1f7fd797bc0057fcaf972c59b5c53",
       "2dd1249f291de5738f02a5ed6e4e87c545f7e91dce9ac20972d05a6339d6aa65",
       "caf2b01713531f99fd59f68336ea3dded76a89b0d00d87e8e4639b49d6963294",
       "933d5058cb46a71f3040e607f4520a7b49cb0fbb941cb1455ec19a51adbf5cc7",
       "5ce1b42417176f3bcc3b39e0789b75819b8a450ef18efbbf2a74c71516357cfe",
       "c3b393ed02015a434f1b8153062dd73aed53c377b151ae31cb47a11da432a0e0",
       "ce6034cfeb1fc65acd78edc67dd36f61d81a366de6f56aa82967b04b0d4ea269",
       "0a7a9ef88dd16a758e84f4ff9d10c1829371f761b0aaba9c8ccdb3356c682e57",
       "b1b92e1198917e66062c47c43ca015f599aa8cf742b66889e7c939e8d080f5b4",
       "ca06be15042c408b969e06e4f8adced674896320ef30d8d7e05db58e81477ef9",
       "f499cb2b07d8fe93d050107431c662e924e60d22006dcf1b9be602ef58f4e541",
       "4600bee0e57cab47a1d82cca3c85b09c6a3bdaa019407aafec390f5d717d4d6c",
       "87ecfac3f55ddaa674fade4423e91681492c9a95c0870d7b14a2bca27c1d83bc",
       "40eebb931c0f3f1f738393afa583207527d8548aa16e575fe217c2f870625dc3",
       "9307fd6d62e4de69bfb98f5cf9bf8d79ddce3ca13dd2a7626e5f11a06b5312ae",
       "e037acd44bcb835153bf4aa5513807f62bab9623c2581e6f127c7abf5e0f6d97",
       "0600ac67dab35ad716cebd919c92d89d40201aa3e10c2a4d685e49ed4a6929bf",
       "e86cf087e5404b2e16b60bff40ad6e0e3bd4153ef2495f855eb03edfafa3b651",
       "661612771fd9631b860a5ad4d8486265576c71b7fb4a77b403d3d2ea04661235",
       "154118c2bb37c86a90102eca4c76c7230f31c3f9472cdb867a7a5a7956f51c1e",
       "de0da8cbc0619e6100f8908f8a1db341c35051144272fcf7d9bd93bd663695d3",
       "a6dfb3e5e6de053cdfcadcf913201ceff4e8252e4664a986386ff304ef682a69",
       "00f51af04ac39c6d0c2daf72c7b145cb9ff160fa33fdfd98adbe5310f20a329b",
       "0fcc8de55e4ddbf3f75b1118801e1361b1c7d0f1d4bba4bb211eb86498b66a23",
       "e958f2cebf402e1235677c869358a8a7705fa1b83edbe2a8525cc7f01944a07b",
       "91bb1954d57fb44beee2235d843adc400c88792086eeb3e771d7225e4f7f6ab3",
       "80f18a584c2ed9692bd58a32b1b2d013be443f3887e73b5f86867e0c537c2004",
       "87d6bdd52500b8aa7b1e295b5bfe03703d5300beced55105667bd7ebb6dc60da",
       "6f20f78015c5d6eb5c2c7c5878af7364c910dff09bc4c6c4397811768dbc31e9",
       "513655447c3fe744a9227c63e8d972e512a3aee2a337d90afdf21e33be3a7b5f",
       "04ffee14c8c2c08129119eb9301cb891053712296e0b24c1b5d1431e569c3b5a",
       "9ad35efa733c33ab16038edfc836fce3e2f2ec32b5d0d5b1fb91e9e75047626f",
       "a81d7bc182a6b4c962c82adff3a8d1384e03697c7ba78f63b755bc3efc74c4a3",
       "1eba0637d57d5b1efba04e63ae89373b82460b582daec7ecb4a9df9bea4b811f",
       "e6c1b3e90a9bb488b4bebfe10c3d4bd19f6125e5f3ff921ac8575657e6e87145",
       "b4b0fa9e1a8f855450afaaee8ff58950860fe51a071643073bad2e1452ea4a8b",
       "8d190b47ad61e8d6be3771ccc1ef4f17d558af10102e5783263b3b0b200865e1",
       "f2aa2fa3a0b84cbe415e5261cac2c385b955cadec9a9a33a1672043613980d66",
       "49fe022acbdbee08be45d556b2c6ac06ad5ff2ebfa2a563a68b06fc0220ac7fc",
       "d0c411b2fe0280f18b2027744a96ed9604b019a932f60b321771a9070cbd58cc",
       "5817132239bfabe41bb5e52a615036c720574d33d8f7b7dc362ce214d45f54bf",
       "afbf0e0bac9c166275c084fe405da4477b1b9b53f6a798604fc6a25aa0b89623",
       "c9fe9e3ae688d613cda8cceb93577bfd76e35d3f9b60152f8b45ba355348d0b9",
       "7fbfc1f4998e9ad4ab2140adbc59be0f15574f695aa7fcb73cb8e3ab2fc2d5cd",
       "faf8890e6df30b679ba0cb81c48015570f7c1ecd55a474e138e637202bbaaa11",
       "709ebd451f0c8cf8a2eb3fa2d276a8d21778278429f13bf6eefdd47f54003bcc",
       "8ac9a10d784827bd8834e4f9f82293fc9d64a658879e385ba5d598980efe0391",
       "9d1a4db18e1f6726a1b79d342a1e1c5d1d357ec3af322829e31964326c1fb12f",
       "5dee0b25c86ec43817a52939f262df039ca40bea2dbf9b4156c79d8b3f9b48f4",
       "629196bb37de97d8b3ae7e2e9bcb0743fe0af4a83f98ed9f90d2154d6e301cee",
       "46e55ac3822f77111f4c735241cf2c28656db75215b101edd47c852b53d03a80",
       "befc74410e7de51120fa92fd0d6cd0dab167de139137e21c0ad178a21dea96f7",
       "fcd4b1509afc3e8f14922f9773e0d21a95e01ba67fd058c66cfbe02fe2399152",
       "0006892ec2c1ef6e4a0fcc862cee07898084956855a43cd7b32dd1770634ee29",
       "296fdd59a7b2a1f90a1754f56cd8c82c5a6f972aa3ea1feddfde42c4a0c8b711",
       "6a0be1604d7ee30e697aea093dec1f8bec415a4750cce3750ed3073dd68d3cba",
       "70d46be0f006cbd5403e094e058180c18beb33e3bee1366fec5232e15b9ecf98",
       "989b60b7db75f6da7e6675ac837cd31705ef911e2aff3332fc2f4d033d0847f6",
       "4ae6f349337be0246a055c18a934ef963b7c74c7621be0a7369d60216dc67df0",
       "6fea3751589e2cf96ad7a22d1f171fdab6b8dde026bc946a61362a24350418b5",
       "65a9811b32272653beaf4e342c9fd1c8a5dceee73df68b560a7a8ff7b92bdf73",
       "48d2088206b253cd3cdeeb791108e1f9411439f3c3f003bfe25d5436418e1e47",
       "7204571472a7051b1bb65d89cd176f19cc0171d4cec17fbd254320f14ad5a71e",
       "0b482814193bcab4a58e563c56bf1b0b804e6e8dde9fb2d1b2d5ea9c2c14c420",
       "e69923f58d74c15806d6201b31ba9b5ec578caee1613d53bf2a5d325d2ae5743",
       "9842e92b396af19483be00dd64d96fe2c80d5bf8bb2469ece4a44f30d25fd96e",
       "31aef7e95f81a93030313d5599588ace80619b52019513d00e3523ebe098dafc",
       "494bcf94725d6ba734626747fe0f5f6cb2140e40fbb57a62dcd814c746d7ea3d",
       "9313491d43bf6579f727e092c80efdf6c0e16e2f4c1db9eb3440e41547387c9d",
       "3f4e0c823c209f81694e025fac3890b8e995f8245c3702bb0ab685447b2dd628",
       "296b355a37ff60305e28d07b5961bbb2060dcf7864c676d180d01f4df1b18832",
       "3e086431512c555c604e4b7bfa08b7a7d39a29d00ddbc81678c89b401774a381",
       "ca86862cc8172f3b49ba2b5ccd19db62b4d413e401e1b5c48763b9a43790f4db",
       "15a79c645fab54727345345dc4b2892750d3227b7699a46fa432547240854b9a",
       "9b94db5f06c10b944f97bbbe009c9bf9c7b7a96d4f45f5ef1f900759bf4112da",
       "de6a10839e255c1dafc3fd116afd9ef235a0e75781ffb622a85176bc85fddd3c",
       "d7db2958270d4440e518910b44082ed4ded1ef03daaa5615ae4b894a57881b1e",
       "3e3ea97c2a14c4b2704020d33f56aa8380ae037ddd971a5cdc303c071ebd6b44",
       "a6d159cb8decbd2a913fdbc9fff8a56d415ef8fa447a9b29b95119ed728e76b2",
       "1c2af88d15e99702bacf729e62a8ec618b1456cf5a141411d80b9479e3ce25af",
       "d93964f253b02308cc336a9462aaf8d49cea1d3a70ccd6e9f36f653add6d2cd1",
       "ac5fdb2f025122bc0684bb5bc1e2ec095285952fb87aa8475763d571a6df9359",
       "d5ef88b0292722b03f1efe70c60b9de0c32899ccc04f5197cb352600fbecf1ff",
       "44579dd4de2790262fe168779ad09e69c0a2af65591af84ea42bc81cd4a604d7",
       "0affce71d47e98c087420ea41c8537920f12e2ece2022f84fef4fd2b8c7557ef",
       "192b7051abcaa09d30cfbca9b25d207783e12e3eaefe27b33d9778c4a2f271f8",
       "d776e0a61a6709250a0f0f041fe5e4434d5a767bb469edfa6fd81c59ed328e90",
       "e6dd5828b267e7cf363f770b7dcc646897da9cd55eb9a919c6df5ebdb10535cd",
       "c9e0bc2d34f984f6692dc1112cc64934114fd91f16d53cacebae5a3b1fd5d47e",
       "33e36b50833c829be57a6259da5420cb264b7fa6e009305c157b08bf47b51aa3",
       "6468035bb4afc151812fe2cfc801d5575dd1eb5c9ecaa23aec947d6b7b280179",
       "3cd03fe546f3330d867647adefb3394ec5a4f8538a80f0d1d61983f945ab77ea",
       "624f42ca583d0041f71a2dabf0b0d191eb7a2a879e663219259d084f9b7a4734",
       "61ca53d732d4b9e3469b5caec39f00b35fd36588dc1c298bbd24976397f7d782",
       "7cff7663631265167d864d299fc200e2b1a52f9b0e48201035972ada7df1b795",
       "acf65a3ecf9494c6e0f569a6c40b585cdd30192cb57783efb881c80c0f5162c8",
       "7d32063c65d462a3ca67b7f80625181a19b226b3787ece8b3ef9de206ef4a7d3",
       "051709ef569771bdf5e313b84ac1f642c714570aa31a0ee88626ee6aee8abeb8",
       "2b1b80b192e93c91633d1744b3ae3726440e46e0fd482a4fd47ec3dc1421acd0",
       "a8684283da988fab2514e5bf2ccab7b17e6a08f2d4a9b3b8660d1717112ddd8e",
       "8e6a1064efd84a4b0c552f72fb7c5fbfa86f384a76df9bb756204b2ec174c694",
       "0f3251197b516c8c768ec3dbe03f61eb876d2b249fad2829013a798363036c13",
       "ddebb146327bbba595d678c02732a12877676236c6140215aa2025cc2a61a6cd",
       "e9dfc157bc8f2def7f6555a847f4fe1f9d984a48c46618e74c1949d682929db0",
       "dde4605e79c449189a35d579d8a926fea1179d9ea28013e7d828fd5b6a2277d8",
       "63870ae96c9b6fcd83beb540126f5f55624549f9675356ad12378e57ca708b2b",
       "fc78a47f4090e1eb6ef3f7e96815ed5033ce4e278988636e96c154e152a99ab2",
       "04eaf71895d870168f9b827104f958e683c0f9cab1ef22a03b57ce9a1f9e49e1",
       "aedfeb7021de85d8babe99398796ccb478bfbbbaf984c2f80ce11a6b81338b50",
       "78c55348a94e0b17a3d36a6ef5f562946c9462f0ef8a018076ffda46b9fb39fe",
       "02b75f170fc62b7b806df6c227ccb151b2a0a894216f96396abda8d54a94e345",
       "d26cff4644f87314f84172340bd3416a58824514032ab638cd5ed1397bf406ff",
       "4b305c0195dd31fefcb3859c5e0b050dcc57c5066e96999507e964da9bc5c95a",
       "5f633d1a0747cd32582e1d77a1f2e18a677cbefc12387a5ccbd264ebc10c2e28",
       "0c7611bddeb4fe0bf788aae609e3a04c3feec749a8452c3e1303b84347893a94",
       "61b393492ce14280574232897c3de05d9b378be0d9159386efba0b32f44991a1",
       "fa5f9a17bfec82ef502de14a5c7e7cec26534369bffce01c4bbb28c9b27993e0",
       "a06127f498d1b3d8e5fd2f6a98f4a328fd02bc8b3c0b51b0488a21f603069c04",
       "31d42192492f0f75f171ad8c6854bd955296b48624963be930445e2b185af89c",
       "55e77fd0bd364b8657021cbed55c45316375bb54d3c95c92434ad635689bd2a4",
       "b8d9d9a0dbd62b9a1451a9951099db4b570c06a08f2b3193fed502247256f3cf",
       "4475fc69db10f8da9b266ff577b09041acc415f4bf44c3c48be6f22c13d3052a",
       "4aa0f709095acfb915132627a61b5550d695d79fdda36a55816aba85b6daec2b",
       "479f83ed110961f06c18165f02999f95ed29a59aabf5c02220284e4d217b170f",
       "4d0c9d48c97bae2bd971496fbaca2e24c5463ab638c781f4ef36c92cc660eadf",
       "c4005bfe8c16f821c24bb395b030efc4c6afb8171f156fb373639e8eaa100189",
       "d052ec5f0580cfbef188bd8c179013e23d381e4b031dcd0742fef64b16e6380b",
       "3edbde2d3fe2802017baa72d10dbbc511e38f34358f50028fb045d3fd9376b57",
       "3e6b362bfdb5d9e4ad4a85b94aa04e9c693b9b15b7875479d2780637d6bb696c",
       "0065ddc884f6734dcce0ce6f9e3f84b6fd9684cfbeb554b9532b18a4f628e680",
       "f56abf51dcfd28177369f89413c21ee68771d9c4427680824ea94ce2d077ee99",
       "eb56a04b1500e9fa0c0f42d4bb2510b68c3693c0527033694a98e452c4b3470f",
       "7e5e824c3e5d19b5b7a91e29167ad3a62a20d04606f3b9e874aab20d46158e4a",
       "3a1baff762af64bd363f1aa1dbf86c477067516ae5c359d2e65545d71b2061e6",
       "3cfd51fcc184eee22af987049fcf2256b15a0f609f4a76ca53827b2478dfc8f8",
       "119da153db4e5337ff15539d5513ffa8fdf14606ac147dc6f16d82be3652c92d",
       "68f19731364f79d7bb4c905ec651c8d68856e1a575c1d8b6aaa14c91e08fa91c",
       "550830820866ab2634d379396e0426aa98a9cf8211b7541a7a08a3205bef809c",
       "8e82e322ac31c4e2ffe2d798d9b942c47db7b0b166cce9c165e283517d53e019",
       "9af835ded26d51702603bf8037f405c644090a035c9d2773d7d7a9184e6f84d6",
       "a4835fa08fbb9f18c277930ee7c7f7bf7b6c3f4481182380d0a621388ecb943e",
       "a64ffebe8b5c09af7ad2a56eafa3c61e4fef020a87d72792249e73856039b7ff",
       "7bf06b739ed4c45c3897dbc70b4d8b149236c3c6daffa2caf96b465518527227",
       "18dd57852aaf5f27c67beb753b9869f60d64f560a7cdeb8a47cff66d89fab3b9",
       "ff147042086c5ac56bf8d55460a98a9d1d1a430daf1315e99661787d382c478c",
       "29ae0f50fdfc45cb7a37f81716bf681deb4ee5006a4d0986c45bc4c3ea16685f",
       "a56f0d2c2900c534082c1fe2c1409ad9f17969312582894f63267b399dcfb3af",
       "df9ff6d136662fb99aea2a96b06698b404a5668900cab5535f321b67c8cf0397",
       "93945d89f556e847b53796dd857db93ad757eae81866fac2bc560c2f6382d264",
       "c8dac462e45ed7418c62a28ed1b56e3157667ef773aeaef49c78c96105b8270d",
       "af29c4d491476d442b69d948646d111699ce693abc7058030286e0d72ae71df0",
       "82f284e4c6bbce6781b17b921600e078cae84809fffc44b5e0754c48c40f1382",
       "ef4c61c9070f5c5cec231a63f6b6aeadbce833f82c6de927d3aeec5c1ba69850",
       "1398354061995bf8078950bdb87890f4b9b81fc4ed79d2e81eb8c2478af175c1",
       "1f2012cda60625537bd9abdcc97d9e4130c773509b82380368c81cdba4074050",
       "e8e2ff0237a746dfa92c6fb50823a57eece4e4ba0342da3b5302b85c0f4ad099",
       "6a5b0afb4a95843a32f97bf9698116db643de5853299daddeaf6b7b23936a615",
       "31818de1da1c54f003010370292bd4b2293d72b94ec7de894a3e21d4b3ce083b",
       "14bdfbd859f1b8f3ec26086d09daf026af904c8e570bb87f2143a56ea8fd8d14",
       "a2fc0ea7b4d7431bc0592e6a4f1de11ef4f0691138da2d37551ac2471ec3142f",
       "0a0540b99f9b445af4df984273f81dd2ba4f35c99d7edb4ec6ed7a47722b3f68",
       "9a6871b46ea0ea1ee1ed05339d91c86ae95b49dd082460d3bd51488dfad62fa1",
       "19ec2e2d30e350e24f657a2f13737966425842e8042cbd3c723f6c9435ecd025",
       "4e832c30a58c0fa27961b6d9519c24798dfc31f89df390198c12729b4131c242",
       "001a975c23d875476c7d90ff6eff3e5153753995bfda6a48b8cb2612feeddd45",
       "87317067a543b5bfed838749c3b9f8f85e752f879f49fb30491a7093ad70c6a3",
       "91a697a56bfc3e472832579cdc037b0799243eeb226c1186e1475debc9cf624d",
       "ca49d8fe77e852bd4b2f02b07facf26bf00fdf94953aaa5f2ac398fd7382fd3e",
       "d38a4e9e3bd5201fe6e864047d47d60e41ee8016644640c0cb972d2422fffcbc",
       "68810271b32978fb8588f7e3acdbf7306307a9d8a4c7380c4483c95bb86503b4",
       "b4b97171ca09a562b8f62c005906aae51b148f35806ef3c3fac3a1f5bb5fabd2",
       "9659a8b3d8e868780d43039b42bf52dec01e84cec9124da293624575b3898890",
       "ee7626211eba42b45b69ce04a89808c71880af4f2c4fbc0197b0347a8e973a7e",
       "b9c054be4d8d99c9abd50cc876a1ef36173fa6202dead67e25cdc7de0f128989",
       "82c3b91cc810559ad686609ae12886145e1875e09cb189a5aac82420ef23f9e0",
       "fc42cf775382ee85bbdc6b9c4ceac3c2cbe084f696835ec15d6b575b10c76833",
       "85644cb5eda9e1c059183e94a8c827b72590c858c4b5b4f68fa2bc7c8acb1f61",
       "81773d94f360d2c66adb86ae5ea63b4231b8df868b3f536213c79936e5d31752",
       "06d78ed304f3e4760ae23a42e9fcfaa3b760b04d200b6c80fbaa9ae16ead98a1",
       "c476d1e4fd9dcae6513d48740977c3c752a5ab19a9dc593be6acb60e82707094",
       "0580ebd0699b603f50ec03493d8edad0db6b5f9a4e7d1463f1be316ca73cbdb8",
       "3b18676886758cfa7e128dc2600734c5dd9b188cafd814253ba2fa0ffde5fe5e",
       "8d7742219b02e0bd9026bf6abe6a9432ef570d2e932ad56cec1eee9f078edc86",
       "05e5e3bf75e5fcd95669ed0556115570642f76f7f4e5aa9597adfd1267ee6871",
       "d62a5d7d9241efc1e0158e0f8d2c9b5714b0b7f85b2072a200fcef691bfd9803",
       "37e422aabe0e7d410e87e8f25609b25d62ad50671505225a6b7652073992888d",
       "89ab99f7c94432d05a55c2f4abda8c266050d945cec3d9cf1661fa0039789a3e",
       "214b7e2893f287e202adaacdaf5ece36138d58b4244cad8c4d1aebd4ec30d82d",
       "fc264802e7a7d10d330369066f35403732333cd5556add8dec386bf53b73c603",
       "a488fd80a2c05af758d240414fe9c2c1b02885325d72ca0cfff5451cf4bd3fb1",
       "a1203fa0877a6c4b526a3432936826ad6fc88fdaed321616eb386999077c05c7",
       "fbc4f6bdc7a084353d651f00ecaf9ab674df9bfce129e6e4f2db3825bef4e307",
       "988f38d42080987340def1bf3519ad3e203134f502f22b99c7282ada23d74662",
       "83a6df4227faebfc5ff8debab8c5c1467447ef99d15ec176af37dca80c422428",
       "6c91c7a0e9d4b1534f2c00ffa5c65a50a51e0af0b5a7e828b42f88d4a214d641",
       "77de0d211efa7fcc297818070789168821add43d98ddf2e88ca2915afb3ae8c5",
       "83b99adcba36ad35560982fdb2f743abed27ff16d3f3e1e29aa2f86da7901e10",
       "51c25440a1ce00a3f16805c4c6b9357fc361c4dd4201464e10eddd92fba9d921",
       "a8c862536653d179af12cd3344eea8b6264f49c1663e8618af3497ba9cd36e25",
       "86af39d446b41d570de0007632c185c198c4656b8864e5b58ebebf48e4a7313a",
       "5705e9cd4c07c47c551c19cc1c462ea9348630b1884e95ec3cfbe0ebcaa6d8d3",
       "7b2747a7d166f0708f2122a2c797f2e048924d5bb2c6311ef5eae8466b696426",
       "c0849c13b2d4a9c7477e0da82acce9f8714f29ca4942bbbf94df7fd25a63af05",
       "0355f053f3d14873c41ed452e4db47705f2a53ea8d82374b1e8e98fac6ead522",
       "603f05247ffed7ab80660441752ba2402ef09bf4ff8b6d5453573c4f39d72673",
       "b1a26d8c58a511f7bbb797ddbe6c6478a82042ceff194823275a3f71077b2382",
       "3c07c1ea9ccdcab8bcfc88e1ebacc78043b873687dc6d120f621c45a87bb5f1c",
       "d137256dae8d484e61e8055f9ac86e6235e191d22dc9e15e49c3ba793f576e6a",
       "062b19303856f069711907442b68067b7aa1a4748197dbd0bacf444f89e22713",
       "5b3dff577c51db224c160b9725e7a1bf6c192a6289d69fd56356310877659aea",
       "847e29aea3a7164c75034e48132259af8b180bc3ddc6755b41e31c291da972b7",
       "244e94820e5b3d207d8b1e94e506fa9b66fa4c48ee31e10a609d92453dadf6df",
       "445e65835bb9d660e765b5afc567c2610b516b280a030ee9de8eb56bf48b5955",
       "3af16510be3fe947178461722148a992160e035a7998c47105257e7f7af74bdb",
       "51848818c3021defb4da346f13613bf09ace4f5d19e24eaa0a072f325c2f2204",
       "418e2bbbc47ce1421538958bd0bb370834baa049928b1a3a770e0cb8aafbefb4",
       "6af92bcd6398af4c9d15fa7f6dedc5fbf49f4ed8c63b0b79a815037ff23f0b08",
       "548ff01d168bf5f8eefb255c462d065e1947af45503f07bb2dfd21017ed0a684",
       "206591e496a7d0d2256723a975e14634129d8c4a05866b0e3202efa5301c255e",
       "abc72bc8287c4936a41c37456664739178779bb822d3b96d67eceef813c4c6a0",
       "1ec2bb69f3fa775fd89bcb9b1c02f790393a597556a678b67c881630643681d9",
       "3250803104ac7bed033bd914f893db19dc596d3130310689c6928032d683d074",
       "054c7430af90fdaffd2008bd5a8581b6980d4910c46824be448a05adea5579a9",
       "56b49e58c161d730075b4ab9586a33324ef0ec4dbc395a10284e42340cecc430",
       "2071e17aef781429eeff21687b083b23e0d6ab6fe78789ef114f3be55977066d",
       "88b052196d3b71de18751c968419335ae89d7fc31a2d6a451d65244b21676890",
       "16d66b3e8532aa71af50added939c5610ca3b60cec42fecbaf3c6d7b64bf00e8",
       "f721e21389bea7c95f0b1d89d2b2f107e9f287e8abd916813d52d6291bf0dfd7",
       "61dd83328975e2a5758cdeb70b9d910c5cca7244d7b561db6171839437bd4e50",
       "d931bbb844378569dd407e8a63dbbadd12e73ff9ff5aab54cfacaea4ef210b34",
       "52306f9fe970ab951a16cff6dd8df43654390057fc9126965e964ba5d71f4995",
       "21c9c694253a1c7a1569092af4eefbdb3aa76afe24c3215c32431e0076bbe9fe",
       "65ddac5644607c8a60152050b0ae18f5eecee761612cd80984e0453734c82308",
       "f127cf02df29728583b0e8f0255ad9847a0298b95cef5b3a5a18848aeca55c40",
       "b34fd7292b4907eeeae99ae7c7e938138779e7895b522dd93648bfc722f9342f",
       "60a22618478eed306fb37c73ecb11c593e8f8e3e178d159b621cea25d46e2e84",
       "2f8aa50bdb861dc601b525d82e30d218888125d558ba169c76b7c59baa0b692a",
       "49cd28b731420e97bde7c7f5642971f2dca0602ca024507f487a26f0f9f65199",
       "e4e0810c70334f9d4012e0bf42cfcb0e6a2e9c80c26fb0401cc648453e9f17f0",
       "6900a670cdbdc907882dff99a276a9c7a7dadd36f9604c7535d2fa094d7066d9",
       "2a71becbec6a6768d1e528fcacb25c9b54633a90c637ae938b5a76b885b0ecb5",
       "d585ec7d41fdbf81abcc0ba20973d17cdaeae42c205c250ad54c42e2db422503",
       "3154899a81da5f62c443f8a81f08e9d4b0b6290179b76f684ac666d33a1eae67",
       "b32bb6f501a0e3f571cff2a2ecc25eaa817ee35db8b004aa071a739ab2d1b5e9",
       "3cfc69c3759db571fabb27828a90332d8e6ebee8e3a025416b338f93ce20c7aa",
       "1deed08e1d88bb9e9b772ed2366ad633e48a87137721863a174aeff17efc8c0a",
       "bcf4375e5c89d5c919a2cea503b18086d7eee2b55a096f50ad4d8514619f235b",
       "305deca6408a15c45fdc579adc0d1e7cc43478e1ee335192375bceb38a8c0106",
       "861f49e14d7ef0e77ccc119d18cab53ac80d3a43a2999b108f7fdea557c45eb7",
       "7c21bceb6dd94d38b75211658ab13abe70c278540be1d72cd21b502c02970225",
       "a3408c9d07aeaeda2b7e6c5c75dfffdeefae8c260f5b19f8907c0b982bb01756",
       "fe4b9ee3e1e47604e7e9987bf587b5ff7a5005b138e524148254812f0bf42ae5",
       "61d02040294d62ebed6ca7d28d7298aead106d0637c1188080083ba62a2614d8",
       "75426e202edf4729d654fbc53a390c424c5d1aaeda607221e91be858d7ae9575",
       "ba67617ae259eb76274cd48666bd2f2a66f4f07a2267e2ce9c92cb18223eb2f2",
       "804455ec98a1c821751b8a98a86740516a0726dac2829598d7be743c922c7dd0",
       "9ed1eb42d38752bf40b229f9567170e12b0872958db9fcee548cd2f347f4c24e",
       "6ed680c173095445d5659b5da8478d14f461d1d5c757f04dcd377d4b23afe257",
       "1383de17bc258871ade099999c1f9767d140d8a718a5dd5b8a1cbe847e9138e1",
       "844873c123e980af75c4ec1f41c3c6f2228a54331b9affb597ca933da24746ee",
       "b56c4307282f4807dfdf0d237a40434297f1818a264d84c8e0949fe62bed162d",
       "a786d487f7e32dce972d70212d0e17df5ccb7bef1d5b204b8e90bcf3cf0ba4e9",
       "e0c35efc4f359c3744376703766bb511858cc6afb6f50e5845683289bde9ba9b",
       "77c44f1be31a9728405a7492ebeefd7ff85368fa7071f2c5d65652f4bb02abf6",
       "eb35387564627811f8b682efbea88b13dd1c056ed77a9d3184b93810b6e3db02",
       "be0c6468a03318edbe881bc21619dccd8af7657f82534562cfabc50edfd0ef3e",
       "8da9952530899ef2e08b791b27f8d71c89099f9e23f62e04eb1feb28c16633c2",
       "9bdd805234566196c8dfa0512fbb6d48e1e5a9b350cbba1ae9663b67297593ed",
       "544c13d4e45c49a50b547fb98e8de609f0420845530040e4adacc697375f070b",
       "41d55216b320833016adf2b83cc8210db78aa31aa5ee9dbf348c208ebaaecb29",
       "09efb47d8d17810a9e471e25fa795e8ae763491eb04246d548846d62374b973e",
       "a658d7581b316313cd5058eaba091aad10b8d62808e8b4669c42b21bf5e05ada",
       "5d83222476d9af095d67f3230ae6855b16ba554eab029cf618986f3c43ff4ea4",
       "a7631bdb274eace2591d3b8c1efb0a841edc33ba81bcc900eec6915315c0dea9",
       "b9a87d7b3aad846ea11a6d8372c48602f84bbd146a1df31b558b9381d46211da",
       "8c171eafc3cae577668546b6ab8bd4f052f7e310047c208ae0121213c978a474",
       "62dbcbc8abb391f05bc210dd7d34718129019363e33abb5765a4304878fb4f6d",
       "aef0eda5a0d29fddd31cf82dac6166c48e134af52a7e5f2dbcebde9c5cb13ab3",
       "33b9ae4c755472e9194e1a039fe07c6821ab77a9ff78a0c8da6fad2291c02fd7",
       "8e8881df02725f6a17d95e56ee97fa953733b66bc1d0439f077fcda14d32f20a",
       "16159bd9000ee4b3a49c0f1fc83bf9b07c2964d9f11bf3544c69cdf7f1a4fd5e",
       "9ad359aec58e98d5f123791cbb983cadaaa7b15e8fe4d1cdc685009cf634b54f",
       "7c1f378a65dd3035f691026ba89f5ef8b5ed6cdb6f9e87d2037e12b5fbe121d9",
       "25fc74cf3b2186263ab87f464058aa6ada14721a25f64d2a31ccf3b6eb6c3aca",
       "261cb4a4b9fbbe62cfb0c8831968f73e72ebbe462c23c8adf9a7c7b1f22a15a7",
       "c58f5b5bdfd14f66da6b5a66851a5064f14e1543295077b41e85e0c09ae4d171",
       "c15e42cd4223d34a983de05d70f06f5e2b81df5a9d856c296267825807920fe7",
       "b42e1d445268ba4ff4602a4cca18d9104128eb78beb9504b329e71b54347af20",
       "dfc1a92d08daf008d777e242c0322d2395a6cc9b77ebc1c4eabfa1308bd5f7d4",
       "99bb69133abca69acfda17841cf14bd5d15933f34b3068fb4ead1d5c33925393",
       "76545a64d6527afff4abc69ea570a813b993cfd61ec3626259c0770a699e9cf0",
       "cc2991ae914d87341a0518ad96e4e8a635b47da91f27cd4bb65023a90d9d2805",
       "c1f0f0887fdffd4995229d2561601b8d077af495cf602b561c8c0edaea0cf88e",
       "0302d9aac54a45780789d283b1843d9ad3f54c3e40dd9021434d252cd8ba735f",
       "7713b0f4de9e458d0ee44e3b164fe458059e795013c964e028aa9be142d688a3",
       "eb83d766e3c244bb2ee789cd945b75397a8736f3dc90c96ca3f258fd8564f4bd",
       "66e6b05dad6d95ea132b774b151b69095023656b49f930ae0d8350a95757a475",
       "dc3044596be6e7a5edd1ebe6751052dc35b25991c722650c2cb85f9b3a357f2f",
       "5fe0643547d3c0683f2294fc6d3c8321a807b4e98130cf2f1143a761cb87db25",
       "47ec65e453af563a099be27175170deb4134b1f4243ab810af29e0975ec86fbe",
       "37ff4dad404de246f6ad63a7443890485bb0a6a5e426ec97ba32db9d14261226",
       "2e12744ac7e6f63a3e9053c55253b505e610c1c470a4401cabb45cbad257907f",
       "5298f398ff1be20087c071e3b5d798eb638124bbc258fb18365f68a50be9da0b",
       "0961363ce99efda0d0a9b65db6ccd0bdae1d05fa51ea47ed3aad15e21d51411a",
       "b36684b82b366cb3d5fb242e9e2f4fc10ec54c5aa03514881a376aa7c36e1701",
       "f5b7ac51c334a552042765acc7e34bd4b390f3e9f1c565fd254ac8666dc88eb2",
       "621aa3484ea8d49d41f508a527ba6c6c8afd41dc296fa13622ecd0451838bfcd",
       "ad5dc0661bb2b0846521598fb2401be187dd73ad9556c1eb8064a9d3024e74ca",
       "5136a472f1fa652abc7c17d4f5d01b5f97cca950ef07d9ee79de37e4c49a208b",
       "27654cf4a044d833adcc376ea58ea419b6787db40b61d4841d82ade6accb8790",
       "6d927e34ffd2d22dfa6e5acb6f74dc7ddacb09223dddbc15bf5071fc2a3a5244",
       "fdb10e363e7ded746732282a199e4a28803f853720f8558c0ccfbc2b5ca49538",
       "748046c383eaaad8dadf6fbddfdbb7e91f18dd31cada9dc5c2b101f43105e473",
       "be8e3ba57a7bc3023b5a0bfed6fcb7bc305020252ac918a8da4b34f968a2db71",
       "8aa4feeb5e9051f73793c00edb7ea66b54c0d322d06f8269a4eac9a947b9688e",
       "e099fd1ec4ada9c56c43503a1664c36db47dd266872a3716dc11a220f93f6d95",
       "50a8689c196c01412f09abba3d6722d71010021fc8d1a7310113e348352edf8d",
       "39cda5acc4a480783e4f2aa9d367592d555cc9c8a41ecd9ec99f2dfeaeb2d17c",
       "4434c068245e8bda80c84f53b4247c6251806a64f5ec30b445251ac3833d314c",
       "1c98a0dc804785fd276df29487e89509169b39872b68471a137b05171686260e",
       "1718e08303ee6076f3a423b9215ec33c16e7b00115afd59adf0614eb8c98f66e",
       "11bb6dd02e1a79c94ff11dc54ed7ec3fc1ee9f84849a4162fc44578cd5e0f24f",
       "28b631b68e3a2edf0dc3b7c3d352c592994cc3a6a61ef17a77bd1e0fa084aaec",
       "774a0ebb384a72feb82090e28bd58d33bae9f7043696f0e809f2d40bb173fa87",
       "ec8079fbeee76e3ea559e4a9a515fd25a4801816983945d4fa28b37f65a502a9",
       "64bf79003f89b01f238cadc9b41f72b6c5dbb4ebcef9450a69c0598e622743c2",
       "a16f5d2a5679d1e137722a30f77394df66bec849dc3c0386ed2b7e327376c9bc",
       "7006e6f43743f4cdf15e51560e73ea7f211790f9d715afab81be85f4a4afce0f",
       "c2840d640c17af8a4129f4662be0225da2b9a3122dd113d3648f841846aa2e1d",
       "a18906ce6df9e100a98ef40289057b45ca7fe79ebaf7d0700bcd4ca349948a07",
       "88f62f47b6d692185b64674a778e88727d4a584427cab3c50f8aaa172f0a25c0",
       "fbe3e8c554dc3c24a9a2245991bf6499f2ebb5d48892605fd3542e35f6c70e1c",
       "97736ff6a3276a825c54b0df90bf0265eaa524065aeb2a4d68fc781a64d0b92a",
       "cd7f869199f164a75406949069008d35778a68928c5afb753d033d7b359a371f",
       "8ccde8f209a3896ee005701d39769c047743d66ac8f119f25beb57d7674718fe",
       "0aea69322de650c135a5d83376d9d78e0c2ed312e30e3a21ec4d282287baf50e",
       "1604572b41859363400c6e07a8f010e17151dee5ed72a8e236ac0aa619f20890",
       "df6e46a9678e5b0ae320415d330c36ab4a794c9b592d460b79532c606f3c63d3",
       "8fecb012f05bbca596f9d576d78361a8f670710575b16af97c3beb3f5621d5dd",
       "acdd47f683cab5baabd31549228da29d90fe88b5587cbcc3a759fda42a8fbbfb",
       "1e151592aa5e333c6e3dd1086942b7e662dcc3866b89051a73e1254a435e5e44",
       "539b94b9a0603e8c58b8f4441d22e356dc25c208460f8de82763faa00463c053",
       "533b049f43f3129e9df01249596ef30cfab95da08079e42b60ac77c30b15b262",
       "bda232090b79f6f6adf60c753e61e4140e6cf5b4b7741551a870d6d72d3355ff",
       "1cfab044cc46ade652f674d6f220f4d7f8493d2ca7a3a0e3528d78252c87e284",
       "f13e82394bddb93555cd6c5dffb890a36d689fa1c65f81fa5ea4d21f3c066b25",
       "1de402542e9b17c453f519ad106f20eac8654c4f5716aaf2358cafa9a007b925",
       "709d8e926e510ce13dfa5c2b501d16d2c66344e847d748d83c397d76e960a228",
       "d72b342ec61fa9503d39ad506d0357994adb7108c51c1af11b3be146dba3071d",
       "a86f85d2fe2df709aed46fbd9a4b2728d13a0c369782824d3127c0de18edb8ae",
       "06dec4847cb7af1dbfcef10af9ea8c8ef1a25d88a5963004feedaaacd6a95a44",
       "cb93435a71ae2eb0e8d107a2265bb9669b7b0b2bbfe8ee03bbea9ba9b304a167",
       "b457c40cb5f201d21b24d90d43af5e7b8f06488678ee1f87e1d4370b9e2942f1",
       "676e9e86c5ac96d08c6f4d3003aadfc0bc2bb0cc5267f466f26343cadc677ae9",
       "f0952b451a841454aea42858db27235434c2accf8f6d17644728c059231a777a",
       "d932818c4f70f5527f5b8d5d2722102d317a7d4723436527999e5712139b25e0",
       "aacd40d6ef854bb2ebcfdd7abd00f03c47646d310607795fb029e01974f6b1bc",
       "faddcfeaed432c576ee4e6deeb76fee50670d6c8e60712bbe17e07cabf07fb43",
       "8234cdb9791a7c10ca7ebb17aac80c8abba42b258f48517fc59bfd25d7ca8969",
       "556ac3e543517923fce8c4228a67efdcff0f0e2e0ce8f7c29d2d23b687acbbd7",
       "089777e7c917aee1137423458b9b249a8832ed6f66b62493126c7ddeee4e6030",
       "431d3c6197178408722279ed38113626cba1d961e25e2e195bb3c0677cb0e9c0",
       "db84939fe9f1bb51f2feef5fb3afa2ba2720a6ca821307512840162eb4b2dbf7",
       "6624c366a2d29684d0e6657dab495fe67f94dbd7d4fe11aed4c7a11a73d1a5f2",
       "8bd3573043a7a5de1388db495e1eb0cf9f92e6e0c5e55185f7ba9152f3b89274",
       "d731d2a27ccdfcc9121dc73579a04881e04ed23a19adc424ade86977f80f8395",
       "1b5677118dc4370bbc15338b6e128caf6dffd3d5a579300e3c03e477d2006de7",
       "7d3e4d919e086f2eabbeba2d6adb6d3660a735f9a14966decdccf2793eab050c",
       "23a5569b33e1f02e4e8a3227de5d10e178e87b0ddff5d1d230807e57f453d0c2",
       "3cde433c25ae19892bf98dd7377c1e9d2949621caa1fe49b4c05f26101c4cb82",
       "97c12964ff20d8f715a7c4f13a9834e33a1493d9221e4b9dece1dc2367ae1f19",
       "f8a731ed56c393621ee6a1f311087c5bc2ec0e91460a3d1dad8412bf5f495ea8",
       "0e6cd591e7ea133909d58de98b875040a9047c7d8b84dc74a0e62c04424396fb",
       "7f0d60c878cba712fb0977863b66454ecaa7c300ec665f3d2e0083d5cb1c3951",
       "9ba63a4ac3155d48fad6a6b8ff2c55f2aad262ee6c0b5120ac807bba36661609",
       "366b39b1935234f8cdcd80f158639675da473007bfc2f4a424e48954f76373ec",
       "8d6ab04f0078ceb9e20143c893d341c3ca6c3c63a796d35ca7f0d1b939aa3dba",
       "94fa64888f8250af6670115d7c8d7cfc414ca7c6d4ed9e1f3dee45ca394c47c4",
       "6f606fe7d457b51fe18389d036cc801f95d9913b63d905041e68b8a40c754f7c",
       "80daea8f691c5bbdebeff780cb0c82a7b964b8864977552f54483a10829174f6",
       "e3e53f5f48658dea5ca0d39492129e084fe92aaeb6db092591b6570ec7b930c7",
       "ba8c975aaa2ee3deb41a5b15f7044ec9e96560d21d927b968d5ae7d47bb3eafe",
       "0870785cfd34249af997b3a224ed6afd48b1cf9f19a59da714b5baec997e46f0",
       "e99b55e0de14916a90f7fe1c86b2517d23faaf38b3f2370b166c679a4cdd8453",
       "028644348718ae03fde8a47697be4a9f8a03ceae65a1f9a40a9f81cf2d2ab29e",
       "841edfbe77b0d934e1496704ebe483c47d1d15fdb180f9e19f3e4205fc5076c9",
       "a88c3dea26f8af99a2208e59464519282323a535b8ad50f858a8636762384316",
       "710cc093b06015eed2de3c8e05176f94ffbebc6408eb7776b2dc70b09f6334a8",
       "2b7e0432f4bcf22ff29b2d9311f533c622842a68e4ccf05574382fe263d8ad93",
       "9f5e0e20a528c7f2caceca948c131f68800ce3acd203b51af2c22f9c3d23de85",
       "cc57396577899cfac5f1460174fff2b7f772d94dbcc4ac3348b353cb9d47ba75",
       "bcebe3ea375ca1742059d17f1577d1303dcecbad361f8c57a733fef3a7b7be94",
       "2e45af47296d7def75925c5f986b5b94ef6080b3568a0a52a874be03f5ddff44",
       "e18bc6368d00e9358a8f32f6171d646c7ca24355f1ae252a0ca732f1999a7e89",
       "33c1c668d7393a2f38f7b9aab1e2a03dac937bb84455a61414c64a745a9cec28",
       "0b8be2cdec464566e16b8fc12dbe9342efd6ab434fb8f01cd9c9f6ddcbe763ad",
       "29972bfce4361132eda678434abe86bca21c5ba6561f9e445f3225a7aa7adc12",
       "d5d1eb2ed7519b789c17089b5e0c9f157f5e8712062b7aff66ff056006258b63",
       "0ba541767d14a7281b71cf4c218a5b4297cd6cf86bd57b98a5ccb3c41bad12f9",
       "e826033cb3c9706814d96831635d99f9358da8e236f40299cf0c8d54b4a20238",
       "ee13c0af5991e3776f0ef0bdfbe21ebfd02aaceea26bbcb3ebb0a42783b96192",
       "d00c2b68e8cd35acc01c98784f87377347a6e071ab444fc4b8254a31e3549d64",
       "5b20e59fe73ef0c1d1cd4af6abe149c3df449d5f4b9dfef2e9603467b74874a2",
       "d2a5a4cc2631171b979feac3df4a39ca191a7229a7fe11817f0a5fa37a0053c9",
       "2c55fd97fa67562e1caac5cf34ea4fd3ffcf7eaf082e637a5ae8fe4970c1c92e",
       "781cf487add244e1ac2cc1e9e088ca52669ef4da7ab59f961eaff0bbddb2e8de",
       "41967fa0581f58b40b6855cef88c38f5b0d9a4f6180a7933683358ed9944c40f",
       "0be5e5ae9ad82f1541d4d827c20faaa7d32bf854aab9692f6ad6956cc2b9c7fd",
       "ccfbc084fe23cae0dd9914fae53d8ffce5c29904b7ddb75aee971dfb0bda8d5e",
       "9193e9dcc998823013ecf2e4ccf17079da3518880805d39ab9d88d6ae61a1e38",
       "20b67bed3620a656c032d641b5afdba889968dd3d0f42592e705e07fcaeb0a7a",
       "bb03d3f3feb6d4991d66541f1a5835bcf3cf19df144f519791c76ece42b508bf",
       "5eab2d77953f1f5822c123243e7e4a881bc15118b19a279328686f7861b20f26",
       "282e4bc06a377981f805aadbe42ed7d04667d2557fa44d3300b99a828a84234a",
       "99eb62ada83a7a15acd705cce852b2d59749f61056bd4c373f1ff88698df18fc",
       "0e12d5fffa816e09a8524a0abc44c9ca97923466447bd6cfcdd84d8e763e05f1",
       "085d628a0ab9b352591c9794ff0dda37b9a90d67ff2c93a3330730ebf4d0e7bd",
       "2e19bd777b35700066b37a03ec634807053f6e26da51311f1238ec168f0690f3",
       "6202469fd5f97f2399c6f789ae78ccf9fc33dfb47a1924fad36d6310e4ea5b5f",
       "36b2a2ae24f2c85a03dd6d9f04240f45bbc5741647a7707a2cf4dfaf799c147c",
       "f259b343207afb92d5e2144ff076f6f1bfb31b5c26a8a213713e319cb61be7e8",
       "10a109f2ce61ad0beb60545f53c00db75bf8345d6e7271d355c8554673ce5442",
       "47b2abaa0766a4dd118615d90fe81dba274346594f054b4e99027c3a4d177a1f",
       "10cf7be412f8dcd20331567312ac1f76182c98a7ff998e53879d69ca81a31be4",
       "f37e47ecba928cfeaf8c9f2c8418b177c63399378d877fb87cbeba950d917940",
       "25495e63fb9c10bdd21bf463a583d904b1dc58da984da731eda1a7da63a35e01",
       "b4b46be2439c0b2071c96a8bf9cf577ed6124ca8baea9d054da15d96f94393e8",
       "c285034531ceafc47afd1ff8e812ec4686b2c31598bed9412613f40235d09709",
       "0ac4416bfc9a13f92b26985bafbbda45da066325ba936dba7e2b11a68ca90746",
       "8ecf08c6aab504f273f693c79dfee49bcc9ce74b9f732149d124705916ebc004",
       "c6624a98b0109d53f4fbd1773e4e71d71554d1bd57fe9eba8a9a7ee4ff23199c",
       "381c7441b86863957b8d242c8edc886c2c163d1d4977ef3cc36472a1d9bf1611",
       "9a67d5111f9930308eeed1aba7897e1a89b97993539f8b8a8abf4895ea754dec",
       "144d1701be8923ddc9cc05a982336a9cd5789cb00b8d6ec88e7332118bca390d",
       "91a57b26c5d702c7f131913a66ac7a76d4b9e5154f7f10b0eecd39bfa0392ec5",
       "eb803279403076ee3afcf00c029da3a2b6ad4797ae2be3c96d9a246bbfe61b07",
       "372c62c5f0a8142c3e30c68ac354fc1e00510dee983b5483cf9dbbda3d4ec1b4",
       "92d2e024f85d262592df764ead4b1b59aa3cd20b91ba49ca201e68c61c830dee",
       "e1937742e046b6a49a7efff137a4b56925880d1e6ae762bc04e22c0aa4831d48",
       "dbab0e9a744f902592ba95750760729ba1a63373631736f99c472f62863df12d",
       "79ce590db51b7687dd18419d121b2acd162dc26691df9f41ec0bb81fec5a425c",
       "b7072caa5170113eaec1da205776dc7a420d0a5bae451454300cd8ab7e0ac8b0",
       "c223e8772872ae8bee7c106e43ba5f5474fc91205b08a42a107afefcaca68ffb",
       "6411a56e778d0ff222ab8be2476e81b2042fbc3ed2e039a8084cd5cf03a8d9dc",
       "843e08243d620a8f0ccbf894e43a2cb5be6680e7b18626125f0e1e41414d836a",
       "7e6cb2c8b20bc6dac72c95ce5b981fd98bcf40367feb3c653f600e49e2487b47",
       "ed707736f10832ac038854c0439f2bada124302276a2ee61f7da603350f69c52",
       "c93f936c6febdc6a3d3c8f0afb07be96e29382dea6d6a11817f07bceca283ab2",
       "7f30063428ca409baf0b585127ba13132ee80809f6250525c131f7794ce469c1",
       "08e8888a96f4e903b16f4d23a39f3087ccdcc11f2ec670a747887eee57175ff8",
       "930b7c64172f9c10226eac1ff34f694a6b50caaf355684cded27d1605987fa0e",
       "fb45c1db2b531b910d6fe77b59fe00a839d19b6239b9cf539830aac65da6984d",
       "c94513f6f46d54672fcb01959043d4ce2f055b4992df7cfca1fc1d5e3a066e58",
       "6ce3686980bc2d3d848df46bad126d01ba79a884e675757942f32459d35ab443",
       "23d7addff9b3b81c545cbf051bc0e6be0146e4361ae7d26bb4f3f7994044b1a8",
       "3b5cd6ff5f8aa2fb1480829c58c6b3811038d111bd3c91777b2ee4b4df5b0b5a",
       "c3aad01a226796a73539c950dc9eea59604a34ede9b4eac0aca5553fa2c42030",
       "f059bf2e5f41bd35e429567376b08889f836a58746591c1bee5082a2e19e3b9f",
       "d809f617af32b5ddf798fe652be851de4b140b936284c5c2b062d94c0af69c69",
       "ae037963ac3d0b1ab93260edf1f6645eb6644da91944f239e0f9455b1ad79834",
       "337aaa39bf049690a35b4b3ae919feaa738e9d1cff4bb09d4695840c6adc31d8",
       "2be79938041945909b128d414bea86c821fd41045468cb61f313a5115329e271",
       "346721ac0a6913d3d468d808dba40dad5a98b9c2fcd256b8f26f6c6991c2fb59",
       "8b8ec217897d80dfb3320fd476d8bc1ed1ccba9db195d34ccd6af479da43ec81",
       "60df8876129011e0471655c8400ac632030f2d819e6724f9e8d0b7cc71dc5b23",
       "568fd9349a44b0aa59b937ad75fda8741d3ad5f89856fe3856e904637af32288",
       "87eb6172199192818904dc11003d9aa3af8d1d67e6b242fab08fe4a54246b055",
       "8fb58984e38a9d02ad26d927043fb29829468c7fe5c5e54a639fede5c2fc9884",
       "0c27271e73aa10fdeec50d2eea9b73b2c625240c093032c4911ad202dbbed06a",
       "794fa0145bcc89caa4edd5984beae3f7d4367be8b37fcc5273849a1d40d07c39",
       "5f90096ea5e175d1a9a425992369de81a42b65160475de9976d50c697f283968",
       "dc1a9b45ff71a84558a3647961e2d09ea8de8c304ee157350a968933ba98dd5f",
       "26cfe8ea3562895263dad69626e701219eeafc21444b53fd6fcf2886e22e7511",
       "6dd715608432a2195fa3d12790a5cec69dcc5941985941edc2a4495dd124a407",
       "81a79c77857d146c632dc38e4af034552bdd1bf118506eabbe8774be42d77025",
       "a82f11741e78f4c1f09035e91394926b3d63d8c6f54c7fc769d8e07ce67fa8d7",
       "31b60cdb1b9ee22654361eeef8107edfa4940775eda949df2f36acc431086059",
       "cc9d2b9eb0903914a06d76c46bceb78e6755c8c38749c9d9d7b588ac8badd484",
       "26da0bd60c26d39ecac67ebe3c623758a1b9a57abbbf1fbdaed4e0b16fad26f3",
       "cc1040c19ef77a7dfadee38cb371bb5c672eba45e288331698c5ea1054d419ec",
       "bc2917d55bd8b13c6402026d3adeab5aad878a2f0c0d5c70bf91906d45a2179a",
       "0805060d1a612b77c7ae815829d37d0a42ecde754d2ce09d9b4bd539148cde55",
       "7c6dee366f888f809cb11474576ec3e0360c8a34cb1efb196d91f0fd692a7ceb",
       "81ec6be567404ed30174bad749f35ea4749f576485738269017bb9eb26769075",
       "9f1992b4f19e056a50b2b2748280bdf75e5800138389b620b90485a6cf264616",
       "5ce9999d08ded82f1fdacf2a1c9bbce83c75460cbf0cf26eee988bded9a9da59",
       "e1141ea92798aee76a47eb224f2629541deab1c6d114665be23151c1ad4fa2fe",
       "0084a3395a897dc18ab6622e7a44f0ac2316040085f985fec88b107cced40b25",
       "4b6f2a07f50df37a5bf704414be60ce6ccf808fe5c492d91926a57fd7aa369ea",
       "3d4e9c343ed886b2960d42ae7b2e017460b51818992ef1e9fdfb2dcc3579e55c",
       "a3465716187b54add976f0ebc166cc6ccd924a15094279da9319931665972385",
       "7fd7e5b531caa3456a59364f8dbe382f87e1a0e8a4c62b54419c47a8da4cf98c",
       "023b431dcd39aa41558fe02642fbd2016b9f4bdea4a76658f66dcb43a82c420d",
       "ee9b364eb455ed2f3579620a50b3096c22d785cf0b62482d1c096a75b4fda4d6",
       "f8b1c1a0a56b9d2e2056aee0daab6e93d6a06785f6c5cedb7fea8509706812cf",
       "148dffafe295a1f7d914c0f23a17be0b2dbf69aa4a7a57809a280f8f5fe8724f",
       "a5d0ffabcbc549357bd19868e863047bf2666765b7f75552b0caca55d97be198",
       "036c27e4b83c9c9ad24a3143abf7f851cabf2ecb65fa2e6f72a35c134a96581b",
       "18dea5986ee3d02d33e65dd91bf7fe174d8a799ac40e3699f05409674c5e06af",
       "414d665cead738a0b027d18f260283fc67101caf537df27f56716f8b6272c4c6",
       "1644d966213bb02c052082aac7f84a624483af0daee3523e363b91c4224b39ca",
       "de03c0125f6b48b05c6be34e6006b54b0a296635af5f3f7b90099212dc289631",
       "7866a67d9299276238ed49d29e18b21c0530d859e6b18ab1f899975d70968d93",
       "f204b7bca902b598fd7cae936a4fc2941898b6c4c053e252c7782f4812f9dce5",
       "9fe6cb6fc7e9af5a8b61f8e34e2e6b27cd528a365c3ed42943ce1fb1ee41c98a",
       "8d812f8367e741d03b024fddfc5099dc84604341ffbd98f3ac24b69f7bd8303c",
       "f88d0dd6c2e376566d5b79a8e4d23e5859cafda3d51fd7c8985f30930a0da300",
       "76c7734c9d09db1d7650cba1d10a36b9edb1592bdef3ee1fcf304eba180ba166",
       "2aad97f387168d6d4b8e7927ea21fc47dfe398da9ac4120184e3418840e9b249",
       "bd02b577082bc4f208c1301a930127bb1c3b53b7156d92fe4d410ba6f6fa6014",
       "fc9a194eec4f5f68f0a019bd82c472063fd6dc6d2767d9c129ce34811797cff5",
       "8ea134a1b10afb7ae77d46238b57c9814f06aa8cf6f317e21c2f62d317bb42e7",
       "cd3181b8c328dabe2e342c4561754cc00d84fd49c16fb8ce77f4651245210401",
       "0e1b434f1fd89aad0ce284344142fca74a05e932e8344c4461ce008f8c2f6e2e",
       "0d3b7b668876c5e8de7b796a90269c4453290c455fb44ba6ecb75b3ef33121d9",
       "6e56a9683cf7517c6b3fc652b5a7e21778e11857e59ca3e0cb6f9cf77a36eca1",
       "e7b1c1e75ec032793caec41cf42edb6bf50a0d16f5dc783a06c6c2f68cf44ca8",
       "fdeff8e790a08bbb2e0a5ea782b8fff2d125fad4b8f9b718ae70812685cb32cd",
       "f8a0d198eb6249aed86378ece7fced6aee1de0572c25a537a2288f0be7ec30de",
       "bf52d6a8318fa8c44726feef2e4d4ccf118227f25434df59df7e5283c02c64e8",
       "ebf3924e2ee269d119fd42593a777d0e28cce19cd14da36127029134a1795362",
       "072381a212661e94de623d493482611d6b63405a0596495930ea9a3612f9fd10",
       "a74e29dc2738bb9088969f830e4ab3f140318cc1f617d5a449107ab8a73d09d5",
       "ad39d5faf450ce838532a275f8c0d368d147909511dbc5ecb7ddd5d6bbdb1126",
       "31687c687546a628a91b5bcc5962597b5244daf01bc0ca429d1fae519a432f79",
       "75f35aa4358684a7be48005b68eb558d2ce15a5223c9a4d6e765236e8c14e2a6",
       "a1489cc99acbe0b85d89ca9112ed39b57666f1086f0a9cd093edb60caca568eb",
       "eff2110120c02ae48cd4f983cb16b7daefa3fde0298090c2de6cd891d491d42f",
       "2d0f9a30580d460c734eee04affe060921bd05c373356a8a7f722e53957b2787",
       "58b37d850aa11b335d40f2bbd59551f8d6e3d7a329185ef2ce33193def9363c7",
       "dc5f04d01c87c8e7100ee44e1b88301d3c39f2502fa3018b92a906f125e48371",
       "52111e590eebe1d3202bfe1bb638dd5e1a8fbf57bcdfad0002058b36f6c2dfe7",
       "91ac8943d05f1d12cce681caae116575f264214ff6ed6825c55d405ecae8f67f",
       "a481d3ca4239982740836415f3221ddaa7120757734e51e2b88e147aca54af36",
       "b4d42203c5ad79d1058872217e77f8a394da4b62bab1c8d56a0bd7cc0258f2aa",
       "95e36654522536befb848a7d4159dd69cd0c7ec2ed146e4ba41232cbd8f801f0",
       "29bc9b8fa6c5617f77765f08d72a76a6dffd2e822009e04d79a22bd248ef2fb2",
       "7033954d700b86c1f61ce5903c4977309d6e514f3851351a8c2fcce94a148d0a",
       "0b19383f25beeada2627a5ccc6926385b3497b802e1ffb092c9fae4aa632de0a",
       "2501d62cec8e7d7e8066d5bf9e63b92e8895af1d384e72b692f1c1063b36c149",
       "c32ae4a9e4ac19b609b3a71d0de0992570ab5dd5c8e9e9276523f418f1bc9866",
       "34707ff193669fc359441d9fd08abb9ed8ef68b1bb782caa84f90d3a8b86dfa2",
       "e5411a81a5a74c2e2cacd0b8976793d0be58f5162c738bc78fa288a587672b4b",
       "47f6f2b5cb197e2f758f678388c44f308619e3c67da13bf184d3193efd106898",
       "09bc18e88a4f52a6036cd42940d595b971cfb448669ea46805220bd53ae5a56e",
       "be6be50a1d1157bc5eb8e9ef01bcaeb72b7bb95206e1a41852967bf279161e5c",
       "244937a4e3f6531aa28385660af8522a2d4f1ed89716a099a15b3162cd797210",
       "aaaf146122f6ded41981f22f19a609bc72b704512c20d907d49c8f378887d137",
       "ccea3b824dda4b7e7c90d6bbcf7c3e5e34c505510fb850f4ca96a710adb5f0f6",
       "0120759c6f6758053fc72a8b9a69dd886db6ede839ab41c3f52acfabf64de701",
       "e14e57d059265560255ff123a27f2b0083b4e3e529b0b275167f693ccf37353a",
       "b17c12b78bd0a284a6e99a0693aabb519c7c2303e14da018757c0118d1049e53",
       "1820161f4b286b8d3c19fc0c39d3caec32d301f271486b7312dbee0f33333782",
       "7f5e069163d36be35b52559d457398c86086cd9f9a010cdfcfbc9bf066689a58",
       "1175a1e326aa625ba74161e80fed3527b427d06561f5629cecf43fa85a0d3468",
       "e5de84d130800b46f232ee1f519d28577ae5976260c2077ee82000591a2547e8",
       "43a3dd433b65f5500d521c28318b3b91d6243d6950fc57b18458f14d81779a05",
       "367b0af3d92c4871368876d712be001ecb47ad30643887f9b255100a74f1a72e",
       "21ff2751f508b5710542763d529564af620a936595bc5ffd7d272b573264ca11",
       "3beee937c3b7a9c83bd158d3a07b3c18564d8ea0d292763b65e95d675eea21d6",
       "b4b287c9b378f3daaa25a75eef26709f53dcca707783a32af09394e09c70b480",
       "81ee7fb64dd6f7caa963d2cb3c26771a1140b1ceb964373514a710c45c1d7213",
       "673b05d2047847a904a786314bb44a44db0a2ea7ac30fad44d35f1f3c41d78c2",
       "5b5961ee2cec2ea5efd09c7ec3b26064f3513d0e3354cacf46078d3395db0c03",
       "6d8f90460ce6d7b8eb4398eb4260890fa6f11b082d6c92290f517e18cfe606fd",
       "72fc144de71f6f8e312a05eaf938c094536cef36fcc9bb0702fa92e675790008",
       "7548454fb4bcafd8f918af91fb71976aea7cb16449273518460582d7990a9116",
       "05e673647eea857451f5d4c32a7ffa9d23ed9822deff907daec66a597812432e",
       "758bef46c521cc7d621cfda3b4973a85f3dd10861cd33f3bb149372b350a5c93",
       "a01d68c161642ed3f278e0f778d792a1e952096ea277769ae4cdeb1137d2e9b3",
       "361fe3eb4a070b6c4be65f29e42ead950fb90bd32089550c1e65272041198fb4",
       "a89cc04fc0b59709071cb3b9bbd521796e43476dd760a805c046d78e89aae33f",
       "1a5d117201e4bd8484ce3ea69f5cde75d7dc69ad09375a20311cd961401aae23",
       "97460add38f95d30569fc3d7db55de4d2cb810b948e784b67330efafc5326c0e",
       "59c860a759b48a8a2ca68577d6b2dcbd23c0c86b38640dfc78bb83dff1cbc385",
       "fcab27d0795ed9e1831cadab04fe99d98229b95001fbd726a9a02859d9547c97",
       "ff8bc41ad81b50316d8b71ab7769dc6d6f8ee0741878f205e544f9c5c67d70bb",
       "c7135bcc9f863c6adaf0dbce57a0e5eae3a88ba6c89420d49b38b37e168762a3",
       "72885b1c0366ae053ccca11b4ee001bb25146feb571b3094248fd6a28c906ec7",
       "779761a79459f97ebc6c713a21d98e761666fc89f7100047dcdf2a54dd864323",
       "46e49b4cf34ac37837f1c618f743a0e57a044fcd47dddd1f5db206a096e4ae5f",
       "18756b4b6da16ea3688e7c3689972bd953bfbcfad02d87e197c607f66e81235e",
       "ea7fc505117a47dbb668092e13a5eeafcc51eeee534a9fcc2c475e267a4a32d2",
       "1b1e52a6955721e589e500dcdbaf025b0b2d7a96d224542774d166dc1e4bfa77",
       "31621e4a8a1b4d1f1384031b507496b59df048955ee1e00f0c5e1612863f3d36",
       "4bd89bff38ae5f106c90720e32096d3bc2d0220b8dda6036344ee938376a8697",
       "d162ba7f8eb2906555a6cf62726ee4f173da3d9400ee254a05a02ee7b6b42557",
       "2bc14a5d9630f1cc9619f68bc6f05594dc165509121cd0b9611d9176192a8b51",
       "4d01b5e94b4b45316055db6ce68fff205c6a1dfb2dc69c708dc60908b59d2c71",
       "b62fb649a185f6a10175ae5b459f356c2cb9aff48b1eb077dc98f75a6a6a7383",
       "0b2e68c3e16a96b4f3b593dfa6fa4f036a5c923ec1ee5040a0a43d2f57f227f3",
       "50c936251f5f9e638a6b9f6ff1cbc126a00d3dd75117556cded7eb4d13487c68",
       "3dc12345b98118e610ae9058d11588a515a0eb85f26d3ebead8377564281e90a",
       "ed4a21cfa6897487ba0082e01ddef4d3c05942d9f3bdfcc0d57a4cf1c9de734d",
       "a1f4efe732f56a682c83322fef8359ee14ad1ffc659daca74530868c9939dcdf",
       "8b95f7b3dbda1ef0c81885c07cabcb1f11c41d17e0927607e4be99df36ca1aa9",
       "afed0460099f30376b1e608a186320b86b547e7e7837bf0c12224693f4b379d7",
       "5386adc106618aa0e22035bd7ad233a4e8e28516b5b43d4c2e5fce01e78de611",
       "32d8f1fc2c9542cee09af132b578710fd2a1324337603634d813a60fe514ccd2",
       "405b4701759c72eede57d2262e0b8bcac588907eaf3c00b821f6a00bbfb7f8bb",
       "ad81337a95d150df748bcc755d844eba90100ac9076a6e5e5973b54a354cc34e",
       "f46c0d5a4369b5031b12d40e374988cdee989a001c12e901857ab57c8ea23e75",
       "188d900090fa9a9561a2a61763d34d2d213a145aa4d793ee453bd8b1f6057f9e",
       "3c0d6a84e2af95a7c96d3939f0140237527ed7d85ff6b647e8e17c63f80423b3",
       "d5671a78cb8bcb05b2811b6b12cb49d818c7aa69dcced9d32d69fb1713c58203",
       "7ebf7352424ff2def90788428dd4fbab285d43e643586bf269641d9ab1e342ff",
       "826d740343a8aec76b71086afc3f8f917b6f5a8eb732a157dce9632e5d20e006",
       "ae997b55a92b8e35af7d0f4e82ffb49502910ad58286d8015b3acfe026c2ce75",
       "b2ee30d859e241aa91ac391256e2fed4293e414bfe3d64acce1234c3f654aca7",
       "423c2c559c4a7cd9af8bec4cc02bc9f934ed01b0b215ac27cd94610a0d5f1c77",
       "d4546f5e4608768f195365cb7a1b6920be0cbfcbbd4b4875f6fc30c90f5efc4b",
       "f408a91184433487e5f94a0dbe15252638c86670d7a5d56f54d708066e1e1a93",
       "4a8e598142d25008cc961765e20e1cb8758adc144feabe7c4d8c9d61faa91a29",
       "7dc53f8b1201f1a6b35c5b956e573f1d8e8767c6b90b755a411aa56593250895",
       "9d62d3e94b76a5bcb63c3ecd16738213fe0d5f6868934ec989b4305c3f304239",
       "6e01c15f2d01dd79e3e908e4c0b1bd97e81aa3ca9192920377cd6502371040cd",
       "2eb4f0458a5aa9bf84117ea69ca3af3976544c0323b5f297d8e5dcf918fcf7b3",
       "d349a3941bdd23dd7b6f1d75758d9a26b654b03e11be9f862e8847692eea0e29",
       "a61aaede148b7894717783d91e1bc5a445b72658a0776d339d5382766a34aafd",
       "8f271ea8a9a9949edb8fb95ccd8c6d7d640166ce741c3c3138c2982fa2f0d839",
       "f29314ec984128104f8a70e067ae936cc6f3e4acf85158dc610b1417ec7a5b25",
       "a827f88ef387e61ec9f29d0cab60cd8b73de06b45259aeb28b1f821affcd47de",
       "059ff6c7fb444ca788d6e16a19704edfb1f475de85c317e1e9ac22b2f272cd53",
       "f3e3c606e37a4fa648aea5e1f2cd5319eaeefc43ae2c8380f4f3f21a347caca5",
       "a569cd24cd82179501f06cb65db13e936cc782d29dc7e376fbd06862ae7597ec",
       "d9a1e203d3c4a6727d52dd6dc48a565be0f2472de1bdfc8d50a4aeb5a32e3e35",
       "3bbce7f5f8086b103f366bffa432b9af5006c2be807e66ad5d5633aab09a8fa5",
       "0344a2d73b1f9339e899a407e600dc3dde38152d9306d19d3825ebf3c8870b02",
       "6d78caf70143d97eceb65a6789cca16758c7cf614236dd6ddd753c7447ef922d",
       "c84948cef849f3455ded7ba2f22df5e2ead334274bbec7c460b00e08c7b69e20",
       "7eb9cad8e143c687edb05b90b9fda063da09a94791570a6a25ba40b9032c6181",
       "cdf88a763eed67d05906fe8d0d291a8d04a0f4e9ea3c6c8f5218d58f21a55732",
       "b8ef339c5dec13a0ced776945c77863896266e78e738b0faaa069b3cfe3e4434",
       "c963ded2cccf6f93f04022b1779ff1eb64fdd5a5b269cccad41eec99144d61c7",
       "c7ffccd29c16cf1ecbce7135113f7d82884d13406632a9d3dacaf8d1177f1a6e",
       "95f13706d1d7e38462099c863e3534909841f4eca0c984ef17d914b867d7df6d",
       "7f912ed58c7b2e758016d56a1f818ac54935f4e39247beeb3a8831751ec10a35",
       "216b545a22a8bfa0a5bd509a6949abdd3888aee263bdacbe5a458c851993903d",
       "f03d386528559c4b9731a419c5e098d2a9e49e0448b979782060ab8842d06387",
       "892c540e90afac7045a9caba4f88cca8aba2d39ef1d0ed5e9ea198fa9a1b7e90",
       "10b038effee62b26e9d32ae1046b5b1754e66399badb678e33a1fdfc48266de1",
       "036c905b2c59c8f25e2805cac78cd051b3919203679b42771c00f41d8d6770b3",
       "ba4912eaf0c0e3b5472be3bf4c9fd7f71adf9aae42e4138d8e735918a9f5731b",
       "a5b77f7d4c206bd2fbecddb90c1474c8db3e25f9389d47053a62b2b2870d8803",
       "6a5605ae3c279d64ca9d8e3cee7f5940225b6488d819288f60255d8b071067a0",
       "c0f931e149a0a47e0a516bbcd062ab1fbdb6fe3c0575202bb2918240cfab6718",
       "9b8ca6017fbda11bf2430009f5246abb8cb304d39784eabc5f2d25b5d0a3111b",
       "ada8c767bda4c974633c3ae0921d76f973ce0e217ad24c4e518d9c0b15c2a36a",
       "dbd49885b4e24be2795d3140b7348b023a12382b6774cc54aab89b9037bf4745",
       "1839755b86457a4bbe1706cca8cf75bfbba62ce7311e5b688663e88e290d9341",
       "8b94e9651b263496e564c5ae80802b5846bc6c480feac3b3e107a5b5cc2e2bde",
       "523a5689c9c10f953f3fc1234753d72649314e59ee8198ff05abf8b2cb43a36c",
       "46773edd9a1e37dc545a59eb136d38ee9b4158e3b289b58648f6a94e65aa1e5c",
       "243b24d447bedb6079edf83785e8c82774ac35955b4e7d4e29011ffc51a9062e",
       "925714501bae0be8fa27673b2842fca8f21a74610fdde92b6130e523cb57fa70",
       "9f05bc2c1212db70356771a1109650ea9875a3fe0db7aef20a4dd5778399a25e",
       "f3e12a5aa4e8e98830bcd3757ee01f94d8210866f187f45c39e8cb406e44bf5a",
       "8f3cb60522357374a72831d6c6aa685ea2f7b0605e78784ee458481193b7adc9",
       "1de1078f20ab74fc7c18499c7d2ab9fec16843efc76fc03f58ec11d2caf91485",
       "eee1098856dc4a80bb0e07c34c5f6e09c0778354cbd91c4b9be182cee53bf554",
       "d3aa907319bfdc2205ec3cd0b30e43f7378e920228784d0c153767d87ad1ae69",
       "b9669f9b8f5f8436d3ae3a557c6c8145228c1bc1fc36795891366732e9b50c17",
       "54358ffdb28b25578b00e4c184bacbb81d4c8e2927d5a42fd3f114a2f37a3212",
       "ad2030da41d91ef1139e1feefaa2686a4bb448212405ab8ff0bb035afbd09290",
       "564814fb62ab55759b05a1d9711cacea01e5d7f08afffc134f0d33d305ec9109",
       "7d3461e11725f88180efcdc6f1d3fd84311be9c07cd674976f48a02f2952637f",
       "87865876b282c54e5cbdaac254e48efb6ffa90551e76fec94e86af526e9464dd",
       "1e25d60d5d435e8c05a7d944a54a42951d4ca7c4a35d87cc9cdea8926ddb2aa6",
       "81cf3d823eeb2b2f03777a4ff702c2378cd0e06a72cc159d53d41d316a3e6696",
       "a87562077f0c760c1cbc6ab176835b8949267482bc4759e19120094adb898c06",
       "c759e6943b64688d730b05a728bf431c668d8849ec8c63f586b4cf85f053e193",
       "a438591cc6c9cb87cdf135a2b1c7101c586052ad87fd34d1e49fc1acf25fc399",
       "6af8865d41e1167c999c4d6a1a9b1ccfe21ebbfc4806980c82a1dafc1dc3c96d",
       "0aa639ea2d2ef2fd6f7ed420521c83debb61aed1494c467af797497c7a079b4a",
       "0cba0ecc74c22f9187351707b537fa819bdd01b8a8c49d22d2f743fbe60fd9f9",
       "6990f014a12c0e39cac893f2ddf3d7be718de560a52ace41a2ebdef63e27c00b",
       "1d880e6caa3133caf21cc9c019496da0b5ea011c78f0c82fdc921ecea0d3d32d",
       "c88bf91e466c5caaccb994302efbf462230bafadc3ae9243ed2e2da0dbd4548b",
       "0e5d33b9657a24667ddd29b1c4f16e9e92e770e65b982657932963f6becc4da5",
       "be41d74b1f0894fd76857e101899a7cd815a9dad56ebc5636250c4172f2b17dc",
       "736ebd519e571ee3b56526e2df4397b301d52835f759cfb86046965bb09033df",
       "23014a8be69a50bab1ad9be7237dc488206369718e8e7a51009711eac93893aa",
       "c5a8a983f0e02fd21037dc9dcdba089409d7ae1c53c57ed0c9b3e74a754cd33b",
       "70f253319fb17b968d417efc15bda9ac2cdf988175d79eaabd11fd3c8b6b2aea",
       "558da24eb68051570159fddd02d37163825f66c465d5c33d33e77b4f1ab7d078",
       "4cd2366d488c672254228c5dc2d3507bd84342e294e5a15884abb63ea474ab43",
       "6982f44c20188e3aa065203555dc18edd485df63eebd0682efa8c7fbc3908e36",
       "9866d92bb4b7300e11b577a90d1b1d831a9ccb30748074e9c208cd2f55ea9b2c",
       "78347447dbb9d4d3d4aab7881acbc63c1fd9debcca8a924a0143aae3c2d38202",
       "002f98c9e4342564fea436c89e79bae24d85076349da723da39c3d414982d699",
       "e7cccc1b73e376ae95746ca50ec4b770b8790e516496844bb270d0cc8f30e128",
       "228fadd701a4e10ac9608d2a91719bf305a1dd6032e6e1b2bebf0ddd97d2507a",
       "6863abae88985d1cc0c301e826a8c8c7c3b97132434a6832af18550e5a875059",
       "141e9065bebe69c9f1adda1ef8b4167564b3696fcd76501e6e1756df6ee99bd8",
       "88ae7a7ec4eb8c16d89870dcc5bde0e52702bd6f45ca6c0e28439aeb6ca6770a",
       "693c3dc4bbea2a1547484909b679f9dc55344475ad4e5e68ba2c1c1f68087570",
       "ff8b02aca4c085a84cf85d3ec86dcd7174f87d57169544671c90b5a8b4833a95",
       "5896f4d6733b2ca0d10b68340f9e4548314e11bd2049da6c940a6da5dca18e80",
       "1f82ca7d666dc01367d71be7dea8f05c63a4d50a4340add4e332adeb0f070dc2",
       "913f6e0890b69ef2d99e19ecbf90f5b46ad9edc677becdfa3f340301b2436e43",
       "a9c04ecca5b0318fd801bcf58345b8b0ff0018bf199329ae02673dcba3662f35",
       "41db094b737181e5dae9764d1fe66253b8232d35fd8e4dc89c4e9d29f35e5365",
       "5b75555ef14166b9ad98a26ef4584a980835f04d6b63d89842db80edbff9b925",
       "311c3e282282b36c6f7ca6e45787f7db1901a3f4e8a2934ca86f7b2960b938b3",
       "98ea1fc5e3c85d667bdd9e399757bd4da48ca76f8c9c07873e63cbeabe8ce55b",
       "18ffc044a2da170e57ba301427b7e21a95f39d6e9041a4c2923713533c79f394",
       "df33d13cf7f610cbb64f54b6a7a2cce2269f6da1b76f3132f153ca4c3b864780",
       "e9db90aa014bb2cc6d6e6cc522f4539e11e6c643d233f327ca9608f2245c8b9b",
       "4cb9fe643b5c781b3a6a43f2d146bce01dd23b314e5a0f30cced74f5d404f594",
       "0ff25c2baeef0a244bf8e56d01b104c9456575b9eb66a0ce4faea1e078b49615",
       "aa8f31267ef81a4063ea888f55e85445f93e2b8c3cb44c005f4c0b066a86d470",
       "64bcdf78a3949ce43b0d3380d559bc4cec0e738fe1b3e20bb3766414461e4373",
       "080dc9a11e9e71c8de55f4b5067af2be0b64ad977aa22bb77ded95639f28de32",
       "6fa8a689afad369e1e027dc617fa208986307a09623d4f1f19ff03346ece0282",
       "d6350a5bd96b0cfc96b2a7b70825690672a2194ac45c18eb16a0339cabab8182",
       "f8707483ad150966c5fb7275af192c826d810f7ed0ec0b12c5374538eb20a4a1",
       "d65644c64d2847fb08b636309646c5763c3fe7b184f76a841f96ee0346a581e1",
       "ffe716594be8531558f10787666025c89c8d11240366ab85ae593c5064355842",
       "62cba85ca171877b921802bef94b01a3cb9ee27f19a086ead55235508e689701",
       "f18213945628de890fa462076ba19a83025549b6899f575f66a68ce16ee7ddaf",
       "15ade4e8d4c2c539839053e25d464b8ed479a5b6da1d7fe8098ca65da973dd27",
       "859b3c36d57720f66c71e243ac246d60e3c34e3bcdb68f97371dde50d35122c5",
       "5b3541bb47b324188f1868be1970b9d2747c3923cb732077ff4fac9cba1970fe",
       "65b0b06ea51528f9b1ccb596bfd6212ac42665507d3c1818161ce8ae4bdd5b8e",
       "dd47e146ce5541b65105beedf846027e2542cb1d9f83e59bf815b84c946be465",
       "579b2147f4a14475cb81ec4d9d4e4162aa1e311c433587428b5ae81585deed63",
       "b77d0c4a2c619f027fc375cc72090bfd9249acd91e4ce8943924e07b87ca139b",
       "2a659d2ed96b7ceff003e752b563713d12ea42c07877555a337c2dfb51f52d03",
       "69eb560350340be3b7e997d0a3678c5cb489d1eae9f558496d6cbf7611239084",
       "ddd76d4f298401a7e40d14ad3ee367b36cf7d50097291937c76f1119271897a9",
       "65ed378fa0223cc44355e146eddf00b7001a7e2827ff3c6103d1245ee58cede7",
       "13d0d51d13f16889f09bc3b22db0cad986b164ad67ee69c421976b61c62ec72e",
       "e5489ff4dd6e6acde8b631640cc55d431da667b913c88379c7234abc444881bb",
       "3941998fe63706c4843abc9fba68cecb0b4eae6829f04ea02a859d5097f197ee",
       "dcc5703cfe2fa3f92b1cf4d3834f62461487dfd343b00e270d9b9a569abacf5f",
       "2825ff21e2f93d4bd9385e1e0da701563f3c02222bb920a852013adfc9d413ef",
       "a1756fc5c3b25bd4253717eba3021520410403fcdc378d9bf6e5a46eff42cd2f",
       "dff75297a9cbae6989b8a4dd3d465ef7ff64a117f52b8dbb0425a1f25ca0a682",
       "876defbc997b3a0e2608e7aba55e07558cb19f6d4769c1f8183231b1c526ab3c",
       "5e360ab06d52e218a2e4ff3b710619257806ae29c8debe9e9a49f7b695358c35",
       "adde2eb5b6e5f0ecb958dce5454d45e4b103e9599073b0c1d2eb6f31b80ee08a",
       "8dc4820da4d33532b95eeab4d32cf3f980c6735bff8b4064113be5b95ed0dad0",
       "0176f02ef01cf62be86b139799d0a6efc784118803c682f2fd51b8b1bc83a6ff",
       "db1dd118d51a5de59417339280bff069605134b44db0478dfadbc995307b21d0",
       "273c795015521cd451a0f2a34e1b435c6f999b01b32344348e4b480480c211e8",
       "82457239775624a7bcad7351219126f6643c001c5c28f8eee01f8405f685d2a2",
       "2955c81943541d1a3ccee284d51e7fa13de69f1f14620b523b89e366764cfae8",
       "69c9e1a4f515667a96c0ff0eafba20c668775f33610cb2da8087cf77ed2a9b54",
       "fdfa524c26a5a37dc3c57cc363616cb432289fe961c1d02a13039be6c11e1b64",
       "4910a16b9cf0edc94b307d131bec11ed9a907750b7409a504f50f6770e8d8b35",
       "e6df195d2a4ab0d780de7a18e1e8e16b343f56fa7c980502d4bd971142666c49",
       "8b63beca470c60f6bb459e72edea7672999b20c93cf18dd0071038fbade268ec",
       "bbe98c9efe1ebcba2c6b9e38136e2a39486326f5e8e8a9fb7238eb5b28c6ad78",
       "c3b924bfce79d5187158b1332eda5903239eafa44b856b916c4f2fd09d82bd11",
       "6e3ef8000e818d5b5cb4bda54ac667495cb784a2c21db977bb8776a527bcca4d",
       "98ae763797bffbb25d4ed896440618c330c83b589ee588021cfa97cc6bbc159a",
       "e1087b10f785cb77b78dcdfd224161d898ee75086796237ae539d893b35660e2",
       "58a9eefa071cd5979a1de80d3bde7cbe2e6c8f0201c9805a88fb6c046cad836f",
       "f2678451fdc60d32f56fb061d0d35def84e1885dd8614052837234577209ba61",
       "5b61262c328f44e48a122b311fa56d71345e6e064dab3288c68834b680741a42",
       "b49293115adf049a503b5852c96e62eccae961d2d4892ff4d6a25cf88fc09096",
       "dd9910811c01c10609c370c32c0c8e55b9e548b50caa36a4db73399cd8253916",
       "08bd3426b34a09097cc280c6c6a08b2f1ea58bbd0f270c18c82da60d3ad23e65",
       "a401e223f6610705b217b019d2b1ff5a6c30439e700659e0c4706f07f4f71f31",
       "00e33cee28424d814489d0cb220427ae4b1edf37970ac8c923ed0617b66b9036",
       "fb43aaa418a6c40940246af0f58ac629e98e8395df85793ec5f9f9b086fed980",
       "aaaed900ad731af14b97d12b7bdfa97f43337b7e16cff18e05af441a9cef0e5b",
       "87f3320380705d3c1b87f97e0f5aa843d33d18ccefe9a5acea0a5e4e91103bf7",
       "918dee665719c02dfcafd980c636bf7a479e59b89be5a2b657760492beca2ee2",
       "ea59f0e72ee644a464f9e783a67c0f25cf72418288f4175373d50b1ba2495b20",
       "2a1c7098edad205fd02b9ca87fd02ab5316071b23c90e388221dc62cfc4ccc38",
       "78e752148f442ea0e2cad1e25b010966e6739dea5c43e8e0ae3c4b593165b696",
       "2e7acd8be6619b5d3c4de96bc366d379cb12038a8d4a00fcbe2c927b1661cf00",
       "37332a2507ff214a06961c3762b2782d9415875a02959c1e0dc7e42fd1618003",
       "c1bf81a74e8c481d5858cd18ee147b06cdd9d8120fd6fb4e44619d004f34f880",
       "85cd1247375be4f739bb1c504004f14b747199b11d718c3a8a1af7a2eefd724f",
       "d8c4b5fc54bea84f183b463c2eed2befd5e46118532a4c67f8a80c0afcae0e00",
       "ce1967224307632387942edbcbad393ca66553954a6ce564a7c0c3e49c65135c",
       "219bc58229b9a7287c8bad62fd1dfb29dff9d55e4fb26c9fd21a416fbe339caa",
       "e223f0b574be90cbc7cad8b5530e5f3f9cd66580b5d93e46c1cd189a19aa4f81",
       "99040d894a57dc2d04a184a6b078817850adbfb3b2585f7182d19dbf9eb0b521",
       "2950b5a3e2ecbe152340032b0370bb2f491aed595597d2281b391552e818fb96",
       "6afb4886fd05e1a606d47f30ddd0592ac67ccfb51b7a160b7a97a91c6249832e",
       "e35ceb0bec1b01d10a227b4b4096f215191ecd68021b52ac7094fee686b79801",
       "793b2f16546ec68f96a1780800067211cf1b00775c273bd370f927104ece8a0a",
       "17675352eb8b49e191a3b3eea983ed6c6bd19fffda5e42043a508ead326434dd",
       "1e310d2b9e6e021591de5fbfb9b5380c24130d2860e4a8a50bbdce2bbfbca2f1",
       "357ddd01a3e8759988f08193d2188fe903966b4f8d9abbf48292eadeea798272",
       "b272906796fcf9e3d0c72ee31ad78dbd8442f8230de39e37322d3249374da90d",
       "b75ebd2ed29312fbae6e7ccaf73230bfeb3372cddaa426f8bd2560fca2f87bf2",
       "cd43ff930781954cd1dcc470c2ea5086ab83a2e96c3710b818f695d22eb4cae7",
       "07d612d88cdeeb5a6f02321ab2dddebb00744f6a9acfa4f074175831f02ca3be",
       "42869f3e20ccfbe5c052405c85141a72d920f48135cffdbacc6a2a1494177270",
       "fb7299077480ace5b5683e31cf0084d747e0e964841b6bf36862c8bac34438a2",
       "79f626edcec0c411c40a1d3b3db9125337b114269c2b4b2f83ca6b24f4e78b35",
       "cb7aa4243f1593929f4bd8ababdcd197fe40f3c9856fd17875e51eef19624bda",
       "82bfd9289528e2da812b20cd14306642c9cea10b4c152280de8f1dc9dd03a163",
       "f1e3b5a33053309c1ec9b6144f17abaffab0771e47f951463f982719dced9aa2",
       "f63c16427896ba5e204a5fe404a85d0f3283655db9706c875fdbbc8d9916d96a",
       "a57d44faf6f2c307178edf6e3ad9c56e04399e5f73aa0b5514120974600e400d",
       "e7c0069869e1ae90536bf80a236afdfe767f604d2dfd1636dba1f38ab3dda662",
       "ac22aada46f1b7d1051642fd44250e214ac6244e5f3346c09579d7b24ac2321a",
       "7585be2660c478f132d1e738ec4ff066253bcc42d43511a0603ad0f4b8b83549",
       "478847214895f539cfa3628cc267637add26f6deb89fdf972c09cfd23279f65d",
       "147e2ebf0eac5d8f63ed2a3b4767193650964bd9181fb72dd84b042fbef903d8",
       "99f9109301437c6de26d9aa0f9c79b9ccc13198e0da39ee7dd044dec31de22c6",
       "2b69da06c2721cedd75d94e6ed24715dbf6c14c79bd3da642de43e3546436d9e",
       "15ab83ffcf05b949bc9fa78d5ab88a932d6f4042184e06fb55ebdb9092017887",
       "997d160339f7fd076abb60c7146c137a21153c2d7ded19d314bf6fc3f93ac180",
       "c51655602a8c605df4edd98bdf084d1c7989e7a2e903f9049dbe2768cea0b052",
       "1092181f91c2bd9f71b413fd1c3163bea3731645c1aab4c4e20698ec76b3b546",
       "e605d5658360f34ba88c48958ee7585ff2e200a3d2fc5587a2c03bf895b4726f",
       "665f8add8254ff888effc5e2d252148741869686bac60b1cac17adfbf5528acc",
       "224eb2b5151891935e233f385fdf1c6b0e4400c12241f537c69ca5359ea42eac",
       "3ece9c9f35a5a0e57a6794563a4be7b1e7c73a3aaf64d4c76a313f571d3c6bdc",
       "eba1df1057ea6c3be86f25e86bb4f343bf2c34de822cdeea4e9aa3d8fdcea545",
       "68a661ce50ff956233e294916ef4aed37e410d7d3c2315e090718a6bf6ae1177",
       "b6fb3215047d4b362e48af38ae7f57bde0cbf8d9fefed6612141a213a3d8f67d",
       "f1fe771d3099e99541dcdcd560170602c8de18e124b89ecc34b2b87a2ff05eb5",
       "2fb189017075006f0ff5b78db5fa6cb8df333f826f46274f58ac0bc3b1ff979a",
       "287acba6b1e19b0bb991786f590954496dbb279e42de7f887b03f999ac682895",
       "47ff8cab14913d4e6570921f1a6bd4e66554c6b965faeb319824465d60109404",
       "1f95bc92b69d310707e68acc61f7316b184d77caea6b7985abbc72c923669307",
       "738e8a0464a4483f14c771a10e080a566a39f3df539897a9a8094bbecfefb563",
       "419f0f220f24df56bb06dfe085c5ba402eaa689d017137c6a87d4656dde70db8",
       "ac89a19993c34f6799258d6319f8fc9f62e23d4464335c781eb1a62937a412e7",
       "a5357eff5d8ed164a029e6184d74ed420f251f13182cf116355d6ede530b05f5",
       "9e958b0cd3032ce41ecd6d8aeb1c8e7c146404f9edc0b1f48e66d0474ec763c9",
       "80244196c9674d3592685a187780d78a7a5aa240fc2907e2597de8e51b8f78a3",
       "ec1dff059612f60829ccdd720a438f00c655330527f9910b468d949890c8e828",
       "6881fb61b2c4e712eaa6b9f89484707ab1930a38a7d897d51240f9a4900c08e3",
       "a73fe051a321fca9d8a1d2145b62a44e2c303d5cdc5c937d1d8e50ffc73bba72",
       "606c9043336d943dc2355a7965b518bc3981b97e7e4a82d482aef585a6df11bf",
       "db02a6d190051719018458c313ee6af22b8d65c18c94fa678964e4056e08f7b4",
       "3da561c516ad22a2cfb06135f1cfba782c36d0e28ad3de249d05085c95414477",
       "423d3576b1e0d2cd466a9cae5d3276fc5e7eb12bfabf2c781a50cb63ac7c90a4",
       "a6aee05ffcdac24ace1928bc6eab2869b5cabde6dc6029ad61b52f36e70d7e19",
       "f38cfc726378b0be8095e4f20478c1b55d9ef9d0617c1216afa6ee893a7d6112",
       "e441d13f7743d22ac4e88ebc83004c94b3722af668f42ff2da00b99ccd47e3be",
       "f9e9dab003b43bcf9b749f91e44a8bb547dbb46bca7129609dd22c1632ecf4aa",
       "8d1c3194d56508094637ad487ee8c0a1f5ad0b74b231b22adaf05656336b5b6d",
       "6a38af6e40282ab413c28308f4c452147eacdba2921d99b61b8716ceca13f79f",
       "bb61e87ae8c9fd480b7ddb2b402cacbca3f3e7911d1ab721dac008dd6fd749d1",
       "582336f383cdb4bd0f4642ffa6a98f4a681ebef01ad532fff37b5824ad5a8554",
       "264cc6fa1c6b784ac7cd9204eb5d402639ee98329949f888a499519d2c5aaeab",
       "a24f01eed598cc89381893f871d870c6d2798e886c4354611286fb4b00ba4a88",
       "698de4f74be9472a158fd961a8d504f5772b07c951db2055150a916516670b48",
       "3f389384cb03680e8686e061c48f6e1a8f670257b84b17634898c68414604591",
       "43d7628987f09226435f3033f2b3e16557a438108092e03a8d5c0c416f2e7d6a",
       "64c9656365b609cfc5faaf8938232f36ef2bd465efde63145be9e73bb0cdfe9d",
       "6395c157598343b85524163c853c5b12386d2a8c6d16532622d2410bca793afe",
       "2a0984a5fdafc479c7f31670aceb9d134c817c98c25cd53fb5bf37649551b7e0",
       "76ddfa4bd9950d24e44106800669a5f3ab9d6e07d5568c7abfb9b9f7d138679e",
       "64c26772bfef7b9c28ede05870a62211c99e2b706894016232f928a3087d5b82",
       "e509b3af91330e7b4d1f75d424b5b3340488bddba9b6191bdfbf2d8968069c95",
       "73db1139bd91cae1529f0712ea6e94568585ed72b0b277c66159694a1c604616",
       "353491d63703782a87a6af93f07fafe50fc63a40f7d03f4eb7e69d9ca7e98b68",
       "6f2ecf9d801bcaf5ab3aee5e4f29d2a2001a706efd15e9f31c4bac19d1189e08",
       "98c97dc2f1be73ab8d8d6faeb34161712d48dae9ca14d088538e6ba4a9b61a88",
       "e6653e02160c197ee75eda01d8996e0c01fc03217ca988fdec34a8a85d747a63",
       "27bd7d9f6bde310d8aae547b300605dc1a0be69cd1ae9dca3d221cbaa620dc4c",
       "2cf4592e1d9037ef01411bdc50e236ec7214708719414e4d88ea810c35391775",
       "5d4fcd05fe516c2af1788bdc240158cc74b464a259876482f290b78d68b26624",
       "b34344013f18413fcdaae5c977f69806bf48c9eaa813a8a405b27a001abccc3f",
       "a10e18ad79e82eaf7895c375e6e92a3824a0e0269165c72c8d53988b955a0cb2",
       "fd9f695a3229c0c11dda15685f6ddb07735889e221681675455f535d55a1fe3d",
       "5e1891c8e530c11a107125f2e30fb285577223c81286c6cf499d172ded6097c0",
       "1a36d9f917fabd44b5b93106b1e38a20a0e4eb878c1c400033a49f554cb3da31",
       "d5928d528b7f0fff06781d6b27a02b23f6700170480b35e43065eaefcf8dd092",
       "e62f90a91b4b4f6eda42a8b2047665a7a206ae4f8ffa32d9824b64c2a2ba75c2",
       "dae385379ec110d994f7fd983326f5b52ccfc44d4b632ef4a8527dbb30d5e750",
       "8895e60a7b54f3ded8fc5a0149bc8e9ea31a7787cfd86e3daed17a53af62d605",
       "0143668cbf0a7e416ced2b37d9320ecaf4871ec4f4f77209a8bf1e2d818b0a7e",
       "8499ea21f80b8dbce66c0c494b1422af3b63797612bd625bf99aa3e0486e7d1c",
       "d2704286d446711f8036dec5c6e681e2c11247fc492f3c42cca1898baced372a",
       "53c1fdfc1f3a06593d9c037be2c7f9f9a5f2693530b5f3f66695b7b6436899bf",
       "4bb1f24a963f1d5eaeaa2f1db2efd1d04946796efa41fefa2197470c0f12a2bc",
       "ff9bea62c00c7a1181ac72f368f820b25291b55738321d27334e8c76f7baa306",
       "d5a5a0d168728e55de297a147ca9c46638a80ac6fc43bcaf9b73f8d9351c7729",
       "beab0f3e4d31db8320a898815d196bab6c18009c7e7d4361237246ddf3e2ef6c",
       "24cc9dd2e5b6452e55575c03c3076ef0922e919ee21ce8daea4146f2129c9425",
       "55646bd2308eb23e2f3f318868eb1acbab4eacdeca062e6d09780cf344e0523c",
       "56d1515cd7e7bb4e7ea6e120bcfdc68292409326387d82b5efe01214bedcd652",
       "3536d5c9c7105803c5623b385263891cbb2b6478584e910df16983e0046c3481",
       "170a1137c42cf5679326cf9bafa02b02170119040281f211d4a5131e1213611b",
       "ef56a19c9cc8e6d6598184e0d803d5a990712e99e8920ca91d8c7b7dfcd7455a",
       "f8eb2ce23a0288c6e4923bea86f7332d0713872829a14ab398c2e8cd38de582e",
       "fede3be1665a96458a3e67ce3500aec2d287ce693b8bf7e6bb3c1f16137f8dc0",
       "fad405cbd5c2aa3c64f61b37757cb5f2959e8ce352662ef4aa10ce2baaa0a170",
       "79adae36f4a0727a2e9735dddd4c0327df97f8acc2b845a292454a3583e81460",
       "d9a288e43c048171b4e089a28da842c28b3f94ec9616c993417991bed29d3ca5",
       "16ba2775ded950e1a8dfc0e440b6475a8c696316adc008409f55726322098b98",
       "c92c2498ec29ba52ed0b2ca72575a6473bd7cadd9ed8bf707efcbca5ca638124",
       "36c64c0e12b2e790bfb63ba4ba6763a49be54542696051fc63c136e9a7cb7213",
       "61d15c1159b72219181fb2fe41742f13be209d5f0e40b5f27f29e1de20e9f169",
       "638642206ae89edc482e8e14966af4c08bfdcfbd8a88e191d82c19955576a512",
       "9eb88f3d9f43ce9184254637f14ea94f2e019ff2dd2278bcc35960f37b24388e",
       "0b171f9d27bd6c650a8267996ea8130f9041ff296a75515d1055fa0274091d83",
       "e09c6677e7606fce9203d6006126bda7b00aba5179f16177e07d4775252533b9",
       "4d6ce1c9d6ce409d2ddc57d2e1cdf6627c4b6046db7f7a5c30d75df03d3d7a2f",
       "ffe4ab6c91e25b975c3ff97d91cafb72eed2d7292987aaecf76bb0ab6e8763d3",
       "6428f0699a8a7a495beed6896d4a10513827bb845206015b27b3b539cb0af94d",
       "736573bfe6ef93bbc7bc9102adcdee01b588f9b2a27b08d7172b559fe9d34031",
       "83a5367ffbfe541cfc458b738b654658aca8da13be64d991e07a10480e9e1f9a",
       "c73ab04c4d4139abe7fd8c17d9acbc5f80d6f9061500c212d8568660c23849ec",
       "b81f662e4585b0b65ccb1df6a8fbc5ac360155cf8f05925b0b6eae1115161a54",
       "36f71900ed44bfa94dac97b945437ebe35715a4514703f788febe68972392e12",
       "1853d8e8daf649e53d1f58a2126b68bb539c4ecf262fb19d8949b358b908231a",
       "32e4e37ec72dcc643c04ee0b41f86fe9c0525a0451b05ee2e83deafbe44c666c",
       "64f1c93323cea89d6d16d95fb252c455de95546a73aa0d18708c7471800786f0",
       "443085d71a15081702248472805c66c4a4a43d11b752888d70b5800ff0aec86f",
       "4f883dd5b37ab13c95879d986d97e7306dbab37bc375850d7310da4aafd80d41",
       "0e1730189683db8f0176b6f414a7744111f3c0fe79b2bbae24074eb22fde7655",
       "3877748b5f61341dc6fd9f099acc258d4b5d70cf3d52e960aff51d1d6c9bb209",
       "032268c3f082f8e2b6b865d6848506bc1c16c687b868d0b4de85b0da75bcaa30",
       "d49245c1ad6514ca3f794a996fe25435beb7ef1fc430b28c4438321363e54d92",
       "8e270c4df8ea12de9d84aa90c75852dd72423232c70e782dbbe71caa51ac6219",
       "235eb46a67d12ff277c8e3f44aaa3f32478838df33ecd1b7ae35935b0f5759b3",
       "b1cd24ec4658e94ffab0112fd574eb12b22a072a752995d22dca0fb859623d79",
       "29a06ab6b290895c6530221cbe6978a6d41da609d1f82b8b9ed12ad2e6391d2b",
       "c4df209b483e5f5b80406bb6280fa2d23ab5ebef8846f5fed002bfc4a0007a0b",
       "7de5ac16e5468d4815142657371467bf6a42775bdca17b78a82a6092992f074b",
       "6c3d2824d5e42ef62ebcd8b50e025ebadb9f5b7ab300c98cca43118f11793b0b",
       "198066e839b477c95b4112e16e63157a50c4c67439d820cb2be66cafa4a52d7a",
       "e31a47af93aeb9f74128c66a14c0dc6aa2c27114e2d7c946d736d4728414bb42",
       "4f0a3604c9e2409873db440b7f2c04f25a3dd69a94bc89be75a88665d8b7233f",
       "0f58937f9cdee153ea0e3cae2d89d83b5063bb7d393c6a8e45b06037261b6590",
       "5de3154e8d15d31e81750eb86388631c74df4d531f64c54fa6e2ee53da407072",
       "873f3c5781b5a0b70e226449c00ca738b5097771fdb9f2dc18d5dc840f298fb0",
       "3a86a0c7f234ed11de0cb489d5c33e9e01a1b9cf7889e9b39058cc5c08595bcd",
       "92ec68704394f99109238c0bc1a1dedf807b85192a14e0997eb5226c05071fe1",
       "f47c102d2fb5eb1b567dbb73c339883a3ac55d8e32f6e3f362a2f9836c549648",
       "fccc18f4295a6cc696e3e7d3b72ecd49e8d7846f811297664b6d5a06a382e68b",
       "4d980990997610e90d772cdd72824f680e7d936ebacd82dea0a29c6a71d3ac91",
       "dce3bb8924f5c76e9f28d57a6c71c2b56651ea542750512c6b0870e132c23269",
       "dd6d12a67227df8c2571326e2d3e4b97f50fce505b3ead759335f8df29d8c6f6",
       "c93473cacf847f835381d2a89f53a619841f8df94c3bf598f7cee4e43bfdcf9e",
       "eea34df1c91ca3ac94b1e83b0b289af8c119754a55bf79538b6f645f0fc1c9bc",
       "eaa926e01329af5d1d3fe96da6c99400c3224106aabbf3de95f447e7b2423832",
       "287099fc7e497392ac4f1efba09a2c3480d34eeef3920719555328d697e45fcf",
       "1b33f46b69608afc64fa30e4618d4215e760a89ea14cfc848063dfa6dfecc3eb",
       "59bc6da02ac99253f0ab5187a864535a26cf3d3d38bb162451a2b0e1deb0f6be",
       "cebda8ddbe9f0e669d65171d83fd8db3805c185f5a046f275d216e58bdcbadf1",
       "5a364baeee295db35d8cc46bfe47704c6330c67e8150d755bdc46608d1c79a5d",
       "103bd3d423cbb389a6838e39cb615c8bd9ecc0d72451e2ed15c5e2c3db1aaba4",
       "365f9b961948e3ba2c181820c0385739a75c12e0112071001a34e9dbed337ab0",
       "042c87ad5b582b8853ac81bf68cb7c0d99732acd1a305fbc8f919545531270dd",
       "62a7809d7c81c6880df5ad1e97a849a01cf8ea614714022191072b95bd7ba959",
       "98b3b308ac567542b01b4d612c0a5d3dc3b708c57952648a2eb650b95d5b36a1",
       "5633cc5b3de14e7e509af05a175441bd5709ece34e3f0a615d61e3399369bdbf",
       "f23e9f2beeb23e28ef13a96d817373a721c9b85f57883dc2f25d56ed0edda3e5",
       "f8e4864eb60dfe7affc1be025568174049e7cc13fbcde8343fb7a9cc815657e8",
       "36838eb1e91817e529f269c77d1074a23a1ccb64dcf283718dc8d671a87785a6",
       "7d12a08ec1b0229a3e94f22e321768b0486adcad85ba00f7df19286695691257",
       "d6b97033d9728353f85575bc28f8c23924236f89f7b5a5a927167fcf08e5ee9d",
       "7c7b2e0626f184a31b2632b89390db69de7c3d8331fe760c99adaa26a318ec1b",
       "cf43bb935782321f5f6565f5dfb428668dce9531ae03afee2e28c2ac935655f0",
       "0f85c772101753a6ac18f4648567ba83b121b8a50cb7ca168f6dd120cf8c8fa0",
       "9dcc69da63f1064797f55b45cbabd20d6fbc719c0c67cab091b599ff0c9c8e94",
       "01793822ba48849b3a3f4bc59f1a8af5b0b58859529f99e55e0cf6b2e325de1a",
       "408f1cff3467d9e2c6217c5a16452e3ab408c6a9970b93742c61eda285d424c5",
       "351bd3faf55687ac5ef89039437b8463c2f8e44a9ebf4a8eedf51cc564a7924c",
       "5358619c3ce1d31da5cc6cf726283bbfc92b614ced571c8bdc682ce0ccc5d965",
       "2b8efb78770e0b349fcccaf2cfbbb0c2b344f8800fa834da927dfca2b0098532",
       "84b4a4757d0a884b6a9f85c664bc9d56f070dec810e4f9c0b578cbea9678f7b4",
       "a0956687a6de34cde3565e2adf8e4179ecaa5047fb6da3719365007e08b3524f",
       "6827dd180afb7a16c56dcb65657f89000fa28c7692a6b6ae20b1a863b2ed136f",
       "e03bd373f3b9e19ea016823424a04f83c1fc84cfb25315001aed832c0b25f49f",
       "c1d7787a743a8d22e421994068b8146fe30a48978ce6bf8bb8c066f3b1e250cd",
       "9e80067c8eed3b571fa2690e5423acb827d8aca2bce1402cf38b8026f555e249",
       "68f703cedbd0e20ed387e93451d5511553e81d46bfb7d4157d56a59250458228",
       "80bb5c26ef1a4a104876763cf3710ffbe3fc761694d46acf951e1fdeaf94654d",
       "67b6279a678ed326075544f6f6d7ab4c86fcd618238a207b3c824aadd5e3c1c1",
       "94352391e2abfe5019fb2c40472e6c41a7f84cde605d0983be41fe206ad7bcb1",
       "5f5576cfa153c321d6f80f7683866804c850eaa021b033e6992b995b277b4f3a",
       "50c293b5a59642d4f7c6ba95dd038f672d0536980baa0678c75201203a1b14d9",
       "c6baf869205c3192e489dad199c95cdf6e7b17599e7c3e6f299f3de355de4c32",
       "fe7556c52cccab6a4726f70ad233ffda9cee5591b26df75ccb5502d00619f834",
       "bac5090977ab6b8d32c36e25091653ebd63b830c9ebb90c3af65ca297e5cec58",
       "2a3d8b4153dd4541a09656a3668eefa0d58dede3180499becaf55968642813f3",
       "298381d89524c674b3d19eb690061fed3c04331293876b6a247f156526862d4f",
       "714550b9f177a5b24eafeababea8b476672f27e600a380626c5d53e235e1bdb2",
       "b8ff7cdafed6ab0d9eeb1638b4e12b56d95cc646b242cbb3df5bb18daf201350",
       "3d9fcb182cf463c6b2ab5428b5f75210c9166b629bd935a1a043eb0be43067e1",
       "c78e156fdd3d8e370c30e66a2abb3e74bcd5a956ca90c97bb109c0fde48ec1ca",
       "f499c1eb478491fbea068052d04ad8b4401ff6f92b555d70c0bdc66ef82642cd",
       "b55a0e7c7afc0a508110a15b355cc01f0927f33842c07bd55e03fde840f7b452",
       "01943cca67d61d997dbc7689a5f89a7d24c3a0c8b3f202d60ee12897762d2996",
       "5d054ab12c86df4c795f90672a94181af7a446f55030a44bd7728933ac6b094d",
       "c7d3471d6afce3f434fea621993cece173cec0dfff8d0937ee96888b7e2d9e20",
       "d0f54d1607bdac192c9438be916d0485a838d57703ec5fa625e59741db82d10b",
       "4c7293700b98aa753f205269c62528ba8599563ae0698be4fe96b08b7106dc97",
       "cfa5ba63e61db2dcab58d5fcb7661dfaa784e597c568b80f267c51e17b994577",
       "2527b6e4452489ff3cf32316c874227cb072b6059a03e20785a76f2000f17b2d",
       "3b232fc398978ee8857456e71285079d3268817e5cdb396c05da1551a8a119f8",
       "12b45d5060a90cfb0e6bab70b0b9a049f763e75d94836ed88f98d4ce02ea4680",
       "4be7705b28effebd85ffcf31240c5e84c53c27f413ad704ac8675da293cefd04",
       "52da52a82b667669264362026e883c7ff655b75fbebfd705b93f7bc580f60aa9",
       "b802305003722d495b35590a55a19d72ab6779fe07fc7b98debf3ab3b159d149",
       "74245682a82dc5afdc5ec62d78f5fb7448458c76e4cc75d76f99331200e7b213",
       "1cd16fb72b432a79ba741c844cf9ca83479f90cb4ba3e84b38e1758a4224a92e",
       "f98c93a21ef0b01d1d6259f2867a8d5e73c0bcce634678edb866189247ecbd28",
       "6423d47012a6c2216ac2ed8988dd19eb3d8d8f00aa2bc38296052fb296500871",
       "be0e26e4da329d5f4a4b4841e92378d5174c51f19764554084620714345efdde",
       "0394a38901072875bfdedd02464d2e370eb74bb21bebfcaa10cdd98921d9bbd8",
       "00f7525a8667bf47f6e5a2d3db728acb9b204ddcb2dff641e3da23b95d7aed5a",
       "cd651c1d281bd56dcf26cd86d72aad0b6a04eb5ba742695ef77543326325dc66",
       "004e45c667da753e6d9df782531b6cc19799bd9cf7217e41963503428d9847c7",
       "dd6c8eda7f8715ce4e3d24125bf83c05bd192ac60961b35317507a5afd293a60",
       "4d61a0efe000d2984fd6cb63bd1e6abf25d57dc2496d7a736593cc9cf29cb049",
       "92bca608faaaf496fb750fa444ecd3944651207c5d44f0d06e36d5e4df125b63",
       "21b7a4e7003aa53da2c21777caf2a62670843d9ea02866494d3d86d8d8a67a9c",
       "1db88d5cf4bcd4362002160fe0a3c493e79f7e9df3eb30b03640605ee6a63ad3",
       "3522edb47b13672ee7011596439c3d11fccd3c5def678dc987d5137578e872e0",
       "dbe33e37e40c155080c6929f6db50cec2e449d4062bd3ee4cd6e5cc143fe765b",
       "15e6861f7b18ccf2ee204873a68437fc56e3153da8fe42f7d94fde0a3633829c",
       "ee4809a13cba8dd32018b187b2ebfb4a1a38767cb61cffbd861c73927d6cc261",
       "4a6a338243ff2372d93af2021d967793da48d1b3ad5045b0eee0b6f4dcab0dc7",
       "2a8e045de4c6c81aa36ebe8f25f862b3fdd6a02161c298d36579590d7ecf6bf4",
       "0fc27899739ba91a0d32beb22c526d468a38ca54f4fb9e40611afd6b60ea398f",
       "90d99f47ffe5a102916861f151ee27c5eaef0ec882aa387d5dab78ecfd4837d7",
       "81a0e28f7e71ce79b555360aa6b8bfc26658a0f46d63d129ab4015a775b31032",
       "cc8ae8e580a25b624fd672ea9d8c6d2a2689d03c1a33daeaf25146aa550e41cb",
       "0c8bbff7a3996e9c32d24d41154b0f142075c753f8b0194124931e0f36b7a5a2",
       "e940e8bfbfece1b0e58b2e04dd2d042b05e8f66e5781959f5b41cd2a151cd74a",
       "a6e0722469dab0770dbc8b4731b67117378f4410cd0f0699ddfb53c28088a26c",
       "26e6b8375e6b3f9b05cf0eadd752d16070c854d2e9a3ad93f6711a75aeac87c0",
       "364d0d3fca0b239d20bf48d987d28bdd92f4907a4ca22153fc52f0f6244fa7ec",
       "d2646cc60ca688c170aa81b197da288843aa5773f48224956eed65c1603be63e",
       "4d0259d07a3df833cc1a95ebcadc444fc05d8217a24810cea57808ad0be5ab0c",
       "d5d203adff9d0c1c6a797e7de882a39a2fe956d1267ce07a5f02a659f4910fdd",
       "af11d463d43efe277755aed2c148d2bc1fa9372320e9b425925299e86e9100eb",
       "89e1f7fb2b66dfef789c958edb2178df48fde99d3e4d246cef4065ac6319a998",
       "0d6d24ab197a58721f47f0d2e3b2362d1e7a2f8131caceff8551ac2a21ae780b",
       "f8b92169bea83088a55e975cfdd4f3a7daf2c00667773ecfea370a7cf05f0519",
       "919d4b122c5542590a59eae377002e305f19dd0aae03ec5360078d30fbc5e2ce",
       "098c1d73e88fc5a791abdac379264063b4a39102fd732f7f3cc6a7f2016d9c22",
       "f800fc3fef47d5f41a4e11535d1f1af377c315eb64dfc1583817e4d484b973bd",
       "e0957a78ab0ccea28b1a4635e2d20661e4591d7660f0fc0c1d91ad84360a2dc9",
       "ab3b33c87e25ff50b86551af15f34249739d6643ad100b4fa1e4195d0f33a6bd",
       "7ba7a49079f525120749e504998f2a4af31d336d643c5e483ca6f80a67c94917",
       "c73ef2b76a1a896cd384fa83d3ef9ee9b985fa61be0dbc7ea8b42ae6c7e20e75",
       "42b74c7a3674fd92c482324640c66d2fcbfdcf57e5d755a18dc66e5b04e7e884",
       "e06ec97cca6b5c6120a0d2ebe0b891447453b5a915749f836b3fd7bc41335eb9",
       "d5937203452b346e48097d42a6020a280968a88ed0262d083b6069fe09e277c3",
       "43110cb967f0bccb6bedfe6e1cb4a0570ed5f63621af63211c3ad7ca73ddfb79",
       "465519c22eb9857b4daba6a4a6c8082a94b45289ead975dd5db40dcc8228bbf1",
       "2881a6235e4e4a7c72b4c0a6cda8800a2e5b99b542d1f8ef5a41171196fd31fb",
       "b8aaba71e9bfcbf7389ccd339f8847f505698a33e7fafff3f22b2285514d4052",
       "186561439c78d602041618953dabd97f24f5eba0b3ff49173bc9e26315e994d1",
       "57a4aa30680c0c4dd5cbbd3e17e7d653fc7752d91dd5362b1a2bc8588b3dfd38",
       "76d0e66cddd303a26f3d76629ff52d896bb9cc0a77702dc802a8ba280353a322",
       "cda693b20d7c23ef05318e2d6a391af1a5fe0bd3eb214c541b5485dad05a0e3a",
       "885fbf009f0e4d52fc4645fbf5c5bb0fcd114779e4259151eae4971b02289791",
       "9bcd63671c825d343998083ec742284d8dcc74cc49eb64d16f044fa0c5061711",
       "c105aae046737695d3e872af1a2cfe8678821357d431d7d11d565b683a7bc13e",
       "5c7970e6461d9f1038775335825a9a22ed1fd18d4ba45db1e10f766f3d20d31b",
       "cd3d050a749b016cd5e3d4ab4b9a1aac2633a71f8d6b04484b2ffec05b413ccb",
       "24622ed5934a4edad2cf833b0c27f12aea5675772156bb1bd808fd4ce306037f",
       "3d8af193111508cd338a1ebad646d1fe34bf6bf3a0c26b5c425e9ee54632feda",
       "1ddca2169d08d2f1a9eab28fa3f4b233fd0e26998a9d8d264cb7e0f63b65d7e9",
       "fcfc1278d209b23ab73c3c7f21c25bbb443ce7dc7c0e06535bd1ff6664d67d24",
       "54c1465716200113704d365362edfcc877c49093736bb60b69c797705a7d033a",
       "fcb499bbc75eb429438264a728eade8b294f8f3ccda8c51d058febf66129c824",
       "18c57a540755fae9bf78c55ec6c94c7d797358ad8b062340c4f7a7c3f61f3b6d",
       "9f61ff32da7dcf50c43ad63612a7be6b166633ae168ae328b069bfcef5a22edd",
       "843e18ba63b7bd94fccce673b35aa0188202660efc7285e87d95972367f5da39",
       "86ca7ddec7d7b08c7417153689525a95b5681eaaf89626f196feba2e9a61e87c",
       "30d5b2f107bebc552b55dd984c5e0448f6d8e3294ac7ecba64eb150824e165e9",
       "976595dfd517238ecd6a0c111b6383cbcb4818a71eb827143536efa87a1d6903",
       "da8b6ab64d395b678ad8ea0cb79d796d42067eb4d70d37cac886d43d64b639bf",
       "3f13f7bdb91610cb61ad0f77b476b62e49122c30f2c80709ce0001f952d04c98",
       "ed7a985a0169977c182d43c59a1666d3b4a1d09ef080caccee323c46f900d53b",
       "6d0c4239d5760e77fa6448e30c426cb724e7ae5d3b39685a19cbe77f8a166a37",
       "9880b6523710c8764074f59df2c0b51d79b7ea3b6ffc69e0cd0e0b9e09b0cb9c",
       "ab179a7d959148a0462dcd65bfcab86cf1e950bcac2acd86ca64f7dc9dc3e48c",
       "4d0fc2e8bec0010b714a758e73e54664d446dea83ecbc98447a30c4f89836e39",
       "1e021439a39d394b812cc8ca05cc7ddc92f475dbbeea20ee0a18729876803d01",
       "cc2f057cea391f2018d1d66636d5e359c0803e9eac4aa488ac5d2ee4efaea733",
       "f97da078c3c46e9100e96c45f018f928e34203253f102a8118e02a8c1ed39125",
       "16e971b56d9169b703d0afd1356b1a59eb0c09e39edb1956ab5db6601538b359",
       "2c711ad9b0791c8b8d93a63a98641517466221ccc7c52dbe08d1a7e691b34559",
       "6d3b627dddd0afcf307cf84d04a0f312761b0bd705f132c7fba3f7136637012e",
       "967282e3e7e37e56c46d41dc1aff42812f7dd1a2ec4c5187d69d823b1c915f39",
       "473a4d4cb23be7c30a0939c71644523507727abbe06f40b5ff8ed3684884d1a0",
       "f70603d9bb194349db8a763db148d0b3a5ee78fd69ae8224a4c88b426a5163be",
       "12fb996a21f4968b9017cc810ffd01c01e34b62db1f93aa510b557f61432da1b",
       "189cbcbfccf148444755793ef964d4f42c4fff981f8fa6e3dba57b9eeb2236bf",
       "9f7d1186c0cbbf590ead4ec3d8024d425e09cef2ca05f17853a6b0d0d73c0c9d",
       "f131ac9eab4fb9cf089b2b658b284321abd7032d8e2ebd1bd547a7b4d76cdc20",
       "18e48484d8e51be62331ac8c225ad9cfe114e63d0bda3e5202fe61d734e761a5",
       "ca74ee0156dab97173933fa164431d8244f3b2a7904fb8f8033cf897941e3bdb",
       "bbcad0a1b23be48e3600f7bcd3140a724768fcad76cd9443bc4bb86c7e43311e",
       "22c3407cb756a755aa54d208363eec2a3dab3acb1fa400458c6c16c7c5df6a1d",
       "16e86597b53b1102a004cee0c7c8d50772600b9ac5b3924fa1fea489079d9f31",
       "ac01dd36d1c7c79a621a1b89ba3bb3c0c6d12a8abf04ee123c7d24a377313e50",
       "0a198816ef2f2c64ff4d351b82738bf00292b230cea0fd9274c9def825037195",
       "2867623dcaa95c2eaecdd5aa48620f39fd2504195dbb9b6dbc93719b97146edc",
       "104d47a175e088567ad6a03c519bc6262cb328910c4130f07a723bc17a6722b5",
       "89add569a1486bb76190e4337dad6ac3278000c0da0c7dc815a736a04b8c65a1",
       "bfd51aa9e07b8e41f914b067528a6cd4551d57ce5e97c0d0961f0ca37681411d",
       "55725e5d2ec569125c463bc23e99631b271e6b359c9d50076c1e99f047589918",
       "acb9d0b96bab5bcd633e9bf6bfc7df9beae431e104091baf56739ec7c7fe3529",
       "b6f08c9b2507f46ef5a2913e81d25004fcca56d61d53c0ff756a89945c3385d7",
       "2334755630dae5fc9b84bc70f107aaec4d327542e552db0f045cf61b83f59f18",
       "e30c183f51d52219d5a821d35cf0d4ea4ab76f25a81b21b01aed29e692014134",
       "cdaa989067453ba5d400b1b9b1566fec5ab424c1e189400acb839262f26e8f22",
       "d55ec62bc5b7022f743412ac48b41f5d6156c4bc74d03aa980856b43cd9d00e0",
       "906050595cbd64e83e8c1d12aeffaa5c3a6a61254a0f3f26ffc545e205da657e",
       "78f41b0b7606279df1ffe0d6a72185fbc1a8329ebd46be3d2b86c4ef153b0472",
       "42d6ebc89107951cd80856a66137a5dfaa49ac9203a18802b2dacc16099e1530",
       "738df10a0608e1828fd72d0cd5956a05285691232269793d12a2e52c0cac9c12",
       "1d95043ab225ecd1dc7bb5e8261b0c062377bcbbf9eb2446902b2c515ad83f2d",
       "9b2bf45de8e0b9616101d3976333630449f40e58e5a2ec73bec3379d99111351",
       "9e20d6a6312c4c9dfce5dea55e9a1fdbca0198cd2303c155f8183ad1b3335f38",
       "6af1e265ad2f27573731813ad08ed827c169cd5d8fc0cc0cf3d1b5ce1e74eeb8",
       "856c91d6efe6fc17cdc34ee1fe56b0d4741d58ac331c190dad04c25cd8da2c1c",
       "270c5491d2e60bad613b29d43cbe853952bdeb4a67dda403c22d3da469a86731",
       "1dbc87753819c5819f69d6cb51c620d4e72aba2fc5a777dc79c31c5e88792f7b",
       "f23e12eafd6ff243b0a8dfab53c1cc22a7a7900836b18a47ed9eb8e8f225fdbd",
       "b47d7e137d26953ecc88f5169c56dd8c0ffede4d6dc774291da656449fdb3b94",
       "223f63458cb0a8a690efb21ef37c2964422b1f7fc3f4e59a7cb64e2e4edd98cd",
       "d4b0f5eb6e9a24b1bfd38d547ae208cbc4ea33942e7756bc867deb488819a614",
       "abf68c4367618bd303fee1fb1632524700962b19f5bbd62bee35d99ba2dc80c3",
       "f5de5b9c69d978a07267afca770f073f41b78fdaac53be05067b7df778564ba8",
       "32e5f6bf4eddb8a7700d4cd1120db6159c74d963fb3890976d233920a60fe447",
       "f54fbbd69d1e909cf6fd8d91929e07e71151a77618236eac36305fd658aa7446",
       "0c2a502c8278fb8da23d281f692adbf858844eb79b0ac0415b25ff4a319cd771",
       "4bf8272f0829ffc8c163ba7d2e713193f8b58ee9258fe1c751b2bc557421527d",
       "bfbfad2b437c3d0cfe9ec43180679516a1cac6151ff706428d8ad52b6624e449",
       "77cce33f30d99fd0b1cdd31989c0ffa616635e84ebe1c5c0db53a4cf9727f397",
       "8df68e3dd34b1bb00da149d05618be9c76a73f1e6aaf499287ea25da8e7acce9",
       "51416bdbead84bfa340cb745aa55e6008bbe229e98e2060cef8e29ef5c47c0c6",
       "af766c49a7a07c2aeeb47ffaa4b512364e8c5c36396fcfbb0fd2fea03b3cdf3b",
       "dd1c280f1149b1a0027b3ee6e6e84d0354e54d221a19dcc56ff4e2923fc461b2",
       "156fba3c2b0cfadf61f6a501c46a12a5751779dcca66109be182aab2aba4a285",
       "a2edc95cd8a7dd389933c97fbae28b53dd1c866ddea2c67099d421c436686ec8",
       "7208b4186607ad09922db940e695c3b076ae3aa7df27790b9c41bfcfd70174af",
       "0590bdba1c8fa9801f1c8a79d9adc60f00465d5f0b43aacaf53a64177aa5e1e1",
       "651bde729d1989c3a9f6738cf9b9853f5c94bb4bff6729c1fd9c1d7c27569065",
       "d8e42b68a798276bdea71fa3277c16ca547571ab1e10ac0724edb98f30cb89a3",
       "5c5514102188e118c12ae885144a1c30e6cb2df44f26ea70c26abb43d8b7a191",
       "b208afd4f04a49fc146f6ce2c6ac93b77353cdafffa9f2801fa1e6598fed6fcb",
       "7495b90eaab3c8a75ce1eea3c495aa95012142c75838ced45a6f023f0f878055",
       "2bf7c21f1ff49ac5d80314dd85ec7b84ea56dfebef4271b6dbc562b0ddfe5c88",
       "2db86bd885acfb7ae0ad600c0b1ff0c2a70c36073fb9949a79a4898a368e2f62",
       "75d7580b177ebae5eecb5cd4e7f6be06b49522a2ff7b8c7baab4b400f14119b5",
       "463c9ed5116fbd3e6347e94d03074615b2ebe5f6fab82b119a90bb74833098ff",
       "587d06c2c81e4fba3afc5e53ec4ca12b1e01ca9cc04f14c9a1042f811a9349e5",
       "8c3aef6340bd328faeb3bd50962a1effda4ad6cd1840c90f30a16b0979310fb9",
       "840fec0e050f8b133e3226c9e5d9a39d085cbbe9518e5e9de14f60c9730c63db",
       "395ec06324e3505899c9dfb4bfe001923967e17dcea3bf7bf409a61705a95eb9",
       "3a2f2693c0a6627df02ca0b0d69712c7765f47290576e196613889925043617c",
       "8cb39f0c058a89c86912e347c1939ace65455af66f8ff32cef87e95e0147f199",
       "ae589a40e86980a1c2f92377275f74c7becc5738bdd318ddfba52abf25d9ad33",
       "ab87385c7aef7367035ec38fb66413db63d59dc4c2d044aa46a5f6b5884059de",
       "b8f036ca565c5ae749f52c8c4b7444299a713a2ccc193d6bc4e4e2dc3969800f",
       "ad935bd63b1efe605c3d59fcf21113d8d1eb0386bec6c9af2690341399391d39",
       "d6c8da9af0633ecf214aca6519b5e5199fead0c3c54756712b4e542db59225e5",
       "ffb279868a5965b9e645ab46bcb61320d956da0df92c2c35ebde87e14145af16",
       "78b9088f3abbaea278a4a2d5f034c6e7d02349af5828961d6d53d286005dc89a",
       "a1793cac45fb2cc646ee0c0c6f95a9438882f3cabd7b14e5066b01619ec8cd07",
       "451d5d97023f1bcf4e794964507ed2ba1bd92cf1f896cab77209a0a025b1f003",
       "042b843713a5a9918120503caa1c595025e88306126ffe27d5544f5732d992e0",
       "f18f777370652a0f8f018000068ad8f8fb831e2a87a6522404aa5d318dfba704",
       "c22d4a28c23ad481f2e401473df7069d79538de4044bbf2c59c0308de7fe0f9f",
       "53bfbb30f2d8c03b1c22289e387812aa0e7abc9e592387abcaa9f7f23aa8ae31",
       "f3e8678ff36d0d11ceb13e7723e5adfa9748163d01d399b508af1e4d62acc756",
       "cc403a410ad43dc2c8f1600a06cc1232b74c7d76532ac1441e48f24af087ba78",
       "232ad108188a53647d2fe364787e05bc20d0597c14074176ed99551e186c48bb",
       "23ab8eda76668b6d763512bb68b17f6f33c9b0e1b3deca78776beca5cefb7db1",
       "f8f75496ae74591877e18b2db213c6eb2d80026e8fd4f689077d3654f4e777dc",
       "ce9bb7325bd65e5227e3c41d06d07f52e32f4d2936a0df3e868f3187ec6b83f1",
       "57148c5868bb78e341bb0ed78d6707ad5edeadf8d1137c06705f4718f1cb3e4a",
       "f2c7474a8b48a19d65b6ce27bbddb20ff787e69b0a07619f2e60b2c3be84a4b8",
       "2da28837fc9cc4b30207a9ecdd6ab0cfeeb0ce8b578030d324116f7f3350ece4",
       "6ce94780a702101ca0a68f8f316c65738d8dac6d3cde2edbc046cdd55c115471",
       "02c7fb990175314775e8fedc973c1b93723c1c1fc2f1989fa80bc9469d0af983",
       "93abe2119cf3a2a99c32716681aee83ec5727b4b9b64c5140c2a38b7b11a8604",
       "e34a1c4a8b64c98b4970b5f3d5004bd839f5afe263dcce5288697e9bcc9e70f4",
       "31e1c8634a246f90b79992feb6a89399eed18d1a617d37782319b8c5be0724ff",
       "d8ce754869cd2b38e84c7f5350649f79a136661de38650c1904d91494b4f4022",
       "4f485d800cac0fb4d729646de8528003b4597fad04f4b156049f04ee7185ab5e",
       "63eeb090f376d0f18cc85d68ecd751f919db1b63521644be96f363f3736b5457",
       "f21d17327b09a7d769a53a2b3a9b2da43864b5d0fb8c2f3b5d0edd4f9a9c67bd",
       "e6d0a60eed031d1d44e6c28992c406fa0c5e545ca4e25c576ae998dd2ea31e3c",
       "6e0b9ad3cf111a028e780c384df80cceabc3331d63507225e4f7815b11a540aa",
       "98fc96784a8480c040963b23eb55339195add441b6a1bd17b6d833d8c87747bf",
       "30f4b2a7e7f498adfaccd93c90092901bcdf8351ae11474cd234f74adf10c5bb",
       "a99c60d17e6286f673d08c942079002176814f1e9a8d898dd864e43d9c533c54",
       "7ace55385891ce3511bf3708e84c17ae1ad0ee3dc345d1c758f46e565f393898",
       "6d2448a59861f8eab9bd9d6b6973c99e526e6c0313853e3d31606b71be31c1c9",
       "d457683d6f0b3d73eb55f1b9eafdfa24bcaf36346d407dcdf5bfc0215d3cfe8a",
       "3454adf8d84ad3a85d24b2a4be541cd77822502ed35d088bd276667dc61fe789",
       "d104d0731f6d01e26c9a464a7cfca140e3b7b2b5f88df66aac5c119127f96121",
       "999530c02c2a63c7974a3c1456ef15abace5e623ffc2fdd5a0a5f428852403e1",
       "dffeeda2eb819222bd5a575458584dc217a8d0d96833888f19cac44def4524df",
       "01af0cf38702d28e2d2b95526a18b6d48d0d8cb437f1212702fd0b36ad4ffd7e",
       "2382b64976a22697a236d32f5dd5d62b9ba18989c605d6aaa0f5c69db8c07c54",
       "ac45cbb2b4db9f0f1acb266015bdae941123998f7cee645d3e805c3c68f37422",
       "f6fec353f10db4570209047d580c79ffe5f5753d3a1340a61261ecaaaee792d7",
       "3ba4e4d53edc92bac89d09e8d35984f91bfbc0a17cc079bca7420197af04a655",
       "b151b6a5a058112bb6e01e8ea9e3d60baad1c23b94a9eed93e318382de4f38b2",
       "1149bfc1705e1503cdc6f835842394e559d38df9b847189a73ef371685765d48",
       "d8b553f250fd09fe6909f1b39d9bcc113322c83361f1b84912cea8b4849d6476",
       "7a275211b8cc007a3299cbaac487d1e1f1943aa22dfa88a4cf524bb6155b1f83",
       "71f67d8512022e150ab4183729fc0f496db97d8be27d8b2b9dee6944f08ec672",
       "3124036c9ca657e1c3d06e19af7b660718cf865e4ac51b876469d1cd182841ca",
       "779b7d444c865a1f8142b07060b6e0a5b8f66888ec2247fb492737d8edc0cbc9",
       "e08f3eaffbec4f90f71b91f5bbe3f1ead18750f0964c7c6d74ed3ac6050553fd",
       "0da0a364507a84161590c003dc37d6ac5d39067e390b34a050109708c2936671",
       "45d7d2687e2eb3bb2614fc0d91a210c4b83b2049a2f79c6a9706125903c5daa3",
       "7da1faa9c6675cc490703ec6e90f69b635cec5dc33eb6a3afdac915e827be636",
       "fc68d049247250019cb36abd3c08fe6b1da3cd5e5ff8240a4a2d2c6c3b208b4f",
       "1d5d76cdeabf5cbea172d42a7db744a04cff045f6211feb8bffeecb6707e2541",
       "f0d98279fb7b5025f2db669dd5bf4f547f63c105ad3f0a0c27bc01def7f60b6f" >>

StdRng2 ==
    <<
       "c390a95e42dbf4ff10ae06c061720dd6c91a10d0ea283d59185787a429076ced",
       "d58a6ed3c80371bad4fae342235452da430d63358bc111bcf7377c79763fd0dd",
       "e93197cae82a55a2aedcad924c01c9bb86d8a748cb27d3cdf3d4841a0c3135bb",
       "5e4d4bc3b154ab0b4723aefe4c783bfca0e4a5120133dc1c9f6b06fd5d0f52b4",
       "df732af864a68afecf842c3a031339b27bf97cfcbaeb81bf2d49f82ecf00e940",
       "77b4c24a5f3ee5677c19c364f5aa3abd180b22688d2aeafb7cb54abf75791ed1",
       "fce1c6823862937e39a668c302b0d401f36f77a46521797198a89cfb7670e572",
       "700eb8b407faced9a6b9b5dbf080dd3368eab17887025902fd1e7e8afcf455b9",
       "2ca56db1d4a5e58f42ba38e9d2e486fff7dfb4b6f3e1505d0576272aa0e46cc1",
       "32283e9d09fa333691daa260db37e82cd8c94f835ee42670d81f7ba35f3b004b",
       "9b577d10073650d0e63beb5465a8d5473998b1e8e5a745768b175c497eeb95b6",
       "2f77b2f9bb3cff4631b44104e6a10f6b2415f7b7b0a3e0291a422c258ffeda88",
       "7aa0e8352bce3f3a2abb0dc66b30d27640cd532f6bc5ff6d4e95d23f8502b532",
       "87a559f1649f8949ff021cf7cf2ceb63e23e0db6e68a1158e4d1312e4d06b8e3",
       "c0a1ecbdbb5629802fd178c67fb6d89f540b16a3fa95635540a9753eb57566da",
       "1ed3e6a8bb8a1eb79084beea4ecec56556749f33f35f4a78e38c816562945502",
       "9e4344470596b9623b043df2eecb2215ae2b4ac407c830ebe06da5a24df38319",
       "c17b1a6a751a6f8b7ca7b543761fdafcab7742d49a01aaadf3557c921a638ffc",
       "6a7162223cb98a3501cb787941e2f76bab7892116b5f71d3ce8392dfc03d11db",
       "88ce067c0542047bc0193364ab05ecf21242dce98e06925f9d0cdf7dacfa1497",
       "fe5eda304c26ea10e1917423e8960fade8f1661c34a416bca3e98da6b7e14331",
       "07be0429358e7c46b22ccb22ae9efadc4b56c76f961f62a4bff696427b4a9ff8",
       "7922bef4cc8661cfe592a1da09a8c2a858c5f7cca33cac8fabfe863aa330256a",
       "619f1e6041fd878d28d5ab25a5e9a217e420f6e0c7730c66c1dc3302ab9eafb8",
       "6ada22b991a03e3495b289c7d10dcaf4fc9eb15fc16dd2bdff508da0f28f53c5",
       "147ea4c8aead2a85eb87001988492b64e3f9eeadff900762c6d10be1e957b57c",
       "e12177aab9871221dee21de77e296778d829cb4fc6a169ccd89fb9ee83537b9d",
       "493ac720fa83d47e99b9512420081c25442c94331e661b621f887295ab2a7ef0",
       "8ee4c23a1b12749bee090208fa56770f1ef0da92f2fe368dc4fe823a67d16880",
       "7f0fede1eb6fa6a34c82a3879e0f75b72bb916a9b57a22fad0eded97d9256e24",
       "c68afa3e2dada8f65054d19ac1e5fe9b257453a45bc8da6a0bc9ffddc14f2e1a",
       "9cc10deb49a0b9f23ad43ecb173ef35cd68f7c18e43f348c034f18af487af058",
       "2f711912bdb2567209d56caf2caa6e6c0441958f84de1a27ff405d313d4ace36",
       "38320f6b307282015c2d79f8d75ce82387a11aa58636db572810c1de1abe4bb6",
       "cd65be357abf8b2efd7b6fba06aa92d17128460dd42ab0bdec5c598640953d9e",
       "94673c128bd9db9b4d6fecbb274760d281b9f515ac0a4cae0cc9ac3286452cd5",
       "e44419beb3840dd144aaa9cb6445764b7a041be848a803c99670dc7801103e19",
       "db62eadc5ab95c2024e7031b2131665ae8a800f5dd942a06cf712b9685a6d253",
       "1f31793338de593dcc9f649e1fff2fa32c65c36fc0988466750338b026e2852a",
       "58cd9203acf43c95e78ab60c9c2a5e12a6d7fcef74bcf4b29433c7524bdd331b",
       "f4b62d3a0b7e1eb10ab1d538cf559b12d1cfd41f0fe7cf4d829c543253fb716f",
       "1bdc6868aa7b5cae66052a71c2b011649265e17129406e2e2b41320d82b7eecf",
       "905c7afa353539d9b9918492808cffd9d910da46eceae8953d058e46f2484fe5",
       "89ee473cbcffedab01c1ac2c46a8f68c42ff1bc9abd6af1f97647f9bc4237822",
       "ae3e37bb3e5b0fb6ec87f1bb2687c0ccb0ba5be4e6d968ee14c9b58fa0e4bb2e",
       "545c2041fbfdb98474d28b48cbcff16fd1264e61143e73c3e2097c4da0e447d4",
       "c83f9797ee62aae6d90ddac824b01c33ba899346fbc9c612d2353c9ca3e8c881",
       "46475711d0fbe0e118618a88c57a6490837a304e3a9b6f90e2ca7f58dc880f7b",
       "950f340ef25f3fa3a33c351e3d7eb26d862b5e890daffd2a074c3d50260bf6b8",
       "fb51f08c6680ba0e2e80e01e45e5b65e48a6978c89cee3089a75a35d646dea57",
       "56e7f59819a61a656bdbaef738005b7b2556c1bd3755c7034bbb0991e622f453",
       "f2619b8a4aacbceb51b1bfd594e8d4e76364de939efbb1cd99206a42e0336df4",
       "0acd9a9f6c583ebe1408e924c87c46ebe4f0af5a2269e24d81e2c4a43aec7291",
       "dee2faec5f97a23aa398143132399feefa52dc5a27cb6dc059cbb4d1f52037d3",
       "d57cd45e9e8f9728c684dc5947a3aec436967b1a8b904daa866b7ff490bcf610",
       "9fc7d1a41eb201c3a7a65188a495231426720bc4a2ee7a5cdb01dd788633f2da",
       "cad35af755c5ad8dfec78c9a8ba484352414aad46e21471aba3faa233f077414",
       "07777c31ced35d31430487ef803b099f613fab65d9393b01dddcc935edd1d45c",
       "1f46ffcae0cf65077ab4d91ac7079ab52c55402137bdbe2c64c6416e0dee9b2f",
       "a033c5ce4c4ebaf852e037585f9086858cb43deaec6664b4f566d74c2d57e33b",
       "a487cb3e496fa051181bdfcb3b34d351131372a1220c3f960a22954c9b51636e",
       "1dfffdee07c4168841dd42787498ff8c9a3deac95de8ce5c25c0d396deee9b0e",
       "b6cb6429d1fdee26cd03a8def9a4f2ed3fc9796c97050152f3496d0dea60136a",
       "20a0e9585d3c616f1189f05902f50b144cd9137da4c8c02691e02c28a88f83ec",
       "e3db3bec0583d93c81bb15918a061555c62f1981df6d03d408cfe8ab7f4ce9fc",
       "89e9c58b387f81449968719b411428c41e14f810bc64c8c045cc9560c9243d03",
       "013bbd609e49118a4336946156843eba6408d43f17f3258e2ec14112d5cd7aa8",
       "54ab4eeb07271405743d1d875191ab5f99be7e58a7464cdb281b31f3f6f033cd",
       "09846aefc21535282f4bca11c2ae5e75b94f6cbad44bb34f5708fd8350398f05",
       "39e392c1cd37fa3aa0607725fba151e2057d449fe55cb92a14a22eeaf7df32f6",
       "5fe4d2e5a1d8813a4315c8b9db41608fda59d40724e529dcb58277da14bd4c60",
       "ce65e9d450bd1a6b720cc97e226a395c321166fb34167deaedc29f61202bad7c",
       "0b4071247505e0a9af7ce46f6763ee7f429d848ae10a3bdf6243a903483b8dc7",
       "17239a474441d689a7e6814ae65b9b2b1b6a36f197e2e45597fb5748347f68bb",
       "bb2ec4ebb5269e026e358fe816726860d910a76ebec7c4341eb9ffb638a312d0",
       "fa493d2b5db60037825c9abef737bd5b950a001bbebd37fb0e64ebf689d6d7e7",
       "24d0416833ca54da2562a8593cf34199cb6277e89abd4016fcf81fa380f6c60a",
       "c09c6f4bd8c6563d014e3fabe9d59847dd70ea5b2ea3197d4b1fe4dd622c7fd9",
       "d3b1b92d39237a032291897ccaf6da9ee7d8b6f6a501064426caa6718edaf026",
       "3f4b7175541b390dbc5db8154ea6770b0f251ce80ce71137a3cf00318f6b8c4e",
       "2a083d42461347f2bd3a70e79f00f3c0f2e30100338d3f87ca9f473e2d1b8dec",
       "812d5f47ae9c1ebf4a59ed89271912e64cb42fc070543a40951445aa69f70cc5",
       "1265eee405604562c85ae171f22c3b3c1966830328d12769eaddd6d9a615bde7",
       "491d1899b9b793683f50c2b368d5c35eeccb10bb5244046d7cbccfebd6e83b11",
       "178df153d0eae93adfa3c95ce2f2002b7efc99164d37db20c14e41d407a8fb12",
       "68296d7d74b8c62e752c78d308ca4ad92ff72820bbed89888eb39d524195bbcf",
       "46cad925fc8e8416c2abd57a8caa2d6444e5ccf2ea0cb5437257bf7329bfe734",
       "b497cd7467ab0a6c8e298cc7c23eb9392e04ae3c7f568808e726a91eb7e2d0aa",
       "fc6b5bcf22d4098f887cfe1466327176ed80d671471d5d1642aebaed25b37ddc",
       "40849cbc8994f64d2b8379794dae21c939197dab81bb0488ccda7a3ea9266515",
       "f5171872bec3cbebd4dc6c860fd3d5aed416c64bb856a6ac1b3f012dcaf3d25a",
       "9c0654a75c40ea8e1d03e57cfdca5bbcb5b707a3286e233b4f165e1dd586f713",
       "4bf840d78dceb7308a67b2928d043e07dcad02d8e82c2147ad41391a049f0e32",
       "ae9f769c6c671a9433e11c1fbe13dfb46de3031f50ee877fbea167d37a96e891",
       "8affd737d07b2997e2e61c67ff758ee0bec2ee0caa33298b87e65173082ad16d",
       "62cff8bf36b466834335c96ac06fcafaa936ed23b25ac48419d029dc2fa8d679",
       "887c39188ee5c65bb3007ae9159a325299bdb6479020128723e4716cd37e085b",
       "b70f216c4a6bd72cf110218fcd9c2f5014d591343316444d6cada31c04ba48a5",
       "135be3b69246cdd7c2c3010ce78e43ce51ba02892bf99a5475f823f43ec11d9f",
       "734c64157b190682e1edb6203b685646ef1654e1dacbfaddf5d138b9cbc6956b",
       "2e945d9caa8c5dd2d13bc4cad92520da4abdacb4fbcca439229c911a4553db29",
       "c7ecfa0aafe9cb80a679782202a2e51f9c3e6432f74a2049cae5befe34546369",
       "1679d417f876d82865e8686b7b41163e89b2239564a43edd9bc81a8be46158cd",
       "97841b3e4c9f78aaf333e97b2aa62ee66a58ba19d5a027077beef5e3f00ece4c",
       "998863e487a8234e943cc4159b5c2e7a81c06123be21814cfa803a326b4c3c7a",
       "4ca51f78102002014266ae53a756dd306f6f71953479287e9b84da80bf395e58",
       "b7b373b8bfebfab422d32150ac487a8d7387aaf3b9aaa80f33e327f03959f7e6",
       "5b5ce98c695142f5e594dd2a570ef4698970372dd3d0853cf4379c61a06a74e1",
       "29ec30cf4ecbc86b01bd58a5acf3df29fadba5acf082e5f4f7d1ae0f5d9d29f6",
       "e7f3272b5e0ed70fee73656af7becc314a2d95e2b8ea13396cc578ab16f0197c",
       "189c2aaa037e94e921141a723ffc5ee3a5af79fb4548baf5da0b2b6cc2b2c904",
       "e40674a54fa2b637d30316b598db0155fca4d5648a18d340722544e833ae89d1",
       "f276c5d7e3eaeb2d446cb138315f82e379efdad238897bf3345096fcf19395f5",
       "e0f341fa770df09d1187b202008b92b6de4d32cc3ab67a675f094185f0b83339",
       "02eb5d6695b081292aa1f8bbc103d4a3b2f2c4d02066d3b6b4dedf88925ccee1",
       "513016f118c70427b4366011936c41b986a6ca552bd3a298ee80970aeba46d9e",
       "039e0816086a11b332d236e6bdb904c7cfa912e3ea480154e64060f0ddb336b3",
       "3cc313ae3f5f79293c912574ca0927c40031f50a936783200cb08e95f35ad368",
       "72f663269f0ee7a5fe82b168141feb5b7da572cde380bdda519c5022e8f7c45d",
       "d0af53ec0fbc152656339b156d5440af0162fa705f0f159452ae74d6752e3f5b",
       "9f9c762c0de8123759d9f9c8684eebd840ebd336a2f608f7e4ec451ec1b9d6f4",
       "1795bdcfa2dec7a0c6b95cb005fae957da493c58a203f0f765451c8f9fc93e17",
       "d2611dadd54ae17827c628ce9ca7b6686511adfdd8c20bb77ed82ab10288dae9",
       "a23c731d5cdd8bdb6a58a54928b7eb64cad95b0efae1975ac54b55a04f5fb597",
       "9a40659ecd5f8e7075acec13fa3280536b92a09e35d94a8b3dd151a508aa78b2",
       "7694982f3543ff21eedd70d24e76a99b14b5452e22795cebe6731c1a2ccdbadf",
       "4b175dd359b35e7c5466171849187261522bbab48f325740139d4f71c1206861",
       "19fac27e143f5528855f052801e0d41d449412949129d3271cf90395f004218e",
       "b72e573d951740c65006cb7cfd6dcfd46a291d8bd2bb21fc898b3c7ab778805b",
       "3c1f4bf50c1a1c104dcb735c62d140b1a870b71825a8ffe16044379e550facd2",
       "db06ebe8bca4dbf90898fe926417bb8e1fe802b00d820176233b5cd26a0c8800",
       "952bd66a60e536d22a9dde824c094d0b2a1a2d2c5481f5e611a6549bf1e186eb",
       "db75de1d5a37fd8aaa0f13c251c94745959b78278d5e4453d372dbdab612ca4b",
       "6b9c09b80436fc51d98f559bda76f18f7bbf18e660656d0ca612cb2cdea632bd",
       "f2777f6e469fe107e9e6ba2d93481fe8ad04b1d58b0cd0b6f677fc18b3996acd",
       "75ba6722bdfc721d0f20a33fefdc6fd4c2911e5988bbd2c39014b3ef074acd1a",
       "80b7fd6f913d7c3cfc2bcb6bd9635e1e75c6e17f0a68d1f58b67268a0a6961fc",
       "d6d2d31da3d8ea10d7f4dc9037e2857e75ca360a4584aedea8bd8f7055dff7dc",
       "20df8480f44d2b2c38af073747b18cd2cec222bd3d974c13b5df24cf8e227c16",
       "cd890ddf618eac937940225d06923ed81f00311c841b0d6839c72226d8e1f138",
       "2cd1eb5e3e5b8a6a7a156a761debde2e15712a73844ade1382f60d9d3eea9ec3",
       "97eb7aac6ba0864bfe91114c3426416ddf555bb4a7f1e8ccb02247747a29781f",
       "5053201b1761f4e97c2c165072e72b1744263f8ed780bcbcf2c0bc0baba23860",
       "c02c17b971ca22baf7ea1720cd10ce05d2e0db80fc189a99f2bec6d34dac432e",
       "b783a02b616f1ccb7791053fa1bf9e8884729b0bd16648e860f89c6de2332a2b",
       "8c08bb4cae663e3161d688e240f535f9e65c91a39597120fd77a1a58c6d4000f",
       "162fa68f10ca4ab879cfdb85ec4a24262ac67a3615b40a9134b92782d9143f07",
       "44071bcc6397561bd991da060bb5113a90a3bb9539b5a16970e4620f507f6106",
       "ec86ba911b619396945d1f49d7243d5ca14c77b2280b40fa19e670860c4e6929",
       "8605b83ffaf41fb51b49a5f17d41c603d9e163f0434ee11c0f8e534a81563311",
       "4d078ccf740678531170c79e0e3ba9c6c12f0a4d2b8f1c7e3c10fd4c3130d2b8",
       "73a289c7918f74d6b81c6f57b842ea93ac4de9ba52fcf3fade98bd49058388b5",
       "d759949a4db13478e9a50bce45e259a8cea3b0edc3a2ec2ae2afbbec7413e832",
       "a9bad5241cfa065608465543af24f3fb21f946eb90da95a529efd0409c20a47e",
       "cbd5203eee68d2dd31ed65aa7de651f712d7c34b43f453afe1cbd9f630f9408d",
       "04efd5ba3d813c8b8902aada28c8a07f8be5535476bbc8600aa022818fd97ea5",
       "7d4b1c2627cb71e669ef10c5502eb1552f026248565455e65249f28c855a676d",
       "7585fae80706cf0610d5325e68f1ce9bcba8010ab73c26c34bafc75eb2e6a87d",
       "77122c702b2ee63162821fbf393e8e5cd0e6c46216acae8c6d8854619f6e551a",
       "6e9b496738c11b40db5b17f35f69c522295130614d95ea39bc23ea1d1d91197f",
       "1a104aede3870c553a958eb3e195ce541200fadcd4343510e9d7748ad01d8051",
       "02d0f6b04846c6c5005e41b1fc766bd0fbd519bdffcb959ea9ae8655da879b72",
       "e4dc274927e86389110b4eb1ba325a1810fefac0914444a7529b2bac3ebcd1da",
       "73e7e0a0d658ed7b8fcfadcf5cb634b5e493170bafcc35763a1555860b0bdaa8",
       "d7c49d870cdf7c7971ced63cec2fb77497de2b5d7045b544ab059c13ca0fd1a1",
       "3c969e26bf532b7c99b1c62a0bf2588d332234235d1468a0e3d53c6c6216b5a9",
       "670162183ddbf172bb060a3afe80eb86ce3b171d50fe95cf5cc5d059d661ef65",
       "86f6946abe36312af4cad22eefcc13d3f05ed13f84d2f581c2ff5295ed11e053",
       "8046aca9f92bf24cdfea5a53937258b8ea7a8f3b159ec91ef2b79d95f7605622",
       "5327f57f27494b7ead32e47b1fb08e6f5ee5ee547dfcba5c95914ce0c0a283e0",
       "0c3738082f946368918ba72c2088172dc233f27147cdfafa33c5d6a6573f224c",
       "469f86e5126cb3f93044737c1de2772b186d8e989df63b63c9740fb1d0622f52",
       "7e7163b205c03e1ecc7753217312ee236ceb3b9bf24b4dac72f3fe8eff150a03",
       "484ef8af62b9354d1d486982c3837eebbd2badd22487c7fc35d3e95ddd8b077e",
       "1b31abf3179b72536ddf2f12245b960915fdb35e4eb9aa6017e615a951bc4bf7",
       "69b00f6d13644876fa0c16ab57d752ff3a665e324d2afa831450ea3cfc06b979",
       "aa02b331d843cd8bc511de9e73a11d91f41b14b95c2d84a15523755ce0f876f0",
       "30a5448d1d8819ac068c27877dd2336788221c42678ecece2cf017e18fedfdb6",
       "dfdf95b2ebe53e021a0b43d5f285be5d9e31761663c3d75b29d080849bb2b111",
       "c5494e220984615e86e4c662ce619868312ff4ae1c4424e0e7b586844106d6a9",
       "54b70e0d0ed6b4541e7669efd16affcacb13b1b2ec7ed9f94ced64a7d3e62929",
       "07a97897f27bb88095f741fb9063f3ce43941d2949928ec45cad966578d969a9",
       "764edd5c10b7f3dde33bfdbc01894f829afc1dc541281254567d17c35bb64f1d",
       "be987edf01d69f5d954fe880a0e551a96afc3c23101025955621380e7dbfba17",
       "e4e95f618b06d470fad1a284a4c68823d87b2507cf39d1b2070f12920aec6739",
       "fdf71dca9f911d745d8d3aeccb5af57453aa9ca50643d84d6e5d574f5e00f540",
       "2accac7eb099a9a02e50d344cabae21a6265f666fe2ea5a2bcbe75ea6f326ab0",
       "5d60b5f2380466f5d6b38aac03836780286d9e9aba56d2bbec03d02e662b0c3a",
       "0de53160cc67f119e605e11ceb475270de61697ae099aed9d5a8354c54688975",
       "ab017a4d09f8ee4e22b1dde2ef820cc91d29e7285c701cfb2cc520e1839f5bdb",
       "1385a805575e17fba52a7704580f86eccb0be21372fbfc8a144cad683a7adb41",
       "115ab8ae1c29d6c6175942d0cc615bca45f8b46980434698e1fc6deeb300bea6",
       "82d187d27483d5427b2ed466f112084c76983d6c800ef855f5e2f70ad5991477",
       "2bbcec3b8651667ace9621b275f1c07a1fdf352c65f65bb183ec97642c54822e",
       "79ae694c458edc79d4a0f15366247751973c4ef300b2e312c62791935fcb73ad",
       "d2a500cb79e6a74de33eff86b285fe662b5bb6c71d2a37e138a6f8e03402acdb",
       "df6aad3bb4f94e8c5281739197c9b6bc328fdb7c9ae1aa01f84436d860f5d560",
       "3fbf296e1c1eae04c1f32a46f291b0134f523d78cd9f5f42ba63832da620e800",
       "27200bebd86ec55f31190144621df0268ad965b5945853a85d47d5a3ab900791",
       "76a02f3472e3d2bf7d562d7e5cb7bbcba5d016a4efa0b18faf6348c2fefa753b",
       "d1fa9ed48e8717b15ee640b110b98322199ab3873dc5797a8aeb30cf98bd7f2a",
       "3994622d748e733d4a389de0411785e1c2236a8f04767131d27f6794e29cdbe5",
       "d62c203db3e14370c489a0e7b655976cda4eebee88dbc66fded1c8ab8728c439",
       "4ae8a248645f85988db28ad245995dcbdea150080316121b351ee63de2a74e96",
       "954e5cb7ac861062fd1a580485c6cc53cdc7b32480f6551832e793677edf9b8b",
       "04406a0f441142dcc7890b0973bf89828b97d4f2a58f9a2ab41c4bde70b2d295",
       "33f03552691007c27cf107527fe715d42c83b0546be3edaf1e2fd101fa551540",
       "55695da9ca846d156816be54356c47e311ce54e974f09df8766b5fa304d2ba65",
       "ecdea46fd1543b73860800748164115551dac8cee8d4521b227e24dca6d06362",
       "578fb98e4c44b4f8514193711f9c720598a201f40c48b34d249ead80bf58703c",
       "dab5c42d0ad0ff86ea537b16af5f7a5004ab4e1d853cf4b8163800b74bf075ea",
       "977ffbd4b735a1618ac376958b176f10bf0c6062f177520a6326e786659139da",
       "dc0c3ebc4b4bf61211e41cac5f7e22e9c5986b36eef66f46590681ef36608c84",
       "bf2c0051f3686a2cc4c9f0651de3d6f4a94dcac56dc55f529d93394c6be04eb5",
       "712e20922a4f07737ddca6abf04554991735347e02dcf50d08ab23d394685c33",
       "c37d94c50e2047520161550cbb63f719d98658a43bc572bbc6d1173b11813650",
       "2851740d8e13553e53bd990b795f2cfb8f2063b23e5b3b751d05e0b986fa0c93",
       "e35606b01ea6e98c7ec6f5bc96677026db99afbd4a1a404907caba0cd01fcb54",
       "7368dfd77011eca91bd72f0d663e16e44823bbdb035b5d1a71b37c46e5e53f6b",
       "99e4a1a3d2585dce402969e651d4bdc050da21f93ad0ea59f642e8a773a1c3e9",
       "a13639d3f517894b99ca398f025234063a31b61760a5e158a275083282b6b592",
       "4d8526f1e9a107e98710ef83ccdd545c85362a50fbdfcf6a89b9f3b68d181cd4",
       "2197831e89e7e1720100fe296e62a1b24db7200315e31f31b7dd8ee652f1c0e5",
       "4602faa8f711103aacd27f70f079d94e108ed3604b29d7f77b73d026b2eab255",
       "c64f22731e0c90debc8f13b67c969a9f10aceb6d4e041e26def6f1c218edcd56",
       "4715ce8e72fb94660c688406023dd2f8a565d05540799d1c5cd94c5903cafe0a",
       "e85d255f22570fe88e7d1e8a61d6141276f974f9980bc9986a455de4bb106c38",
       "f1c4638ecc4136ef029c4f649bb2e67f8d0a284c6b089e0b9396a023078492c4",
       "82830012d3ef892ad31d960e5c59ef04334caea2c4d7559e1298f6b3aad2bdd2",
       "e7595bb7086bd0e0650326c93827d95a8639be5f002f8b26079b6b03c34c3c57",
       "6e173d7f055b4d35e4863afb9b765ebdf6c390c448e1c7f5ef87f5f468863947",
       "d8525cf330043c219aa34577b1a97da3fdb72c93aa50dd70359b0c050405ac64",
       "c39f6dd227482236da2a05bdb51cce865f58dd8e27b4619a61f96e8476c4ce16",
       "99e167f4a575732b9ab9c200817df00101b56d1d9ce3ab5de4789d9725603314",
       "352039e11fa8a04a72d50cc0da3a36e7180c84e00b9fa505bbd989cc5c7e6f42",
       "28a0d6fc642eb55679337705da5ab228680d2056c47b377ce1e6540ae90ae485",
       "40d65041b2219541027b838403ef00fe05d9e4cc762864ee79ccc6f4d09aef83",
       "99a36ac5e2788a9a9e56ad6e5e225abe2fc4395d6780ed582f732719c3f0a834",
       "c1c88a8da18d0a4bd09254c1ccf1b0cc7c98bd85cd29e34b34d4ddd73bbd489e",
       "4779592ebacf7cbace8a5a9fe0d590b695377081a50dab549e8cc4fc810bd840",
       "0658ca407a12db1a32252c93e9703f6dacaf3317340122f4d6c3150cb7590e94",
       "769a70f3652115af020b3dfadce040efe6f5bb10c593d64e30bbb50c915a1f9a",
       "d2f5247812a3d9f1d74fd064331a528cb242e156b0abaa56184278a53f899a95",
       "5968e21af79db8389a4ebcad81431d6c91302b8bc85ba68aaaf3e6d67d5e0e09",
       "62011335c801c26b74f60f855c3095e64eceef8024250054f1e7656625802fa6",
       "a1f10f5f79fff8b4c1540571f53a6804fc40b9ca599a8b55d5f494d6a62cd0b4",
       "5c38daeec0c20099219f0df34ef7b89b56db1f1948c4996ddcb0e968957bb3e4",
       "b49aca882bce861a5843ee58de5bdd9c7a95bcb95055658c1cfe21d0f6559e05",
       "f3230d28517001227d61bcd2068661fbeddc55a4d157e628a5647fede01cdff4",
       "5d078cb15877c5bd93ff73e0b93f8da58b2b07eba2d7bd7c9ad5f00f7a981840",
       "16bfe89a0b85760fe117b34cf00411e921438ae822dc65c3b890806a727831fc",
       "1c7038e9871012f87a65d4e78536e133bd78b00acb0cc41de6fb0d7fa778d46f",
       "4999bf9918ad1aa7717a8cf3910823324e9854bbe1518143ef1aedd6126acca8",
       "bdda585b7adf76bb748a38d058659b9b012088fd64c082b4025ef2dfbe6b84b8",
       "e48a05265a8a0ec4818b0179e07ac8e5644d0ed9e152acd8f553219479e1c629",
       "fadbaf98455de1196756b12d15e9cdab91f21e5b9438c33e314ac4a00e6fda68",
       "21ad1f2cef55363ec4e0c5cda1fb25544389db5c4e12929cf52540dadd4c4157",
       "c9eb3ecf63123b2206b964661fe3577742029c98f9010c134a53853e3e4c674e",
       "92508b2b96ffd83949982f109ca95d809dddce40b23ecacf504a5782d46fcef6",
       "331812cac145d9f4413635d2cccbf12442583284b79353e8259750ded101628f",
       "c76ac949b323bfe2bdae31e0aff1a12e7f3e000b45069cbfeb803f4efacee755",
       "d8604705d403dad5499d8762b22b77e47a0b62e24bdfa57fe7cba690770c11e7",
       "3fc38d31f39972777299c885c09eb84de28145fd7c0f06efcb0c710aa129ccda",
       "1fca437a149bf6bbc016e28c7ec838e0a73e57c9f8ff174fecad82fc443cf624",
       "a9007592bf76ef6695b951ca6a6c287f21c04a1703cf7fe2877eee33c362a529",
       "d4e9a26e777c6dc62c2255db38f5659bacf2d7515c47e92af29634a06294f555",
       "d0354fbde3c967f35d932aee22e0c50c9715936f214774ea7c7ef4719308d553",
       "83db20f774834fd354672c51bc37a2c72e43ab83abc4d4abc7eec1c9c93d8b84",
       "946c34d529b1a8db3219dfeded17e3b50abc4bef28e6a770f1763b7814d60428",
       "5b22569afa3932eba49e16d7439a383f272f9e2a957bdda7bcbf0321d8f7974c",
       "e439de3d0eb601219c259eaaad2279d181d0dd2bbdffb2dcf8cadf5d6f7470bc",
       "e78235f92fd0430a5274129a10b4769ff8ea583fce525726c26ae40ed138f977",
       "6356d498c4a46867065f5933359e31bf41048ff8a2c45c7da95a55a87a45553d",
       "e01748b3f766c174e61bef5ecbceee42e121006844fe5d3ce8a62d5b2352db0e",
       "2d0723106044542f4fde9a972ddc832962752a146d658f7f2aa666d1e72d91da",
       "a87237074cb342de6f89337d0ec9971827cc6691d3deb64628f660a93ac89799",
       "4ef46cd5204d37e8581fd181f62ee30bc5c45cc5a2acb5edb9aa5ccb3ff8a0ba",
       "9496480e41cc9eb8c2c1fa6a4f3671f2a1bbbefd3d4d28f201835a5559c65815",
       "0dc478bcb7a50d96fc42a646df8a440ffe87b53e06c4e7c26655845ddce09c59",
       "f60c510d371126e6dc4a9b8b51805059eef195233ddae985f04c897ec9b8eedb",
       "995e3d96a03ac5e62a9c64a1a2e838ebb2fe88b7179f3b0d9ba1d83fe8051ee0",
       "4826807666348615367e997bb889ebb66055fd3440d981641705243d84977cb6",
       "df1243c93103b107bcad26d1be34bf5e70f60a8b89a7461cfda91b58e9486152",
       "30776026266514f652c34cc6f7842890faf47150ff5db16cf5a5e984dc348784",
       "55e2ecad7908fdb7dfb818c904085205f8519638e397b734b72079b9b7edc539",
       "0c2ca6af00eeb8d23574b551c693088cfa4a41d74632bf07a03cf8cde5a40ec1",
       "2e8360592c709639c8edd816c339fadb8c29884713dfa862c3dbd77dae3ef71f",
       "b4af56c47ed21e8f52d4b11be9ca6199d8a5014d32c1d6f30068000b6045c357",
       "afd307bc5840c51fcacd7b4fee2c7ad16c45879305e1e7a5ac95f4ff4d1a83d5",
       "df23c8a77f2a87b562e91f0c3ac2f73f5bf08bfaafec7d49e0db1264ea27069e",
       "faeefca16bd35df30d464c6469f24f5f718a7c933c12dc7629ee4e760878ce35",
       "9e1a8957ddc65d240af43229554504d6877daf7042fdfcc18c6fbc731643bdd8",
       "d70ea8cacab0e3951aaa5cc66add80a20a9ce3f04a5f0d0d0adf7e29013128f6",
       "1df360c8c1d34829df17b4c3e0f53f97a3158bfec76d43d9350ff16c97d8e0b5",
       "db01cb61e3a42aa4c2d1331dd6f908950a47db5d988d2e04d5f47e4fdb25298a",
       "d793eb801c0a9678db6d3504403fb542b71cb66f6e4d0687030b9bc7bc1c2259",
       "5567e3ecdd1f9679f9d28ae010c511a190a442e0cb1308061e3625fb5368823c",
       "af63efd06bdf266fce008e8ea3e36eec26263984c298b70216c2e4d131be7434",
       "3b59616287bbf66db8552ba12461afc7a8057fc4f75d33fb2ef8f169d2f9fc2d",
       "4a41ad3237ba633fa4eb7391004f1070d2943c371bb53541a3d32febf588dbc9",
       "c2106eb99675d1a6567c5d610c9c1030824eec570bf0a605b0ddd2223de73c2a",
       "6f6bcfef5700f1e38d12bbe8a727ad01f3772a7319265a44eeb44107169ba932",
       "ad6e7b7dd05300acd9104a53cb68562632bcde9c2636ea9a00c1e889334266fc",
       "86164fb319e9c1835d40d4460a875761f99b96769dd4895bb4de5c66c15a0b11",
       "51fb637214420d0094f0210cd3b61f0de997db650025d10423aa72caefdcf4ab",
       "ea27f2e6dc143a7d8016fbd74dd18423d80d8ca758873c8633a9a994e78349c4",
       "2bbd5e869637791494e9fbdb1cf0942d963ab0152660d91620bd839f0f8c900d",
       "0e18e9933f58b5cd477da6bffdb59166fd2e2ab4c4faa0b59d135963031bf2f7",
       "bba71edad578f676412f81a897d79ef1fb1e1af7abdfc748a814945b0dda2968",
       "e7f6acb24467f2c658369fdca528c7f36bcde484ad0def54131d64ba83141276",
       "718cb0040a42c6a47de67a8f188b7223da3fe492af0030abc25c59ab7df29df2",
       "25072f412e0692f12fa7b1321733d0133c51ae27ce068a87d8d9775e9ae750c7",
       "f5a00da0a7e856e66ba3c3e25e65aa6904ea7682a851dbf3acf065584d70d884",
       "de38d7d203ed5597af226c06f5436301a78c3f6511b2e2436edbfaed613e54f8",
       "40f1b5c21d4c7bc6290368e7413846d4268e63ceeb65bfe8c61cbb13a45484cb",
       "5befd4dca02c977e9474bf1045c9f54e8158fe675d51b5469b017a4669a521cf",
       "611d39f6ed5ebec76e35a0d27d56499be5abdd824a38e5934bf381b74e22e94f",
       "717d1d7068aef5af5d9a9b741f4b0f2a5f601c611c305f533a75bfcc4108b6d5",
       "39634712d07239b3390159c76567548f1c89be6669e19e1f626c41d3e89673a7",
       "975e14195f0c0affe0de37f19b632dcf1bb4b153ac0efccbb67c5ff35cb148b7",
       "b46072c68834a79f4a99e280d9446a9bf3170179ab25600ac456002d77eae3ed",
       "28702b07a0496722394309676b6164f256da0c7c292fa31fa61f2bf578ea7b0a",
       "a4824bf7e2e975bb8384dc1c56d7cd48ca358c4f51995172c46ac0acbd98d502",
       "feb30e6565c3f30645b330418ea411ef9713a829d73a2266d1027b1682e24f6b",
       "109bbdc33df9f8d4fe9cd4d3b0834122c7db5939358fb46dc191a23ce8330a32",
       "b217ea73776c287af79c459c749dee62d29c1ad29a0ad09010a2f20034beacd8",
       "b8e7c22a3cd5a30ffd135850db21e4fbb0e07c23e1981e03b05922b6c61704a9",
       "af331ca9bfd4f8e480df0958966970701ee887827d501e5e6891425f0cd38cac",
       "db3d1d1bf133bc20b62286b9d7a7c537a44261fb03796f039c63467ff6d826ee",
       "5056d274c5f32d6f323d474327dab80dc4536fab8e25ec012e7edfe550c38842",
       "9cafabd160338249f84913b5e49920f32916e5bbd5522d3ec0bf06259b2d74d1",
       "030e29440039d635d9f656bef0f307cddce28ccdb308c8680c03d47ced040f02",
       "5794b8d87bfc2c943be9277906dcfc632d40644c10e09b53da0a54e3ac5a7420",
       "fe8a8a54c47375e458aeefb14ebab28f786b0cdd225a48530f3e96004e19b523",
       "dc80baac5835621beb3f039b3ee925d7722f3c64d728d9cc29d4351698c78217",
       "abbe998c8bfc56eec09f00c25098ddea2d2525902160f364995adc3cb04b856b",
       "9a75c44eb625561cf5eb1ac54a694ac7a2c5bf6386e5afa16008a04bf4f7741d",
       "289b848321cc156f417233a11a099541d9979b9c3958b43a177e9f9ab5485e32",
       "79a727036574aecb4404f494370f716b5fd8c718fbfba404ebf2be617301f464",
       "1c71fcd96ca25e6ad06233d45212ddaebd75f4681be8c9fe3ec15fadc0ab1cd9",
       "a35bd7a3a4d63136f1bde18ed3512144e99a0c8503f929b8698134452f5505b3",
       "2a976a1a25037c3a0f54766ad51a337890864eba4412ac7967e5a96e0d946489",
       "d738bca2a476f0bda4363965c2e67892c392cb5c09cb6efc75c17b35a3d1cc95",
       "e9342139146f49124e7e650d0488f2eccbad8334efc2d250ffbdb2d22704d43e",
       "508745761716bc26d78045ef7ce27f699071375a81bcca4b68228b9e1267c6f9",
       "5e80fba938112c237daf7cacb0d2a7777b0301bbe4e8309a01c40b8eb2ded08f",
       "15d25c8094405d6eb34fc20e8ea52575e6fe19951fd2676bda5214b52ce1f04e",
       "b5722e651d2e2f22e3e75261d22561c3af0ec4c65a434548f10c39372e613f03",
       "971d7936118d790661d36688e8904ed4fd8f6d98c0e46262f9670088ba2dcbe7",
       "6f3326df7a032780a94b65f78f8b30d0cafa5ffd54afedf2947bef1299919761",
       "8fbd9c6a356c4808025e7f4ae8bafd12999a4815b731ecf11fc27730c38a39bb",
       "4bbb8e6521ca1c6db8062be302fe078ea7c4755f698244478a31f419ba3271f8",
       "1213c6bc3981bcfb32099a36e3e0876b856ab1d08460d69b1aa404cbf0a0ba37",
       "d9ffb44e3629a7d190e17bba6225e36d922105ed361fa860bf7d8cd3cd798b32",
       "2f8f15dae0410e44035c015bbbf370b8980b411719a5fcffe9fe2572a98326c8",
       "daad39428dd434e59e39a0715b2842df7cfa88421f48f98de3ab2acfbb8cadb9",
       "4c19551f98e8c53283c7717562c56ffe4d376f34a5e937f0dd41ab5e4c092b5b",
       "f6e7eebf58620c959b405736696adcefeaa9127d15e6b7e26b327c70d86fd6d9",
       "ba2779fd81523e51fdeedf78a89d6c6bd461883e88659eeb559b6bcf5a3d5a95",
       "2970042be25819f7552e86d1ced8665f5ff5a06645536b326ec1b24724bc1cd6",
       "bb11bc88d4b62b85a1d4d88a43837bc7de5670baa24f0dbe6abe336c247289f1",
       "660510237606f6c00bc0c067576286a228f4c40d8c7531a9d10ba2bb2bcd265f",
       "233fc99967a6d4d043ed7be315d0c5e48900a1f3f2933169be20fa05e83a5c43",
       "135b28ab42094d059e34654a84b56b4f0e3ee6c2740a3b4e30e1a73e745e59ec",
       "a8bdb23ee85a392424d8cc1e735a44e2d2fda626805b79028b6791e633ac3393",
       "da09c808bd8a2307c5012b933890bbe462a786438fdebf7f7979fa2daaf04e6a",
       "50353c3858d6f11690f86903d77500f68fc4c0563392086ea691d95ae3b713cb",
       "d08d1cdd35b8735807b5c76844aef2921fc5688785f3bf05308315037930ccad",
       "75447b50b8ce624abdc23588a3e8280c06017bf9b2b4976ab8e3ccffd9bae0a8",
       "1e5ed74c8c18e0d0527ce23bb121492d7186642f48f6373f2bf239a1e5903f99",
       "fc6449b99ef7df98591edccd1c613de89a6cb12831629021cc2e222080279d8a",
       "8ed5db0bcd4c52e99bd0806d9da347a392735aa0b60e7e721dbcdb2a20c8276a",
       "1e87f7350f1e54bdb0d5c1cc94052d4a42fbf75ac9ef61fb04fe545e522524d3",
       "4b625994fd41c5682b5f52a1ab862fb93eedd80f369eb4712d28bfb1159b7e07",
       "379c70212d8577ed2ff611938e9fb0c79d7f4d69dfa76da5dfa184f94a32289b",
       "b4f598eb6831ec6d2e2e28cdb7c98108dfb10c47a1385bb905877f3052e512e5",
       "3c08565af72f7a27e04706a1209933775e82b7a1762a9f5c122e5611d43524b5",
       "946308ee83a73d166360a59511345b166e631216853549931419bb6ea1fb05d2",
       "c7e4cd3100b38f31a9366d124086287307140e500f62418fd695ace326845d25",
       "25fdba2dd0600da0e8590561f3fced94d3b124ba01c2ed3782d0f0ce9414bc48",
       "65a454c011e39e13f25da0ae2830b12648277cf3a6cf7f5daf5a94e423a10517",
       "142b50754172414cc9c441a4ee09193d80f06d0b2681fe641c22fea523051a62",
       "fdd603fab6f10511960e014936e445c479c9eb1f02cc1a3725cac4199ae46c93",
       "60fc4fb16faba6a6324765cd6418d341d793e014df0364597d44665339e63a50",
       "9de8e177061b764da73aea0d49325636964442e7a1cfcc1dc93dcb76f08c575c",
       "dba2123c283c8e63004f986b7a27da051350e6c0ca1f61bec70bb13570312fa3",
       "20d8f309fd9a6b2ea6d9a6aa015650b7334ec86abfcb27d2e2e623a8e0c740fd",
       "dc0802b78b9b57fa64c833e853226d77e1c136e14cc59c8cb90e96c58ddf2622",
       "6d54f10497a36bcd5917b56a68e86bd0e106c99aa582462b3b1fab7429969853",
       "64ebed64d81167bf0aa90bf2f972a633e5907cb5c185fb1aa08ed9cf19ee91bc",
       "3bed037de07be4a0bffb2119362dcd3d9bce2ac9283d8e2b42d3d66414d2b026",
       "87cc725a0f6c805aedcda014dd731c68fe2a42f66237a0476bac764a39e8a752",
       "c03c3b139e3bf144c6ab1e11f62ab323a3582a318a76c2e69c2f6e1e6f49d42a",
       "b0da1ade972e8578ff54e8362d0056c9c967e8349fd7dd7a4b5c9a1d757c2bb5",
       "6b0ed4445af3da4b64e3ef33b4f49765b16cdabe711ab27665a173e866358ca0",
       "76fbd2512f5f2a56a67ab79796d4161d1215bffaf4bb875df1f0fb6088c1b10e",
       "89995b295f964e65dd2cf32a38a910eb691ecfc2afb09e887f11f0141c15bc78",
       "b24670d63b052166f2b0943f27e77207ffabf8f9b15ae06fc153bf877c52a6bc",
       "e1e465f83c7ec9bb9ac56591491252e9c8c779c9940e469022f32e470641b491",
       "a91e80f9d9c8553be4daac1d1a0e028a9f5c828e33bee88e0349c34dd8217781",
       "cde5836ca0a6034c14044c76688599af833479b6023811d341391e78d5d36719",
       "0c4c1bff32ae77944ef9fff51ab2a0fca4d4ad4e17671377ab6c88d21fee339c",
       "50978f25d0d73af31d2c5329a65ba8d10a49bd23aef145fb67c55769e8b79f9e",
       "0d298a16f9abdca273c7abde1f09955add400aa5c5a3831fa94af5ec8abd907a",
       "c78108825a7b70ec8889e2b399a9573681c5871f235df8a809b5702bf5489525",
       "a56abac3c425ba6b1440fb633834efac5bb471c3681e51151643948b6f0e97d4",
       "68e9769703ffc42df6e3fd99a1da1f960d67ce5e3caac058c8527077b17c3f56",
       "a79f1037bbee2671096baa95a6422a6e4d9a9f5dab95bd27e563b8a345cd4e97",
       "3d54c10ee8c03fdf5b0d55c42dcea711d72cd187cce53dbc06ee1505462415d6",
       "36b86915b532ee050a40f91491cac9d51d9f9daaea9dd82c8c9d83946d956103",
       "bee74bbffd0efbfee8f627bb39118ea78dac351f1646a5afdcb130ac9167b8b4",
       "209c4055bbd61cacb1b7a51d9126c37b55f2a364f8fbbe4cb4ce67cb04c8acb9",
       "5136aa621ace75de6faa64b0ec5ce93225ea441002e9d006da8884c54f43e835",
       "20007b458a0532dfd2ee607717d139c23f4eb94c27b445d8a6a8c7f5104e9d1c",
       "5e8c7655ea84f89eba43995e6e3cb82b491d43859966ff06e349b5cc47422770",
       "2a452622b0d729b445c07a9373cff40f29579bf19f161e2d39f927ce0c6b0483",
       "b0748f25efaf69e7a1bfb403c46ac773c730b0a18fff124b7e1efb2b9e9eb5e8",
       "5ec7cd29ddd103d5b29ceacdf1983620da6f83fa146e142b0e1e24d61e0d33df",
       "bbdfd9001c180aac287c6f654c8ddcf0ad59822a94a9b11ac2e0f4fc5f09a015",
       "4583bd7ab69a55a2d5110dc10482d59edb0a599a6232bd5470ee5f67edea5c96",
       "1683948ea2c58eee1633e79f251027e2e76be90f60aebc6a4f5bb390ab21323e",
       "9070f46c05a196b3424a7196d2748ca5c7a19e3321f16897300296a257d7d9bd",
       "251c500aae47fcbe48fc7d53ef0c77ec3e98a1b8601185e56e766c8f101e59a6",
       "9561c6f878e1d6cfb2b68b0462e8ba514a13e1b096cd82b37a04b06b91c091bd",
       "4efd0c980f03370645f584e70af7c18ee2f7c1a0154f7ef7d3d81f97990202ff",
       "860397ece85c8f96bb71e01017b6df4debfe29e6971e7908554f58620b6aa697",
       "3cdfec68f67d504c311abf61dc7ed7dddbec58307772dba59ef91f7bce538903",
       "e9f4aebba88254bae153ff26408b90f000eec76b36f648a0c823dab3228f4526",
       "16f6ae1d4af31287f4c8d35ea0c72e3fb2a25cf18849170f2325df14b3b5c0a7",
       "e2c8878364d4e989b6837c5bedc9ae519404c8c4254f55234ca0fbc740f383a3",
       "13ee67ac039fe45ada2cbaebd0c5e4064bd02ad29aaf10ba56244cfcdac8fd33",
       "2a5642f01cc46dc2f9492702679437fc554dc57f06954ee767e4690fe9687223",
       "c3666505b2c3df6ec098c2dd9cb4871a5a2431eaec43721affe25f6c7f364041",
       "fc7eae41faeb54467189a299dba7e2879e9182d721e68739c6aee5017f5c3598",
       "1e020c49183e553156894a94f9f6562915d9690142c0ae0853f3521ad7810dce",
       "39a98a2a3d78546cb21ab790925d3495ce421c38f0e67798c15af0c8559ce7c5",
       "5e323b2d8c20c77f9efde48aa311f2e0ff51dd4106774a9cd8894caa02925df2",
       "8668aa3e6977a24ee7c7d5ac8110fd440c1e555eebd5a18335da4eb613a12995",
       "6d3b86b05f58321650ba6086fbce09d58b80b6c4c4bf41fa11148329850d94e5",
       "3d501331824a1ae94a0cdc4dfdb9a4369f8692c154a1ee6794b200803419ecc7",
       "8a957b46a94149a0529f5f98ba460b3d8dcd93e9f8d9892c39f1d12572f3622e",
       "06c5ed2b7557040ad5614359443341a87c839448386b8db74ed546c664560268",
       "9ec487664142a82a0a0573486d0ae465965bead29a0c201fe376862daa6224ad",
       "8cffc6be39dcd6c7ffdf30c1c9f271116e4feb6fe3cae87e40dca70aef4c3989",
       "8da710e03555f96d6b2b1496a74024070efecb3ba71eb71fc4406b718bc11cfb",
       "55931635e1d50899fcad352443aa488c897cab9a8df6eebf631c667261967836",
       "2ede3ca1a4d21e878077ec0402d50889989a15743fed8c1338b6702e342505c3",
       "ce9fe07bd7afbeb8a826bc773d3b7a5c4bd0219fc8995a274ae62a4029180e81",
       "6f9f27c1a2376b5590d437ccfce6580473e20d17ab91f1ae8c1156c2e89c7d30",
       "031606758c840d4f9936ef5d316409ddc16eff1bb2607ffca787c73ad69b8e02",
       "da802eda9bac60497ef93211380392f5c447325dcb13d2681146936ab72096ba",
       "1fab950cbb14b7dfa1f2a25b3d140e4cc98eb1aa3ed89c0a988918c8255bb17b",
       "b598b9cc09d80ea7a707aac2f4979f068e5befe71874d10ae1ee7645bfbf5dc6",
       "565b33b538bdd7bbc630cee516880f40a3e8ebf3da8dccacb42715d4002f4fe7",
       "82996a08265b2da26c17579ab008bfcba845457e88495c5c8cab8516e00438b0",
       "38d5a9fbccc836fe88807dd5ccdb4e37fb58f1068b306bb375b39d3c6b578993",
       "b67aff325ac05aeb94be23c807e040a8548881b3edb175d1c54bdab2a7137dc5",
       "a4cdb45e9ddaced63c6c9db55c64cc4d1c3b90df3c098dbd7d4eb783fb32b9dd",
       "70f77d9976bf6f622fb9409ae179bbda09ca87dedd4297ffea6e239082bad5a5",
       "a9f24b6980d4af1cdd2d0a843b6dccbb262243d01db8df2b677b07ca74b324e7",
       "52c4569c6aab572442bb685f5d46faa4509c6eeb67d9ced726d9b3fb44724e00",
       "39b709f774d5472d40b5cf87810eb64279b70b329f1239a3bf00693a3e575155",
       "d79993138c0d368bd6621d72fa74c2b7d8cbc8ccab1cf05dac922480769810ce",
       "211c5d0dfff1867061bfd6d9507a443b029511b4ff1767bd58747d874aa91074",
       "4c8f71c1bdc007a109ffd6d41be7f05ddfc6915d1d9e4c90570c9a0ac383308e",
       "3e23dfa5717727f11551d33c32830a61d21f23f555b1b8558ee182dd508f3732",
       "02f70bd39d5b1541ccf3a5243c905022b02d61e6cd6a87ec6d02378cc053006f",
       "d09580957899b0d9d0c1095eb92f9f2830922cd2d5db3f2016a1896f174003be",
       "68aea0f5e5a3723a1f7323e17b6d04a9c18dba5ed2aa1a7732edf5e6771c94ec",
       "f13422bf93c0f29ec72e91c7f21e8e7110ec4ebb11ada3615b3ff0d43a4668a9",
       "a50352c8b1a454af7fb032bb0619c73b401251eb1588092ebc3593d90adb76df",
       "da1ae016aae0ac3e03d48f2f96fb8736af0966dd0dddb288b8950d32f24b50ba",
       "08d2302145d805c016fff0d1bdcb09438b7b32f26bc2483941b930c7439536b7",
       "80435b7535d9887c3f69f05c49801e6f3afe970ab8f7a724e95605d86fd7b78b",
       "5ed236b649312fa7fe1d0b6eaa99203888d8706d7f30ef10e4333cf5199aaf76",
       "43bf6406b0eb2b2b3d7bffebb30c7e091d51f482a7296427477c39676a13f6de",
       "310a67f53fedfbb237fb04629b8d627ffb53ced967ebbfd227c00293e8c76d4d",
       "002e2fe9443ebc7876b65918f00041496a3811555c5d9d62f661c80f60804bce",
       "aa45055f8362c1484f2c6820bde8abe511eb18bb541cc7e70db07505e8328a0c",
       "393718d1e2a8945b4639a7c046ded58d39e1e0e56556277db4955642cf1dd267",
       "1e5933f3ef863861904080c792f96468dbffb0024798c0f0e32a6aa7edb6f7b3",
       "de92f9927fcfc0487e9b86c5bf787134fa8e1361f4f0810d2cd65d5aca46344b",
       "88ee6f74f38dd137a86efe70164fb79146804bcbcdc5d9ba0db275efc1963bc5",
       "ff35e75e03bed9b367508e8464ca0925ba2f8186b648e9bb3ef92a5a6e097049",
       "250902acedcf80cb4e51cc0e6181e0bb8fc825dfd476d03756644435e70ce654",
       "103a990e34896687ae08aa91e5265be8bedc98182c6f2f5f48663f4cefbca370",
       "2ea936eca08fd8f53a18cf905255525c5ed8efc4179a86c8301b05ef97d8ec8e",
       "b9620956de615bfd336a0d7ccfdaf6a758b1d9cca68fe0b66a4ecd5dc0461e47",
       "a9e6cd56e044a8a21fbef458f72030f1d657ad7f0e623b2fbe47c973fb788c98",
       "7fedb57a721b3c6b9067d0275b9074844089b52bacd8c16f7d5a33f204023c10",
       "8de6a6b7df1f57063c8356fa3b668938b6e138e68dd43265fae4056a4d617590",
       "de1ef0b5fb47114e475a72dcc4ab9cfe2c5fc826e13e30cdd4a4314de6055906",
       "6e65ac3673056fac2897e2ec502fcf287b5ac017ebb8a5686a1032ee00729673",
       "08b865d2d678dcc2fc0c0fec60e16dfb1772a3926e82456449782855c81bc104",
       "405245d9d75aa726f80b43677c64240749985d0eb471e4e613ba7322d4247c22",
       "c6e9c85fb4a829c12b5b0b1867847e3a3485942ccf7c2ae322aa61c4d4502981",
       "87adf51af7ad01e73c0d9cc4103dbcdb845cabcf455cbd62a12dbd3ec30db0d2",
       "65ad93032f2253dd5783d4bd88059d1c086c6f870ce09e685e19b1f1a5ccc170",
       "019a414f7fc75af21e0b8f91edcac7f670cf177667724d4b2bc881d882e5f43b",
       "e186c0371df162f25cc8b6e985a3529606d07a0e9d487166101c90a39ba5db31",
       "d29f1f80057f3a8de6f7f0f23757345a141188d8eb42c3b30964ece2d69c3ad2",
       "dfacc9a2254859523534a67b3b1ef8bf343b47ad86958a3007a9e9920b00e686",
       "14578ea57d03f16d7609d517dc1a5dbe602501356d726055c4cde0409a3cef5b",
       "f4b586bb5d1f45e4dc588abc20b26974b246ecc0c49af2cad577f7324c5c7bad",
       "2087596a19edd9ac87b31a5e4e83b1525dec10155b3a7443f5cd5fe5a5df9c69",
       "a79272c3fd0e0bfef86aa99940e001f182ccc7a9ec846a2a7836b7456bf3e3aa",
       "0623e8aef3268f72a5679796c9d002321f063b946c5706b8e9475ed5d2363e65",
       "31bbc80f2fe5c3eec7404d492ea2baa083ce427d874493a4a6b00418b463c04e",
       "5446855dd1ed1df0a53f0885962ff879079d9f52678a7997be6afa99fe1b0583",
       "c923a5113072c5d53a9e49c9ae576c9595d098a8207ec39f870d975cbf8cd89b",
       "75392e4bc3d6958293dd96a2ffbab63ebbdd5fa8b79734f394e603ad2f8d84a5",
       "e6628eb90ba7ea946dd8b93dae597303b6c549c28aa3f88da8b4e35c17632d0e",
       "378e39104fe1a5c12d3e7ba6f09751fa37dc1a3202faad8a513a2e0196f2906b",
       "b2fb572695e4f2f899b094a74ad9f640ffffe9f86ce559f9972aad0c878f2bcc",
       "1df8ca1799582500e736dcd4e10585b2754bc8736ccd850c772405430b86a2c4",
       "825982484f27b581659a90a0fb8c9c653ef90fef299630ff41fbf290e775a51e",
       "44e5ce35139819e0c89d9c27265fdc7f26f708327fc289c3304625c8a7b93c63",
       "f47b3d52ea39121bb3251f6b8a4179401b6a23790712fb6b8a8cda7d4cbc001b",
       "81fc9ebc4062e44cabb0f15db7efb1ecce756be6892836a24849731964201ec0",
       "b84bb9b3d389205c88477f88aa9f5820339f9f52dd74b755224510042c577677",
       "6c7d7132895cc682afabe754b4bc5e57c2db6869484e23faa3b99cbf9c7195e6",
       "2a95d0de94145e959f4bae5da11ce187dbc58322b6e9fa97c6c0581e81dda559",
       "d3e36b31360874a34ffc59bc0eafd0320d70c283a491761e0ee791e0bfec60f9",
       "d3ba26c00f10d882d01c0b4c20ad9db63f6f0edd867322679aa2699a67dc1659",
       "5bb4d69c554fec1bf5be0b5a586c76842a343b411ca3681baf8cc851d1604e22",
       "92f8367e585f8fa7c257b11a206db241efbdf27805c0299c9070a9ae2e032979",
       "56f72a30a9eec1831594ac727d52887dd89ae2ca0d6a74624ec58035e43a13a3",
       "a5fa9be5718de51f44b1fb27293dda4b85f29d5efaea103b05455856870dff4a",
       "cc739800cc5edb8608fc42d210173dd7b2141a02eb3d5fbfc449c63164cd9452",
       "37a3df43d1379f07300c01d9b3626882b234b2c77801050569906f31da8d7c72",
       "b648434bcc315f24466f23745cdb079a6ff44bbaff1b8ffb2104218fd50bd28a",
       "34976486155bc9f3cfbc49fcfbeb971543b16e74bc74b9c388fed0a308531c76",
       "b6fa39f95489325c9fbf791088a40646ffd684d9b24bf6bb15658181acf1d933",
       "253677ac0027f672c10a6477671c36229365d3e150ffbc4c140420adfa58296f",
       "c00660d4f71e4a5f6a97056f13df0175f663b9beec7ac54a1989a6a68aff052d",
       "3e7a8aadde73eddd500f3b5f69e76e0203e32bb762d5349b368a4f33d3ead542",
       "463c8dcb707bfc025d48d5f062cbd85a82a0da3a42e5e06d23960bdf22496676",
       "c31187c21bbd5a0bc633be40405c68ba40758c547fdc0c94460c55b0bf111066",
       "a77e43f975675a53853575fa33e9bcb07a5dcc5e77af16d7ab7d4562a77d3437",
       "e81c733860fe9132c76d1c7fc59763bf7a09ef6a2a61860b2eca6e01b272179d",
       "de7b323bc48a6992ea15376225d373f421a04e350ed1779a661ec818f5c324b7",
       "1dc46ea6c4e05a8a45bcf522a6cfa41e86354774c99cf85f16378fa7dbf47f58",
       "15d42ea0d999101014debe1db8fd061a987d2435e368845670478d96b80e91e8",
       "06b20be074d1ebaa5114c85cf4f634a3dddb45d0ae472faaeb73dd113ef095c8",
       "d786d6bbfe407c7460da82cd41e3eac8b1c4587ca0647bcdd8094fe18f8daad0",
       "3a1a15782664cff235ae5df6d963beb4dcaae2a49504b5dfe4ed017648382426",
       "787a7f3b1ef345b57271ae15998a4ca2e2644758b173f50bfd59dcc4ac2b457d",
       "23e31aad1f8918d1803c47081904c3180241d3eb0cc1866d5fc6432952b57b27",
       "b23f29bd8cbb1a7ff21c91d7659805243043289001c9e3fbcb700cf0f343bfdf",
       "da8eaae221562ae71ce1083ac5e0900dd0d1b015fce703fff36c42c141a4f48b",
       "60c75910d29499c18029016f309d3bb3f6d96729035ec3bfd54f55ee3abbec70",
       "b433aacf189e1bcbcf7e1e0f89186ed8c8f5dc848bee750d29418916c1f065aa",
       "edf87fc40151c2751041492340227acf03e28715a2cf61b121b013f1cb5dbccc",
       "6a94a829074a466b0caba6eacb5c6ca719f21a6fe8d7d4c99255f9334a8eec0d",
       "73dbd1b3e8fc57758955d0312b15959b83c42589f9da41e557b753412d11e1c7",
       "055a27174d44b87e80d144f6b9c5a40779298d362e4be8b4b286abb5d07fdbd9",
       "fc166e5971c03964dd1754c4f1587e613f49decc263601b2fa4c820e07cf5163",
       "86d5f3985231f71a5438eb1e9b54e68127c9d4b3c5919b0a3b65d80182613b2f",
       "876e9d467a4ce8b8de3652589ce88d7c3ec8634f00dbd0b6aa21939f5d7aa4d3",
       "541b7d468f9cda75afb8609ae2627a577a2ed7257c7cb349570d027a94983251",
       "592f1d911a7a5a7acfbe7549c21aabe0c3345b1a92f3697f6602ffa6f2541e15",
       "d5f8f483b82824f1fbc49b217672671aa24da104b44c88afdf1d2feccdafedb3",
       "c4ec9e140e6dd2dc59c284fd0f7870cc203579661c99ffd6bba584fbcc1f5b07",
       "b188726989801d303fb1423e4dbdb7b886711afeabb0aacd18a8681b8d8edc66",
       "9ccdce4090410f41a9111d66db496506654c0d6a2678d68eb68c5bd3b21e8023",
       "f3e84ab6cb9fd2968d95db8275c91d36403108f46a448b31abed888dd9b709aa",
       "fa78debd134b981be490a4f73f43a56c030ab70e2b30bffbcdc8785ec1db0a14",
       "3251db400e21b6df2eb5e06ac25ec590f77b7af55c9c34a0168d089806a2544b",
       "de14557cc71c27caaa40fc40c8691d3f08f01cf1a1c91a9c0f5e275d83bdadc1",
       "7fd9e9d17351787e6a1a7d809bce8125ecfac8e66c4e0bcae15b9b9ab7c56786",
       "079a93c983acff40c76c2ae814dcf291f9414e71b65c76f33667f510bc7447c6",
       "139ac8fa551878d1c197bbdf7a2cc2bcf57f0ca11b5b96fd48f817200064b6a7",
       "986fd1930bc84deaa924fe509b0871552b0641bbde741c1e8327bf13e756213d",
       "305fcc118221215f28b81e0c116d85fef8da17ed4eadc53d948673038728ced6",
       "4a7d75a6a3b4499b4588a7d7f16711644fabe3000d7691de7f285c0d737be005",
       "b20f89fcea94a5ee8ca38b1ff1a9f8bb9d4bc133b47db2447dd405d592604928",
       "ee517bf1e9e3a152d314790b83b483f6538be19ae669b29f501b4e4f0a3ac366",
       "a407173ff444e6e1873c0a605c32e8fb356c8a7cdf44b7f049936cc1a718f4fd",
       "c233290c477d758df076f4e2131ddc5b74c7d7d5e04958cf7808369186280f8a",
       "ee04d16289498733e8e50dda6bcf31dc758335754c8b5024f88af94f32194932",
       "55b4e0442c1862ff23e42e5d77f4d55eafe6d1e026538e74c462bf7eb82ddf55",
       "42289501a06001f0b5f672589714e1b94a650b7123abd24a0fa768aba97b813c",
       "0eb609c08cb75ef1a2dd9a45f01c3c061cda8a301038e9cd0c91a7771d8e0972",
       "6d2c53652c1854c6ef9b9ee3a9b8e63930efec085efb40c797d312631460a1d4",
       "c74b35e92076abe4b136a3a0c89c5c172508a3032653328f94f695a641e6150d",
       "f2dc0cc9f5fbfc446f72225038d94fee6aa533d0cf9e0e8d248abcc515d5ae4e",
       "ec1f40786d118e257962f9638710e224c7550a5f905dc84ddd6fb9072092125f",
       "17c66ee20fbe083cd0886eebd99b852c7faa0542cf59816a08ca370568636422",
       "5c3d53565d931e3437f96b08dbdd9fad5bd727390d80f42119a95f4938ee3f07",
       "4e7246802000d950f67addb6da8e85b0ccf433a38246bafddc67c14884c9618e",
       "ad071ff2d1b57a0cfa6e0175fdb5e0fc6647eac0225aef4c3daa5628edd7e1d2",
       "3c5e887d2eca687ec30a081fd924d9b1041290cf9ec035036003dd13652277ee",
       "031c8a0e54578e6120349b1d1a5a36e616ddc20eea53d1bf83ee91d549315643",
       "365bec135c2c9581ab37070660bc60a2bc258e82bb14490ad70d3b5856d37804",
       "49c410b239682770bf0103d28d7b60bdbdf7cb41ff465dd26f525011ee8efa02",
       "945fa60c5ff0d8b8e56bb7783b6dae1c509dbcc17485a68b38d2737cb286043a",
       "6c416e1376b9275da9be79447329e51ab9c7eed9146c086e6ba6e47d1c1cc9fe",
       "281f819a7f30af026a456d913110e0a008a244721581f65d1766a5b65fddbb53",
       "b461c6eb193a880bc3e82bdf912a0a2ce2a54f406001876ce924a996b478bf1f",
       "a393495f45f223c553545cdc67761ea60177b2c1c88f02553e445f3f62b67dc4",
       "64f87e97e8bb33625b1f9a3af87b974b404a5665dbbd07cc88ea2b7618368f94",
       "4964cdc05a2671a98f2f691270e535c2df19703abd82c5f3657f0837029d2090",
       "7052b40be56fcb7e0fc2dddb0c575086b5493a423ebb10c87a1ffea2994b847b",
       "9730a2e15e436210d8b19e0735f5841ef8f8d2cc001171e4ca07963e6514c732",
       "6e2f45c7c144036b1de321a70accb0d9966251e6628340f8a1e9be6f3763d113",
       "4745b60beaee66602e8724d9bdb37b3f7e9931571b90c1d97c6ffe6f54731cf0",
       "dfe731cddb7b13e7d7b759b2bedc002a3eb7258052bda68e034f5f091e1f27fe",
       "ffd0f3ecae46fe7beca9cd53f3fdfb9591bbdfbb2b741e3ffcc29dc8bb30eabb",
       "cae4c012104744719c672c469001c571238c48a8830aaba6b0bb14e197944f63",
       "1238de27905002275d812bcc81efcd6d728012de7ebe960d9d60f68c2cdd19b3",
       "492aadb475d5551569caa8a0db4c4133e757eb03e5008254084fd8d4f666cdb0",
       "279b8e5c931b90de88bbb15d46624bb144cb98f99bb358baa1d9c9afa3f6d543",
       "431a264f9d7aeb4c21e4dceb7105c522361229f9c7de4b88000fe984ccb6bab9",
       "01c6125bdc66e0afee589c0948d4c027376d34fa55af6749c202d4a0f3356699",
       "c4410772b87d83b8ef25142cb62175c1923b53d1d8fefd8dc6d94b1f277da4f9",
       "bdb853c9feb5b438afb76fe830909462facc167b8a1aff5743c1873a6e6edcbc",
       "e3cb0f3b5ac6ee362dc043e3ef19ef664305d006a3c1702682779a4961bea5f1",
       "8318e96375b2d004ac4fe4382aedcd381f15fb4b9b9cbb03365b80dd1ec691f9",
       "3fdd28c5c91bc3fa5a0e8f8d25caab419be88e0145d09b8b667ca0fa6ffa6b11",
       "be934e547cb2b2f358391d4b6081fdaca63b7215f22a7f63610d7f08c8573e1c",
       "35aec6191b8c5b9b32cdc52c572fa53c0b3c7d8a8ab8694255e3ba6bb0ba7eaa",
       "2b47f8ea2ec9b1c840c38196452048861f3af585b27a61d9ff27682ac36607bb",
       "74fba70f47cdd96eebc3f056db1f6e58d59e251d19c1785ebf63cb07883fa03a",
       "fa86c09cad598501e3d9971cb21b381d0b18b1f6e99cc1555a20402f2d6387c2",
       "ac060a9381b2abfb68d67ccb32265f18cc94101d2a00dbbd32c74ce2bf2655c3",
       "1a0c35344f7de66a7ec16e30f49abffeb58de62a3611124d68f39f37bc751a39",
       "66686709bab5a65a0bfbbba8e0eff1bd89d2cfad3b878e23a80f21e5a64faed6",
       "3599fdc47481aa14893df194a09e9c20905bc19d24f1ee8bbdb772a38dac94a3",
       "462569c31649abd377743c6b4781fbe9451ec12da27961e6eee7e223f26792eb",
       "4214a62625cf3e0e25a4617c2dd416ca517468ced88bb5bbd53e1627c7498c6d",
       "94619a5ecb11fd3b5960d0f6a2c05a9b38964c039bc673b94685e63a802f5152",
       "b546256b7992536be805d6a3190c3bec8f01bdcb99405ea9e19601ae12910f4a",
       "9cc3e1ae5deba2dba4a11a380869ba43f272b4d1f908fd6eed932cc5925836a8",
       "808751ba62cbf4feee2e710b7717eae1473ee6f9b3040e94135053c893d32eef",
       "dbf2a18feab3faba213e2072cef24593330cb78f8f823ab8eb8a0553f041e92f",
       "82fdc37b48259d24de1ca25dd01de8ed47263f23c3da684d2d20ca5a4a7918cf",
       "35382d6ffa8916895bfaddfe3057f460e5918dd0a9571ab4e53ce8b1f29c6a8f",
       "9ca2d6b5f4839336b028d0c755646d7df18d1e5fbe9c3f29f2024aba7fbdaf8b",
       "f2ceac4ed8871586b9b94c34c54713b21ccccf7af158668def1f89bac6f1b139",
       "86aa7d11cabda2caa94895b48a246e1007be8ac08e228e4f74617e2974c829b0",
       "0559d18df0cd640c92fad127f8bf57b3a5007315e2b5557ecb58c33903427ca7",
       "bde5ca2eacc441a75ead3e8db4f7560b21f8324a7b007c3c8d17fca076e5412c",
       "37f7818386a27ce5aad948d011ad271b1c3df577d7f1819753be68a3cdcc59ba",
       "7a17e2228e98e089f41d154beab2dcb8a09a4e94e8d4d9e98f4fcd175bae5796",
       "d1e065371296942e63f2219f3815e91d8c37e392ab531acc0123f5605876d2e9",
       "b5b66e1eef6c7293f3518d864751e40b816ff33f5cb3a979f01cda9f28c5e496",
       "706f7ed5dc42ad77b67c60a1cfa8d6ccb86d015154e414f53080a7c2085743e1",
       "bd8727b2a599b087a2101c4ffba2ce86db80b578a118148ae508d7cb4f35321c",
       "4e20947f0536953c1464aa17ebc62cd08b38c8884d8928ac28ddd32d778e8c52",
       "a92d7a30a435ad24bead5fa9321f337ab4e3263bffff05498aca4cee4473a0f1",
       "7de9ba116e5f6872f814e0a0a02a86fac0f08e3255d56efc370e6aa3f52d1cd4",
       "14ade4137632a0480193050163e4b86c14e93e1f5522f0e256206fee782b0f04",
       "a06bb89631f6c698e6881f86527aa09b478274702d30148398e1730a67ada634",
       "237e19d45560561610d3f25a8c2114f1b7ed623cdb3fad6789848e03502b6d3b",
       "9c9f41a37f9d648a1da44812f740b09135f2eb3e3fd966fdd182fb65af0e35b3",
       "f7111e838c0708edc39b2be91f196b3dd2338f603ab809680fee55f926aad6cc",
       "709d179825d03af3d61af1c89a88667a2b5e503469b15c6bea0b3393e1635d02",
       "9a19b7d21dc092c55d83b3dd9a507b711cc5ca15287015908f12627325725016",
       "d36e11035fcebfb59b9afcd753e3e8efebdb87e645583645a9b03493e9fd0875",
       "bfa6301c3ea6281b6a3d66f3a206dffe5baedc5e05b32b71a56fe9d7cde1d57d",
       "d898044c5b6af32a04d6129cbbcd096b61f2bcae892536379238dd6a6fa531c4",
       "85a0a1d6e26be1ab7f92fff8e86749b1487325f7ef5a4bc5464347ab974f09a8",
       "6cee4c29b946027ab8d676fc6f6a54aba18a2b87f11bebe00c835ac5bad502d3",
       "40a724e12ebec32931abc6398ba89e42350ee5cd88bf9bf25bc588e2de091229",
       "7fafcb35e4b42025d1d3319cba48c469f8cdc79f66d3aa8837a910edd7fa30ec",
       "8c8626d53d973b767a2c381f938e6b1f8c599bf78c9a8f2b612422846fb7af52",
       "1f5ac3b0429e69644275641d2fffa9effa0a570b1c669519986b8f26efb08ec0",
       "25a7290b01deae561a4e4258c5601c608cb13f0a0867edf9dba4f12963a85c4e",
       "0d1d5a6e552f189a1070484681d418db3ac90d9c26c4508157c9c52b74180ff1",
       "3f885110a387cb470db56dc1e26bffab8c5e8cd96dd9525eba798ec1a2f08236",
       "d6d113ede05df96f985bc6f707cb8e1bad39e81aa5310f93391411c213b6a872",
       "43620e575ad4fff8516c62251fe14e5a671dfd79327c140bc73c5a28361eb4cb",
       "a8822903669fad9e0c59b73b771db47513f867709d3c769a60b21ae9fb45b94c",
       "5328dd6bd92081c6a7fec0adf92654b028e40b56b649fb803ce5e9fd25c1dc9b",
       "de9832802bba1c228bbd1628216a1bcc0462281b16f06e5ce75a02d4241322a0",
       "0a501da2786d9dc79d1e919938f9f76c2cd68ab6160ed3ca52750cc936fbf5e6",
       "43b79b7069a434d96a97140332aa5a5532e1951b4ef949c879fca2e0a8165112",
       "dd30b65449c29ad4da86707236f8d570d9fc5e50535f672993d03278abcbdd8a",
       "e160d59b283b7eb2b2f23d6ae891441b4077c54f85bf4182aa5182c4d81dca86",
       "19f3727fef06f465a04712ab4565d0e8a42669150dae1a9f00b74207a583700d",
       "228876550d7c51452056fd94e97161d92e4d42e2e4501b2d00b8149727122d69",
       "39d5472c041c9ae1803bf781ee83dd9a3f54b7b27b25f9180547b671441668da",
       "2b5f0c5164cc8fd01df81050d03a6c02a93832e6bad4d57b4a30cd32ccb8d02d",
       "f69b3c0fa9dee61bc2721092e59fa55a450f1b8fc49bde956931201f6b7bad3d",
       "04baf1cc8a0398658bb7f73b96801ef802d82d136a965dc9b86dc1aa74c06283",
       "8a6376d59b8cda783534bb3e88c11a7ded7b27118512d87f2666b769fe85ff07",
       "8893a8f4c6a0fa22e23628ff6d962d0149ddb82f37d02ce160ac5088fa970846",
       "c5b96a10e672ac058b0b8f6c1790a70c5d5c227d7e588e8047e738061a85e043",
       "1448f1d75a3ec9d00f1da40ba56e58511d358d0d777c4604d51718587f52a483",
       "5d8ac2a918797d97196d70ad445a583db8a493b08b0dddfb19b3b83d3056de48",
       "4b1a781a8cbacf7d7cbbdacd613401765f8ea05783d6b06a6cf0b66e5822f814",
       "2e849bed7ae96fd8e1aa118b2de05256a6dd44c1e8fb95621473bf3e08cbf733",
       "94704c3d15c5c9ba0e5067cbaa13b5ac696174b4761f2c6f1081f0051d2af49a",
       "bccad7d4228f944208c6a275847375fac4ea38c7fbc52c4374cf37ff871de790",
       "507c8beedc9fd2828b948057377d0feca4be28775f1c90b6b1d43cee67df7240",
       "865e84fc153e87061accae4dc2c96bb196335f47538fcd9542dde98e271432de",
       "0a48d6f847fe1bca5c03da31c2c21c704e72bc42efc3c666c266ebf4a59a7705",
       "65a57a394e01a290799c057f4d31e096d557e337d364a0bd0eebead2627f2923",
       "db5ea4261fa09ca05e829f5ca54e574bee25dff27042577802b12a90ed5bdf0a",
       "6795223420a5785c530106a096a12901b5cd1a5a0c076d8472c62bf5a9a4624a",
       "b5bc629f2ba069f5253fa39aebc2d6b130637419eacef4674b2fbd1a67f1ab30",
       "7330a9d805f214ed41b5cbf6a6bf8271c79f312a6dfec787537ab50669866dcc",
       "d285a4eae36a25da0b210ad42c718df4677c22fe95a9ce9d658bea44b03067b9",
       "c6e66d44395064483023de0b8e756f1fd8abfe5642f93c605aac026b04c78145",
       "9d158ca29250b72acdaa046d6a0bfe0358be3c1513febde6ec6d7a2f020e8c1a",
       "96233f90c89ba019dce08cc88ea06266825aeca1e8f2badfec07802be770d63b",
       "f92decaf51feed9866220c94a4033489f0bde2e16e770855580785dc1b135334",
       "f4397868088d4f130de0127797a001f59724ba01bb2b77c10f7734ef6b1f9792",
       "a7b2afad3400a40cd2be8f0a64e64b0600b324104055f73a784ad6acd1dd826f",
       "0fb903876e869348cdefd9058d95f4d7da8d556538e4ad6ff8a32d48b6756323",
       "533278e57b102d898e57618b3e06af7091f0540700cb1d2dfa03b28110bb88ed",
       "57bbae3e44378158d4da8af4bac0964103a6f5611d271c57a406397b9ac2d131",
       "49d727781e1ab3ae0d7a9db7c790efdfd38852fc19e746b1eaaab25bf3685c21",
       "ff287b84abe4ad09f02af984d90022239c1c2b3f89637c790e6bfcd6859f694b",
       "56e443f74d5e4662fe756c191b61a9154435abed7c16f03355109405ddc3c7c2",
       "24a5203d1bdb15799509080cea0d061dfd07724e2ab8aa699c3dc9c317dc8736",
       "ae9a31404e05415ca960541d1495d9bc4c370b8c4484afae04c1591cbc5a0ba7",
       "08fdde81bf77e78fac7cc574ed0b0f44ecd1baeeb38ead031d2b809e57a4edec",
       "0cd7fd0a9e11e559ca72ef200fa80e72227da6350de4cc7b92977f6ef2aa6baa",
       "426c34ce69731773f320037fde800b9eb535c7a2fe018777b9b4f516d4a32217",
       "e97e7531dfa3134a34b3969369ff2d7a04b6e4a949bcb953162953d6221cf6b2",
       "3fd3388c393521bb6260995aaef48d34b3883be92e1f04df0ee93260f58ad007",
       "7e4c84987ba8acd43ef6bd898b248f5706358a5be248b1ccf9619ad10206f2a5",
       "4f9bd09f33cc50d3b60478e66f76b864fe822d7a33feddde1d0326dbd51b2523",
       "766ce989933c880269013402cab1fca2cc8ad25db57fc511d2952c25fea6b336",
       "0212bf352e07d75469904ee6205a0aab2ba54b3cd09c7aa27da3db4a1207a5fc",
       "605d967af8c9c2aad115676c6a33277842e3d6c18ac2525d0ca2c20101a5615c",
       "0c7f23fa3d12649de2fed8a08f272fbf74586abd9152af0193bdec52316d0d7e",
       "f5087fa8eb1e605d533a2b86c20502b75bd3556a0087eb19f12560a91e9d519b",
       "9df8418f9b4ea56f82c13499db39148ffb623457cbe328e645776d901e17810e",
       "a2fb2aab6b28422396f8aaa615f8e49ea90dc485f9cce7486127cc21e2b5db7f",
       "645b052d99ba9c3e01f93483e0270f38bf13258a48c82298ed4b566356bb5e2e",
       "ee402128a291429d97a093ddb5932fed965b908854eeb03b70fc6df86faf8d75",
       "26a7b34de48c5dc214911857f1fd64a2771860507bc986f5470f0d5d62f84d13",
       "9c01745f21feb426c596ccf1c068a255ad2a564e06238d5d469c3c95d253d8fb",
       "d08d5f0f2e0c842fdbef4c32af7d37cd7bb18f3deba978f3ad2cd2b574e3a24e",
       "fc3da2d577a2551fc041262fd50bc12bf5fa2436d48702d1f0329d7c0a2356f9",
       "5b2ba8ca8d38402ff8cfcde9f2b0d21e5296c8b5f4c65903997cc5821797a499",
       "7fd7324cb8ff27e44eef0dfe812422dd8c7072bc7fc58deb9ab8daf66026e019",
       "914fb18adba5df82704731024c0ed2d823a09cc63eb8dcad588e3b80e9faade3",
       "fe2e76211e24b14d1b60e7eb7ea3ee4bb75c2975cd27dfbb1abea6143c878fcb",
       "145f16b050c789dac42880683de7b4deb0dd7c7a38d628bf85c2f0eab1835ec5",
       "cd4c7fb3bbd3a39ba5a4cd7b016d452bdbb45c0f548284e6a8295a5d057336e9",
       "ed11025a0d740ed390310c019b4f88879e15113e8ee7e49622b94cad8270ae51",
       "5ce52253008080eba6e9e88d6de67bf3c2dce25cdfab1f8946eaad6c00f14abc",
       "26c635bebf920a51b49767b498de468da30d54c624a74cbab256f1cb358064dc",
       "77e21f451a0c3d9d9881a9b1b37720faaab34569ffc4cfa0ba2ef9f11cb7281c",
       "352472299692c331da92ebd985057da2941790b205e96b53b4e6b8e03dfbe51c",
       "3964ac3ad1c3c2b009549f7f577d06521c886c1a56db9077aeeef607b89a1950",
       "d50e88ac56dfd41c1f7d9f53bd7b79f3cc1352e3a72ca0d728f675b3c780f2f3",
       "fec9c56bdd0a14c6b86cf203adcf15ba088524541c8eeaccf0275f04c5c0945f",
       "19b63ef8c359ea0f363b1feed05ffdad9de96b1708afae02f366b83f42dd5cbe",
       "1831e80063dd403e153313fe2ae580e9eb29b39009e20859684aa6084c1dba25",
       "425f400b81cdc462c0f3db57e7e17aa925104b568c6cd0820ac9eb6c4bb45523",
       "f84188d74b855040aaaff3f443d43599fb05730dcebe62b2bb8639cd5593dd65",
       "598591bf8136d872009a6b10cc94b1a4973840a31684bc33b330ec524fb0bb63",
       "0ccf4116c5ff9e39ac0c919003c581e37af7efc96fa929a6367e9a0581c62012",
       "9fd3054f8ba6b83747127f9c607978cb36b0b736e2ac4ff0db5ae896802251b1",
       "9248421bc7a545cdbfaeec71cdb549de300ccf67a77eab3a5ef366fc9d99e963",
       "46e7075b805066f12dd26a4fdc89fa7b335cc7e9adf3478a7098c600fd82d3f5",
       "1030418922a520f35cea97362774f59b9dc3b091bb7e19ae8f8c9fe207d56a51",
       "b8f3cb28ad70b19253e85562c0e91f237316da16be45b75e7531762c0bd53465",
       "4aeec7d48810aac52e6475e08a92148efc6a429a9aaab012e263a324f6f51cbb",
       "f71c95ff6601797f614cde430163c0114d2c261bb5da1f2f18ca8928c8e85b36",
       "3aaa728d1a83f85aa78bc5949f5baca0ce85b8055a4f28942015be9cce34c704",
       "ef04fd8ed6a4a2794c1c4adc457e006f06fda671f1265a4d47c84cb966d2dcf6",
       "1535a63817027d6fc40157c2e5f4f6a81443023014e408aa6e90ab67fec2f912",
       "9429c07aebf0ccd8125e896fadac1e8bbc8802c25e535407fa9bd25b6c473902",
       "41f1cef8ee158b6d758bc861dae581f70930bc70c25d522a11c63d216ec2bb55",
       "feac9bbc7d1eea827f29f060316c7c571951ab536dabe992874b63835f5e6c1f",
       "e36493d40fc00dfb7d40cb10e52dc731b2bdb85ef17bb3a303f46af4da5bb23c",
       "af5d13e47a6179f520f75267bc78a131e88c3c18761a4b30661165e9f04556ea",
       "081de11d21c4997bd3ec1d13c2be643d8e3b251e471a545a3853e4c627e09bf8",
       "0a6daeb7fa7653c1607a328bfb608179263fd9dacbb5b8f8f6b28ea0c430d217",
       "6513daefad06b5111c977d6be1b88f06d7725e0d0b2f267e9349ce03c4bc9cbf",
       "cfe47d70854e2d9c8c8c2dadb0a27340e415b95b31cd04d1f71879dd133c9ac1",
       "f59727ff0e7e4a8777b5b88ad68b2d7c9db084f49def9ef76f044c2f5d92c287",
       "d994e18fcf109b2f04efea02c4411ec2af65e63c7c9528a526edc65c6bf1f45e",
       "2f1ddf632259e4ded7fd8dac7f53db3df6e8cde1888bb93c0951cfdaeca1655d",
       "02ce9d95820867b4c0ad4547cda60f4b5d2716eadaba9f3d2a2005c94258e80e",
       "fe4b6c4763698a340eb4e643e540db4b4c87f86f526e4fbed0a7140072c71265",
       "814ac00528881cfac2be07597f167e503a5daf731318cb4a958323cfc086da3e",
       "4e6907ef4425d99df9e87d1268d5360e9ed82187dfa94637e7b06cfd2ad073d8",
       "628d4e9e6cf40e73d0fc6795160ca756d5262a74151d4e26745cba34d6e5fe8c",
       "1a41075cde8054e1750170e4ea6d39a1cc97b43dfdac7d97bcca913278917c5e",
       "cfa72579a2571ef9845a87a89a8185524909e64d0506b6a4a741b6bc30e0fe8d",
       "87648a1d90219665e178fe157f08eef69a1f40fc6805fd2c23e0f40679f49d56",
       "7a066fd73cd3183991b2d44eb58358682b2c75379638d5361d1ee7ae4f1cee01",
       "5a7d58625f9ff3f5bde478c0852fc41e5bcfcad737abebd94325a0d8e05d4e0c",
       "2ee9ccc5605f4ac0d20742717d4df81f05c3e81ab8f4ae37e0258996c1687c40",
       "1fbb9d15de800d1a88fd05b7e0e22bca22cc412066376bbc4c654b89d97bde55",
       "eb5c1dcbac938ace3cc424ad0f9d2f1a1d99e95b123796360192c20ed5d76f6a",
       "ff89a3e474be26587bb1688fd918a37f7820faa8fa6da176c43867f281abf68d",
       "ff2eb1b7319b415172be6f9dc43850d4971ac495843a0d1038b7724aa77637d8",
       "8df9f44698cf48526bd26df1a0147443000d16fb760a40561c285e8b6d2a4d9a",
       "0dcd7d33df584aa9ae3d4575ce0e95b3b34df6a7b06073fe373f561f3e7c8a4e",
       "348ad0daa112543996c8e322315cac6c52aaf6e8f361f72aa4b9c7b2d8ca5b7d",
       "d7b5d01574c84fa11da40cb987f7422a64d795d94e4a303279c41eea1e890877",
       "906e640b293ee8ed4d93f8d4969e6f0a87180386134b3efbc6310b65e2920b8a",
       "ea05cc7a66bf5de0001d82a5a5ed50781b7b5aaf5a60bc3d00b23e996791e121",
       "9c60b59bc486b54048c94f95d399c16af9002a9698230a739fe5bccf77099358",
       "e6648a31fc5b83e3ec25ab805b398600eed8f8b84dc8f7e70849ad9ad73276ec",
       "b85c05ed379a71cb24af203d6da09b6b3343d353f840d6581aecbc82baccaf44",
       "5219dd7999ed182c977dab863a2cb79c0507120d77b1f89e32b13fa9fd384220",
       "b4a93b0326f6473582dff7071a48216044ef2e073d30be732b34f4767445a4fc",
       "78aea818c926d695845f4ab41a7cbed3d165556611dc6f4e208d538a3d8e0156",
       "4b13f14e6c13085cf0ab67f48036a508e7b8a3fe5f30b6e421c9e0fc96ab8b73",
       "282c5896782ee1693ad1f80315072c4c0389b9da5ffd5349bd49c2ed43696423",
       "332d5b0a5f2a3872ea0d458e040607bbfba4b947b0449e0f3ca83c2700585897",
       "d93d84d4c12f4e0e7d2e325c2cdc13fe7821bab5ef147a4b7e6f6d2e3a7a4eda",
       "5c71fc7b83a7cc275ae6ec0ea3d0193784be785ea9904e2fba5f63d9adc9d70a",
       "b88036b52c1a93b02211ca96826485e99585fca4eef9c7eb056d230f475f8108",
       "065d452f97ba4d42097072614c6f5b0ffc423a2912c2d30323e4ca4a4e4be3af",
       "123591c91d34e67483802a8613798416ebbdd90d4a72bad3bbe0583136376ce6",
       "efe4a1163ec69441cca7ab5514f92725bed9d20ec6ecc64f8188419440dbe64c",
       "fd4de1a0dcc6156b407bc3ffec59350306d541ce390486b7755fbca09066eeae",
       "1209fc2e88e8523cf1d1ad102343104168b97a1c994d74cdf11b35f9eec6b2b5",
       "ce658aa648a05a8497b763aea8e21cccdb63c32780ccbb010176776b3d474ebd",
       "baf274aec1f1ca4f4eea186f0fce207e0a4c3349f7d903b5c273c51fd24118ca",
       "e65da5edfdaa1530c25f5f70a08048cf3d623310f1f11dc29f691be07712d08c",
       "35e8a5bcb01c621fedb65c8f8b3cf7f495474ef06fc31c0df930a46a9474b77d",
       "e4dbb121db54b50734b69bf6ae1cdf5608e177d8b049713235e24f5f4b938c9c",
       "caeec3c2928df3e04ed59b735d2d7b67ab7605120c7824d9855c4a086b39ade4",
       "6d1ef2c983976f48fa9541e8503fbe34af1c4abcfc61f893bde3742e0d6f8cc5",
       "732b9dc9c283a201d6a506ce3e1a19df81b00f362d0b7d3c6e2e7f4004a74ecc",
       "f268ba91e8a404e759ee94e7d245a8f79e5c0ed1694845cc947838c661688281",
       "2547ad315d4c9c898e10a93e394ecb9974b5059b0ac7f79acf238c59a4224b85",
       "73470cb4ebbfd6e94b14148d4360078842b2e5d0faa8375e5df307d44f2963b4",
       "3746fc3a19643616b32bf94d3be0964773d077067aa3cd13714d0b07a691c256",
       "1fd6517860c0de86167d09f40e3ae8f26bf2f3d944e7236aa192360c924efda3",
       "2e296d4bf7ba6bbd64b0846e50cbbd5f834ce3945fa1ef9dbedf0f0e42310879",
       "56e365efca103a8d7df92c225397b913aa349248a8674c4ecab205f02efcfad0",
       "b2346b8293f174810a1a2b7b3c6284b9eedbf6b8d3f9f9a8909ee0c4c359a504",
       "801082b2483c2af462054c58514a53839fe2a8b6e29e2f3c647a2142a1a94e1c",
       "1a130b94e13018766bc8b424ae80e6518d7be4e31cac6abd26e5621c2209141a",
       "6cca30eeda7cd2e71cb49353fa6af82f6c60f5e9ca9e955281d467a00fd5d048",
       "84e171d07acbe1d0dcbaa27704ed22825a2b7f02bf61457d1466e9d1508603f1",
       "e081922521b82ede780122bf65d706a79f503f2e2ff028307dbf15a5c1199c63",
       "a15859fd4cdce7ec36085c0a2d33df23ca3cb1c95c5515f1f870ef7a33b988aa",
       "cc024277383ae1f31cd47d418f4ecf1da102fbb69446ae008b4a387501449901",
       "34334eab23ba848ddf42c46aa76738f6f6f8b61cca8a1fc549d88daa0739e802",
       "56dd72200c973e77158a64b3372b0af8623201bd8b7fd58659f71d19d3710c19",
       "44f1bc3286d7739e843f0ac557fc42abd03625fef9697da5520033b8df66583c",
       "6cfd9db69222caf369060ea1bc4f7cea189b4b57fe5f2b6e9e444578a69d3c94",
       "584fa1abed21a6a6b3cc673ab91d09480b64405ecb32f7761b61e89884c3d79a",
       "f6e931a69362c65780bd865804b72eff43877b77676bea38898853167249b458",
       "f34f693b3f55923d385a6e8077c5a34b02a8037e142c4e9dd29a45ff20fd87cb",
       "684e6ea430493c2c0f3f04376d302cf3964b56be80e911a724fa04ed3b7df5c7",
       "1ba484cd578ca44eea0bcf52467ff0156e01a0c33ec1970da26eeaf2ce571968",
       "8ae33a7a69804f77e8ae1e5d143d4f9694a3e4d7f02266fe0bed2f4b869c94a0",
       "c83aebb38ffde855f0f180b72104cd53b364029958cb855728d98d979ce711c6",
       "6971fc6cc19823bdf55514e6102c8a2ce6cb7a8d7d627f7b7b82c3377ead2e7d",
       "6bfb88b49881f491b91629bdf5eb5cf2fcc50164812e276bd61379e2da228a85",
       "a307f4434a259d1c67b17389f3221d2b14c32973788920cf2a20428fda39d65d",
       "124ec190072a7fd5f3061c81bed54e8730d64b624614d3e8971bc455afdb17bf",
       "820868a91fed5bdd4b55b8d266d3e1a0f6b6d45218e3bcc9f8c2bee5ee8868c4",
       "103c4d541f55e1c74219f7f9925f5a1fe94b99dd03b35d4059c0f3e2dc85315b",
       "dcc6ea6f31604b6561bdd3c827312f391b467c8948b64367a87ea325ab9ae1f7",
       "e3826f19d8bf8e52a46922c8e176d75941203de6a3716f695269cabe60a7bec0",
       "cfb6cc73fdf2471e48f37447c98f240319319975473a49c8c610d3902eb330c2",
       "c212cc9dff1d6402dd9f53962b2d9d7fb5ec09130332f4d3cff1dcee0dfa7582",
       "cf22b91947f0ba27f14caaf6183764f2f3783a639632594a5dc68d57b412a7c7",
       "3e370fd761a29505c0d215d0aa6efc83cd7b2a70e1c6da9a9ad624937fc4ce8a",
       "8a8fc09a4c66a4dc672318536a7a60cbd1e4d53efd542d095d95ac74c5ceb448",
       "5b0ad7fd1f57cc86e63b5f6dd9b88308b383eb9625897b9f1e81c3903a627c02",
       "e147a09ba747f9488461d8efa920e2c76e7d8d4d72a598a55739a5affd06e3de",
       "a1d57c67f3e18d0252e66cc937fe197b50ee430dc3caa3de1e55ffcd041d711a",
       "83477c994f07e6de71d46b8617dcae13140380ae5bf45b82407cc1c58daa4189",
       "d14b390659b709eab6cef9c67ea66558d983f0a9262f2d36cbf849aca566fb30",
       "8ba618801d6537aab826b5d6bc24e48b894ab27f65faeb0275cf1b4b7f46f3a8",
       "085e21a05389ee0cf50b06ee3aa21623ca337c8dfdb18053c17e95184db45abd",
       "eb5cde3a8be1ddc301ad7132539e27d78a6b5591cf1c04d7fe40e4e1391c1a0f",
       "dd30c6ea41295b22c67b9a191dfdcac562c50f85a55d18dc6b1ba87b85248e79",
       "eacd497138a384cd038dc901d06644206f10ad2b50806e00b537e2f7e8beb9f5",
       "4e810da7ee082db31d5bffbbc181579602de60eae262a4cc153922462b8b11a6",
       "b06165cc992331099777cefb71fdc9e6cd8b1cb292a3f2b6c02a39c9f2fba9e4",
       "e73a60cc840889e3755a927f863485625f4d03b2317577395ec5808613379407",
       "3258e0317a4171ea0449d37e5945da42d5dc84361ed2ad3a67a09aea65d15212",
       "a288f1ee13922163836336e7d2ef0354e32a602d3c357ff5e9b9eef14cc65f3c",
       "a343880308ff3541a792d9d2684af3b47b8bc9699b2cae84f47e5ed17f2a5941",
       "44723e0724a8bb1f3806d3e8d578b96c725c1d0d8a429887431c8bea5598455c",
       "4816685d66b20e33d555d7ba5cb880e9b61fc3bfb3b5218f6005fe1aaba2f2a5",
       "5fa06d7e420036d4aeac2a326a585ecd5d4b5cd413b139ab5ae01620f909e6c7",
       "b5a94117281d221c5e22f09e58fb7633c0dbc6d067f747ba0ad5ea2fb996c0fa",
       "6fcaf45a7c9d59d20d58073f9fd0cee0bc227c69ea4de89c0584aad67c64bb29",
       "cbb91e2939f381e10c3c6ea484ac98ab04f13fca0b04c842ae9c8fcad784090d",
       "a010368513bba3c72e2d0455fea4f861e77fc5d2cb763398db0bd5464350ebc7",
       "e4d4781630b25f5dcadc7e6839a5dceda60fc6c01c8905701ad34390a90f36ed",
       "1251eb00b14250727fcf820f918558c2773ea3af258880b1f2642746187efc3f",
       "0d3f2b68932aeb85fea493fa282ffcc04538882def2769912ffaa428a3043ef6",
       "131e858b9b7a71f75c1879906a869c538487d39b4d53bda250a6fc3ed5de9cec",
       "9e9bf81d894cadb5f707850754ccb93cf602b43e08ad5eaa13c592d8ddc8eece",
       "e728396a1d597de26a17667122b57805ce6ad7917a973250bcf0e408646b4b79",
       "ebb6dbb3e155d599d3f4dbe1bfa77493b76da4717d6273b8015d1f6aecfb6a2f",
       "93c98cc1c809dde1e70342b7d91be8e29309fac85ecbe5b229b1d39eeb024b5b",
       "ea80b30c9007b7aff33afa38b79bf7e0c6dd765cbba73f1a0f66d3af818dfe83",
       "59abe8cbfcc6e5a829e15eb551b87fea5caa4557afbb44cf2aac79305ac4b3d9",
       "49dc8e2699e3b213efb68fca02dc2ddccc1d49f0de093379cf537496e7b45e31",
       "2a41aae8d2b61f2e2ad6525cb741036a815626e80805585465cc12aa9dca8964",
       "c1d8c98ad691f55f2a8688fbc4215f0115466286c84a7cde26aa946c2c842ee4",
       "fe9d47283e4c846ab371ca1b8fff5afc1a0849b87983a773beb4aa76078de3f2",
       "3556b26819d284d96c1ac01e0c56ebadf014711828f2ae1432afc6dd076df945",
       "78d3e8798f851a3dc063908d17f507b8433a9dbf0d4dc2634d7e8f03427c792f",
       "b713431fcb4a11ce2499553116af4c6348162baf616194c5ea419b3f66d56ab3",
       "a373cca36d0446b9e6b4308bc598e714ec68db2722421895fd1fda7616e3c268",
       "7f8fb38e0895f16b8be59319945e522d6b1943368c880f9616f14d1916fd4e81",
       "9e946887fe6a69648b6e00841da6552dcf41bd993bd40709d10782686882048c",
       "f3f18f2ebbc07dd600e348998bddd5f68b21f20ff2efdefb1568721f35e16f18",
       "d9e6bfb698c1d5e0335c2edea0680010916b4541182aaacb5c2c656ca3bd65e7",
       "258d3314d050a59fe7f5b23121a42e4b3b40baabebd0f0420f2a1a2b4ea45306",
       "31008ae0737413b8ba5e5256279ec27f39a7f348d83f64a02fd2766dd7d3bd57",
       "c4957e80327eecb1a47b658bbbefc26ab1c315e592b24ca436fa4ea945fa5364",
       "5700b3364b7a3bd1a9eb4b7463f62943cf16e588bbcf247ab9e6960a7bc1644b",
       "086e02d2c74c052f5280193c1eff1438aaa5d751ea1c3f88444689800bd6745d",
       "66e50881a4f31c11c197dc56095d788a01b2709aba336b57a6dc63b2a0aa3cc8",
       "3c622b27dc2798b543408d744ce5fe0078287fa6c3f66687fb16745c32bd22bd",
       "4372f96cdd069de09b3a18bd2bdbc6c57a2ebf169f75cf93022233094f779dcc",
       "e8ab2dcd8c77074cff72502532eea5c54ac20c61542735ad3099982e3b8bba61",
       "f04fddd3b782e66a50587cff86bc21c16fb9fdbed3a1652e4da63f9a88e76891",
       "751338f05c20c8279eaa72427b60d76bc9ec401a67c31f42a910973ce98dcdf8",
       "d7e3fe9458c664eb89ff9cc94fe1ca548b29a80dd635048992c07ae7a7b250f4",
       "814f9f49ad2927a70fa612140acf7cddc0f91db9385e7643823f0ec10dc09354",
       "67952afb3a1899e04101d838a663a1515db2aa5151112d34b83321adde00f32f",
       "82c8b9f54af2b18361ed1181528a3fec7ae30c37c26502567998a669060f8236",
       "3589f2cc159fb9d1d39692cafc364d1fb0c06636e261d83e4a7c05ae0124055c",
       "d23093ecb1856283ec8c9f2c5c1b084e73dea47c24750e1ddff7cb9cc86b0a75",
       "5eef2cdeed49636cc89b9dedb18c6e88be7c41788d98e406532439fc24507116",
       "16a56ca4c158c607f53732ec62eac2f0e90bc6370f9c411ac06df5a0242caac2",
       "7e25443352afb6e23c319d3b40ce278936a197ec21bf6ecd0b50482e006cbfd5",
       "1fad361f042215508f5a1d0492e9342559c22389c523dedbd92e6d8c7eb855ec",
       "b5ef959293ad33e8c6add4d8419acdd294f6803e785bb0dd7c6728bf42048ff3",
       "b217be86aa4ef7f7c0bc7f6b84f299abccd0d8b85309c2320d5419f72f0dab88",
       "f49048042ff9c3460e53729b842ad42bacbac7c2bf7ada1ba0de239716e29523",
       "63b5e1f919fab56d99e7b4aaa9fb2e618909c1ee19ec0094e07b518e18d01a0e",
       "8f9671027db25ad7fddb1cb7dae62874b4aa0b09857bfede235cb30ce6df757b",
       "41aa469defa78488c352501c522dd0d2c7fa0f6d6d4adad9502fa4e4a30eb50e",
       "65f567d397b6c6142cc7eaecbcfa42b84ae2d798cf90ce110458dd93463af597",
       "881c0fd035ca9684b5f9a117c4cd56074de1e3dd0ce9265b3db537b4a21b2538",
       "8239c2bfe49508b9324809ec7f96f124f695d1f2f85bea68c540dbff732a76cb",
       "44c0cb49d208d8e9ba96ebef8b8bff9a3ad8aedb7fa615e3ae1e6e4adad33899",
       "99a0a60d6befa904b857a199861065ff18325cfcce860eb89c725c177779a58f",
       "9d40a6508aec1dff2ab856a48781aff4a6e0aba8712a297e95fdc664975b6a38",
       "63f1e595633dad65123c73b0b296fcb277272684398da7ebb99e48c19527a93b",
       "b2f64da5eba774bda4a33ce7871798089498f7bc2943bc5ac19b3b7c0a7efba4",
       "857937ce33b438fa92719d20fdb80373acfd7056d428df55abe9d10d1818b8e1",
       "f9d139cb7a90581c80c7521a3a6c66886cdcff06d99a861af7fbec82fc68d506",
       "46ae2d95a055a10fcba3fe71dad274cb980267abe619bfaff83098d5e58cb756",
       "6ede4a8022cfe1bb8d3a0c34a85f6df9baa1416c95c6b6643cbaf1ef2f689e58",
       "1bc0399a26f26ef123037c9a3e82a8090a677f60bd36dcf635338e043ecfe355",
       "a168519fbe78e54cf097c03c9570cc253e8464e3e12a5ab6abdc0c6d96b77a14",
       "9ac5fdfebc8df198282e348a560318cacd6b1309fc299cb3c3f7ea112e568949",
       "d8b157edf25ae5b9e90cfddbf9c5426e14b5b23d4a85ab764d34289dafd074fd",
       "e6510ee0fe445c910c1458c6812ca2108365f7b4aea03db1ef17bb0f7e93c036",
       "ecb74d2057615f264834db6519a969a5c0a7128f702b84709932c907ba098fb0",
       "7b1dcd316b53710fae4fd5df51db8d52be4d692bba64243a1035a207fe45c40d",
       "76d7a1f03cae6d03acc9ca37de92f2248e0fc72bbf7f957ce839053fd842c393",
       "fe800b7f0791ac85af2133a870eb8311d69164adff3d87521c9b5ad583c9fb31",
       "d3af429cb5d910a00b9bf1ac23b5361fe6f0bdcd77903288d549138d55b40b89",
       "9846b0c8a839e05da6a4ae0ee64debd518b6128bcf7c12dae2a388effe631fb7",
       "55e4dbbfcbc90c254337ada1a348d702123a62aebd562a0cd11843f3ad48682a",
       "c58b5a7bf6310304f744ed278b6692d8abbfbcbf877d405d1800cda7aae18f16",
       "bbec1e82eaedaf92a21e2037fe932279277011aa72f2b0434b54915f17d7ddd5",
       "415967766ad694cc9716735ee278433f171cd4967dc56df295a2113e058daf0c",
       "42f949749e4324e3c9999da75e5c6ba2079cc7927ce3ab502fb5c9750b28b5ae",
       "a3e5f5b67dfb7435badd91981952c6ad1dd4ed608eb964fd8d300619f8c37d4f",
       "6aa4328f27624423bb4f4d3c964b286ee0f5ce1bb14395a7e7635fe9208c7247",
       "a50412f5490136b899a8c92fb608473673a8bf31750363f75ed2b42de2775a49",
       "a4d5901bb8755480d182fe3dcf14c98b382087d7e7eff2d8c1dcf6b00d76b02f",
       "25f9d7d66f60e953407e20ba694fa0a2b9d64424d00955f6c58b7993dcdc4ce0",
       "819089bca1a3dd146112c760125c9c1f4f51ce2b45e3f30d651f37aafd78c0d7",
       "35f1f7bbd70e1abd4f5c43987fec090c151fdec7d7f852ebf5f8e3ec4f9c8bf6",
       "161b362dde0a0fb7358a84eabddab57d7f288348457b27293de5a4d2e82ce5e3",
       "f5c5a9272b8e170e52e4c71ea7cab14dc9050f3b476f242591b944c240ba2831",
       "0b80effd4d56657e28190852d05f91ac536dd1ea5cb8dba85e4f482a4e965105",
       "d6cda861607bef7ed257e699c0f7a3ad9b06ea76f7834d50692257ac3f1f06f7",
       "340bc5e1533ebe6505342aaddfb7412ba4d3301930cf0b423c60939b74878c16",
       "2185cc465838fbf2c0ebdcf8dd64125694f18ec778005af29853fa16f22c9a32",
       "788e3d3361f257a6d08226e8d40e4b48576edce63b8be9fe0fde036f7828d5c5",
       "21b37a6dd3f0d23068eb7ed5271c171c2270279ebea799c9ee750dde19800c37",
       "2d1e8c76735c9f03cf2339c70711d36adb6e6b6c4afdbf21e4d483c6dc35d81b",
       "162c7a556cc23107a513a6359ccc59ca21a8c65b6f6447f307fa257327dd2b1a",
       "f758b86b02e1a96c778a6a49e444b5d9b448f757e01e22f065883a60beebf83e",
       "e07cc982bf02153029a8fcfe2657a49c74ccbc8dadecfdfb8752f2d84f368af2",
       "ba98d01dafe368005d58991eff2124bec812ec757bf38f3364cf11e1a906b7d8",
       "28c22ff7a6aad0b69383bb3d2d2f627b5375cb3a6eafa9b5e5619079f93c12ee",
       "81b09713d5a304321ab338582af108a33999c67fcd01ffdcfbe3b5567d8452f3",
       "ea9a0c6540393da42e4c25d1e68b5aa284a9245b6952b61751221be43620c72d",
       "274df3553c365f47274d2f06c2bedf287944a2deefeb6b816e8ba8adedefe050",
       "56072d1cef50a7381f582f7c1a57602a4783cb7283cb8d34a3726a9574ebc496",
       "d2ec7c3258bf899111cc2e3a322bbc808b34322906e51b77465e45cc18e16704",
       "1c9f4a7ce486773a8b7f679229099e17a47b05d8e0e9ceb1738902d31e34036b",
       "a5693f3a45b31df195fd9559064b7559d3c3747f6e08d4d5e8587c0e20fcd1a4",
       "80deecced8de63f7fa1c21530896b9831b1ae994a3e1932806e662cd0eda99a3",
       "58b5e502d9e12478524c95fa00f7b8dc4340da4b23ecfdbb1d0f2ec0d2194bce",
       "f863f018c415fc4b9c734f5d022709305ba563ffd5f29bd72a26ce0b26ff8e54",
       "dcfacda4b01a63e53078f1f36688de59cb0a7b6a95991cee6fcc27edd303295f",
       "54f97455c87de89c8da1635ff5fa31a928b45cba9a7d28dde271ae204061634c",
       "1a2cc9cf37c3f31315b83db58bd69f38ab68c18bd220baf8ffef07aaee01f9f5",
       "b4d1d8e7df9fbb43dd657e6c337b556965a6ed7dc566b9e8ffa353906aac76f0",
       "c7c1aa6ad453d5802dc76881b823a4bce39a839c374f906e14cd79e273205049",
       "8572b3fbbd52b3b5ba42f0ae9377ca9aa8541d7d57c4b13a0077be352fcdaa0e",
       "c22bd058236a0a2a8e2d515e1e82ea11b9ee89417e1551fbcd9eacd64bb45a68",
       "be6da8a64b0522675871b6862ec86629549cb782975fe27ba8342d51bd739c2e",
       "afa0e73d9b48afdd8d72860afcd98926160661f4c71176f9593da204d5e7f70d",
       "981348bc61371706d2463e27522b7ca5da61ae7801c52e0df94d4dab438da942",
       "b03df0b35a6f5611d56c395305a51db5a381b2f9c4bd2090fa8ed6acb1b80326",
       "04f83db448163d46cc05d0e4a9febcf67b08bb32e8f0e0465ae0b494b3aec81b",
       "6b6f521223fee9590454e43d5c60b0d7ea931ac941505cf8ce471a617c4484a6",
       "224e002ff5cf82ea95ed57b0a16b2a3b628f21641fd7fd4180d5f1c24d0316bd",
       "42d0ae4a40194b74e1115f7c49e50c1e1beb15665eed7aab369252ab79e24290",
       "613072a23307c1976fc5e5d12e3ac301e5b842aeb45916c94cae025132bb0943",
       "501505d6a13376a76aa9f36243d1d4983c7f0978a97687f9253425fd14fd0539",
       "41ddf848015f6270c57ad2bcf684e0dff7bd9fe5f3143f6df12fd601a41a356d",
       "34ee090338081e69f1efd1508e7a95bf40f00bd603c842c3a1f919abc3887430",
       "32ed9eb4b9d2d30bd46bced00f4914a8982b30ebb51085c041c6a4a66ca59b07",
       "a44ae8ea4869d529f9fc56ba55c3595ea722845a49cc39a443997a91305792c0",
       "c36a53a7d2df2f6aae3605d99f4c1d809566dbd28e0d9a12c2379248a0819f1c",
       "d80e176b9dac04d76f6fccd5c61a6dbe4cbb8ea8a672fa23cc999368ef8bd8a7",
       "22bb65fdc729b16a20bfd252019eb865d9bc6113d4653ca8853572cd4045ee4a",
       "aec64a2290ba445e1dcc5763dbb56a4fdd5c8b17e53017dce1472206f4f9b449",
       "fff1d4a81255301f20c5e50fd356a9c3ba1fb7d12666ce7ee778709d49c4d69c",
       "0f76e72061b180c82911a2ea21cc47a623a1da7fc88380d6170d8e07523a1183",
       "1dff888e2654e08814c923c5f3b153d06265b90a35589ca6854bcdba4923a0bc",
       "5ef9a110c8cac5aef18b68370123e5a583206c644581de8daeb6607a70512213",
       "7094bf346715a07dfaa280a62c284d73f9b9b3ba0ae06de965961625f87341fc",
       "5ba1a126ce637bedcae88ea653a8a01fc97d7bdb1d34988ede19f42e375d4fd3",
       "45d6a469e661d5b92b7e16de799048bbda58d2446ab8f3e84d64cb996568d66c",
       "e87a9dce7cae38e73ede6d074f804297bf03db57615a635955c9d1b62d7100d6",
       "51a1abb44da0634bac09845be5661622bc8b82b2ddd4e9d743e1a99350096c1e",
       "e04c391c454742b1331f7eb0c3d265f8003bb9b3cbb39e18a3b03f9e54b8161c",
       "800d86313b7918516db153cd13743076a0b23a2fc1da93a8f1a137a03e59d400",
       "eb11a1516512e5d7cdfdc18ed90a6510edd0736365d9c815ac047d22cf4674bd",
       "269c981b013f55b94c2b7a20cecd56bc5ac23e8eaceda7890a04e5ad25bbe126",
       "2165ebefbab688e1c13c0d242d9a2f31e95f13c8dbaa2bd49fc31929ac50ac16",
       "80c8956f2752bc3b6fd07bfde19e1e0c68b3cb4a7b3c2eb9178d3b5473bb72fd",
       "2bafcece3d2efb6400c608d4962081909ae003158803fca244eafc3ca0e15ee4",
       "77f327d8286738e5ed40cac0ff1197ce2ae023aa635a755ec137f92e21c3a13e",
       "2b030bc70539f6b1c7bc0d9f641b4cf03f67c23c7c7abde1f4ac7575607d5568",
       "1c9029513b41d80c48179ec4485d5125d2bbdb24bdb8c6b691b27d6c14b86c8b",
       "46b467100c3ee0b1d5ffca21f848b1e7a7fd4de14042b8763561bdb8f300d829",
       "4db3553705b39c716e861232e46dde1e54582962b86882b19eada05c2560bc98",
       "5ca776002816d6270a151dd1889f81c2652910c658daef8d97043f7c8ac926b5",
       "9e449b0c2a72c128e8e0e3c5a2c8a0838903d288c8eb48c44532313b13a051a7",
       "704e1555ec14a9fddaff83f2c7bafe718cfe98659682753c68b0602edbb476b3",
       "489a337764d0014c1baffe459e3d29f353d61facb59b19156cc906436a879091",
       "fcff51d95674f3ac2c41869cf56b08cd0bd82a6ed9418d615135959486ae3013",
       "ffea8ddfab755223047fe22559e2e3b053ec91430aaca0d23be71a5c2c1cd808",
       "1205c91513e8c6241aba65c8043ee75471425e8f14eded21cadef3ed138054ac",
       "770c3ebc03bcc8f65feac68e345084232e91346b8830c26b72eca6dee449c753",
       "ecba7e79812718e223c5119673b5bd2d3e898eb76f98244c134c64196f3e9c2c",
       "af9901f3022747e5f23266e63c5b18926c81ac4b8100dd4a833b7de801190169",
       "dd4e8a2958e9b3408901ebfc1e81dbc7ef4341170e5f74d930f54a45639a1c22",
       "20812ddfa5fe5736eef083397d7fe38e34e605f460102a05dc3e6eff1013ea2b",
       "1ff96116f3f08a5a7be7cdba726f186d061971a6ab1f9733a48917902b6aabd5",
       "80918236b9eb501d24a7722cf478051e19cf3fdbc6a9fd47860185b8297df3ac",
       "a523178086d0d7eb2e306c15d11be5cc2de30f0553f5f9109ba8cd504e3930e2",
       "4348d13f49e1e6d18916d0e4a3fcbf58cab98f719bcac21691d5776fd41b7cf5",
       "3913cca5a4bf856106d626ec6f988d0093e2db5248004acd73a520a79ca1ca2a",
       "68f2d424215c4aaaa4c0879b5a06b62795f1024f09a653b012966382adf95655",
       "ec846665ad935b4f7a429fd789e969f26fb7b3462f41cc63301e16b2ae4b082e",
       "fe14fdc1d5ab66e8d5ac43a511f2ca55c4a7917c3b19ab200fd79ba725530a34",
       "8c4db39f9cf817eb1441b93b61d77f6966aa67c222c5798a77ca8e907d3e7530",
       "f6f36482f5d869207cfcd2dacb0f84ef775eff54a9b8f995c19cb8e78659b199",
       "df80accf94223d5d821317d555251133ca8022ee49ac4ccdf07e3193b15423ac",
       "133b8fe68458a7e1ac3c1326f35672f01b23781202aa2234f1abb974d340671d",
       "e09c24dac419055b9ff332da7ba914f01de51d104ff1702e3f1b6c8e444ffc67",
       "921cafdb851c156153ebda71cd60bf1042217dc3579b7594986e020b2cce713a",
       "20670d97e813a6a63792b955d89e94f7e573d15b02d1a41f391702950134d96b",
       "debbaa6f43097a7327e01be3674cccabb9753535532683b1572e6bdf16e53929",
       "ab943b0510a4d930dcce6b2ff29368b5580cbea31cde13b9cc52f0f1a9a093ec",
       "149a92d843546f886a5f88d21f03aa1c8a34115db2ceaaeb50fbb4cb3c90795f",
       "c4da179a8263d317f415dc0f78da1198a287854ff6c7f37e1bf760700a6abb85",
       "23f589c5e554d9a638d34c2af8a71d25e07aea90ce907ce0dfbc79927dd5a395",
       "77a698312f2d6f346d6fc363ea7ff5e3fd5ff322f3d2918ff2ad297c6cb9b147",
       "8d1589582b7796efd4e54a11743e200697340da7523cbc38bb58fe9ea6e10822",
       "7924c4e63f218f28e7b9b4d306c55dbb38d78212100d8311bf2e8db1959003d9",
       "1a96a46d7f93adf516907daabe69ce4f95022d0759b3d46bd75e3239320ff7f6",
       "469f68cc3971cc69f71f9224681ec585139d281b1535fe2d7b4d8e1741a41ecb",
       "53dfd80f76a274c52c22f27a904705c7652826440c429c7e9f6fc6123c7f8ee8",
       "2c51517f5d15728e5f1494fde4ef43f6a2cd432abde44f37b33f2a8d78ef24a1",
       "94a170e6947270a0880b1a650784c4fd300e0acbc0d025745a64db6a7feb321d",
       "86f866ad40959788bf36f223bfef4956bfaf274037a0919f7e03ae5a73b74bc1",
       "76f7429252e31b7f5b69c22ae478ef6844bffcf2456983ed0a1ccc6df61b1d85",
       "f17dfc78b452b00139e7a3c458ec6ec67226b25b923202d7c740767aa5dc6b1c",
       "710754e113d599d92eef00627727ca8b937f1640151ab10bd02e362a8b5172ab",
       "eed747990f0bf57f83e4d7a4a28b65094eb54c2930ccc80cda5b55ee7bffdfeb",
       "ef2be553f628e15bfc6066934c447c9c7c7ed8541ee135fa0f5c25e5a57daa36",
       "d40cb1f3350e0f32294da24d65eb28cac651306c18f3cdd92dc407f99d79d4e6",
       "fa964ead61fc8462f5720dec1a79ffad44298da7acbea221c2b2ebc925d0a381",
       "3d3a86b02c36c18f8ba36f81625c1d0c3f2b02475e59c88aabcdc3e40d616c74",
       "c60d9bd13abbb0bde55c61f9436d982f50c3b37d25503b97c0ea2ad325cd2b0c",
       "0c484907263a524646113a15a7ff54c832d68282910f710bfbdefe48a7d0bb27",
       "ce66e33a04e5a8d9078648ba2a1a356a510e435da858cc658a2ce534eb942456",
       "22d72c469346100778342744541ce3b677ac29c02d137292d6542c49df929015",
       "2d8fd2dc846ff5beb7ced68274d1ccb4ee6c0158b799b45be9c02a27ef68d0b0",
       "4a9d8cba43b7c76aad9fb72282a55ab5c71384a3084dbba456573be65b5af6b8",
       "8744b3c43755f92eb74980fce5abd86f9df5be72e5b2e95436d44b5d29bed321",
       "bd546387d8f77a8170695cd62104915a3c1b4a0ae1cf6686d178ec99bbe557dc",
       "2925cabcc22231e58220c9b315c039ac879fd9a01e14e3e1e1b340d13530dc83",
       "f38e92b5120a27d33eddaeb4178677cf59c3ecc2d85ff48eb89021f1630e2f25",
       "0b49982afb2f716824b06ca63a951e86402fe61248369db53eb493cebfc95663",
       "5cadbe5a7dc5b9cdbba0db5ca947163674d5ace28fc77dde0b9abbe3b0b753d7",
       "f9813af81c93612de78b7c2dc81ea79c9c4bb3a46a33d1a68195a79467be8725",
       "893b5c69fd44956d99848e442f2bff1f1cf9394255f9655564be821480f92900",
       "e369493a87165c071bcec19beb46ae48bca4e9bf009a1cb0afe0c92f803e0444",
       "955716d5d81c82774b8f3ec46128472c09bfbf8ae12124d95518b67bc294b83f",
       "c20aee6788285fd8bf7888e1e7e6f5b524da9f237a3f8df3afef8775cb9a71b9",
       "38b4ba85fea3d2206a873b1e92ca5c2aaccdcb1b47ec747c95049fb66cec9cf1",
       "e8edbf158e0d8e62d5997e88fab8331f3727eec5dbf70970b21b505e5a2fa517",
       "54166d4b2e46b53bed44c4e8a7ff19f120661e2d404d9f0040a1a1e134056e81",
       "adae17acd44e3da0d8f32d1c12e985202d5aadbc9596dec59022168b01d467e8",
       "4164ba24a9e0c698888a53effeefc5b00b7fde79468d9c28dd1f59f54d075147",
       "adbf78ebedb41d78533af67d3fee326a19314afb8dadc7deb949fb74d0b7c092",
       "0a74370325a4d8f4ff0e18119adef605c25fa01d849e7e79f7ddbad14b5e9d7b",
       "31365a32c35a225d2b1d396f595ebe095b43efff3630a9dd18c83f17acc2a1b4",
       "0a84001ee2c050a7aba71e5e9f73ae84d8b0f2c72ce91dd10d1654c5dd3368da",
       "c197a0c199dbcfa21465bf302dd22f521ef07da7f0160751ab8b368278fa046f",
       "1eb2d68a4d11f1de0c4bd0f41e95ea020038ea83590305604e3688f97aecd8e9",
       "cae5929f610459ec4c77f5da634bb82db76f498ff4a9ea4d712e34f64f09d628",
       "e374c0a501dbe5e8fbb06a4f362d1d05d3410b2b00b07cb9a992d4137616315c",
       "6f2eca83d05f40107996016893b9fbd3cdb8720dfdb3b7a985db1b621d0ec038",
       "fb6d02d3622da73b8f1a8a846394d833cfe6c3db950dd036b6663fcf7d7887d6",
       "4e55f0b7f350f974d3374e50c6bf71082bd60ba3d01d2d237a0e6f3eceea4c70",
       "3e831cb5ae7ec82f8fe19435322631674cca64d902ba759d112a0f303b3fae0a",
       "89299c7a3b5d948a4685b6da2550cee451f62d622a49b93e64e3aea1fd1dea35",
       "6831c25d40eb31165206f4d46bd365a3873a85748cf40359b7c1995424a8c864",
       "c4a4a42997cf488e629cc6eb051b2d86109212f1dbeb459a5ef12e7714a973f6",
       "c37629926dd5abbd637e5830dcff0d4b8428017e558207b9e1cfb337dd26fe1d",
       "5735bbd12c3a576c6c3516296a8cab50ecac853197324b8e41605d3fac6ba9e0",
       "fab801e1239ae3016181e5685357d7f6746791a10ea8377a24012732c0709894",
       "cdf69bec49d6e7f85d2ceeefbed8c31ca09160e8021e0e04164f2ff80e24baff",
       "aa30028baf7641aae739e25e98f3c5cb406a2a2f32d9e4766b13356525ddc961",
       "c1d93c3919d034bf1db909e02cd6bdaae2fb7a22b8c9883990b746c87ae9c256",
       "1ce23ce33ef120040c49ad4788a50253b65211649c461fe0c3d6e2cb9ad5a78b",
       "5692a6ea98bd0c3fd3fc997bdf17e30291aab4b1522b860eede0c487d56e2969",
       "e6565028548911e58a34c01deab4e00416d6db13c398c55d1e4c3971fb73c551",
       "8648b3e3464d3ba2f617b822315ab1fc06c0c82d1a5f8ca86807759d2d61703f",
       "3b507c856ff70b64c69be25d8ca9babe1e49953b1f9c32bcabd51c84afb2b3fb",
       "adc62821747c8f10f3d16e0434f8686dba7c9744114610ec22065b497d950523",
       "a9b89ad4fe5cadee9cf4918349d374e0bdcc7a71f4916881306f948a493da761",
       "66b9aba056ab66bb022a4f8b41c92c6ac0286e7a5d5035e8088d7c59d3dd7c8f",
       "1b9acba69179c14dc79b0bcc3dd6c26fb41796a9774fb5c85dc59ad51864ede0",
       "5461998f954bd22097b066f1b4ce80f124912651134dd089440b8847e933b760",
       "95e9c038aa260478459df2797c166079f837527069e142795536eca09e84630e",
       "0f71ca66f789675440afde3b883a7c0040177b9d50389f310c03185be6f54cad",
       "0ec77e87b932a0b87f7bef10dea06f663f8011b2a9a3c508ba5f625c20bcb129",
       "50e90c163dc332faaf3a7eb0352f5608ec41c8e56bf52ab3648cc41d1b99f433",
       "9ac566424c51a8d167765d60754ff6b0df92a70738bcc2c6c416c65feb92ec48",
       "4aa6b5b924598a9bf38f4f7129f05c345fa6d5b56081fcb1ccdedaf8d8f2bbd5",
       "a7e5bf22408d3f58ca81b327c6a70ea52109d7b49430eb1900bf90594b86e95f",
       "a48f005ef553552819e091e18881bd7d93b66bb771a5db6e87636099a9242417",
       "c1937326a398fbaaca0594143ba7bfade7578e2380e0bf5e7ac15459593e4cf6",
       "625d9bec63bf82f455f81892a11aee8becc4ab06bd1db1df25448b80122b5762",
       "9e40571b9eb1ca1b5bcfd9d99d692ab567e462e03c3f794d71cddf38271336c0",
       "16e4c800f7b7c6ed292d44f0eab95b1c4c8847d1530f9653c73951907dcc1a35",
       "1763ee06f429be6c31a90bdf5ae22b76d1c94928644ca03c64624b595b313274",
       "e9473829d5a99594fba2c323013de3e954b1787861833627ca3804fee7e7936a",
       "62df7b57adcc5b8d1a121edae90821805e5f872a116796db155bf44d630e64a3",
       "93b51217b47a00814a676abdc0866dbe7aee5ce6beb54821dd4c85a9130cf5b7",
       "5d33f6ba915cef160ada973b9b6c45387598c7bf3c10a88a7976ba981adb9780",
       "27d6b9c18c4b519ed17c5910744ad27129ebdc7484bcaf0f7ba5a50deb7ffeab",
       "d89f16028637ff47d3675344ded7695a33f393db805b3f37819c8e0e9a6cf205",
       "88cbe748c48961d4e97fd96c226607d9389a53a434e86990247bbb04f335fd84",
       "8651238338ba4d6577b909baab95c1f34ec79e396058a8b607aa7f38976ee7a9",
       "9ba50fba523e2e8539f8c563a2acdca71b013e6897225b6530b0af35513554e4",
       "01cca0050625d9dc479cf3877d03c712ea7db1278e0d395083dcd4d4f9489a9a",
       "5bc65a332ad42dcda714047983f8df379f65311faffc5423037bed9ed295aa52",
       "8e221463a8c161af7564e9c159bead781aac3f3506e72ba7f7bc14dd23ee217b",
       "eec8680fd9df1ca39ce37ff60d114b6f6c612b1867c40dd515539ab9cd1d739c",
       "3b076068d1fa22e325a08e025a110a4f2edddf2c876d7d184b5c0efc457ea94b",
       "5b599f1652c3bbc093bf1e9d57125b592fbd19b0c2b520b020aac7a1ae892ea0",
       "159a43b8a031c64eb52ea9ec6bf3970406df5498d7819f6cc774b403bc50521a",
       "d5d96e0409e47195929ec98312c1878bc14e26446d95d17069692ddc0063a212",
       "0108996fb9ec715f6f7d7d832ebaa71304b6438410b84c9d18c98b1e500f970b",
       "44931246ffd69c9c31ca2eb0ac62850554f5260a1cebbc33e37a7f81d605d005",
       "d3be6925e5f84f619635187786b6923d8e61665cfe18f5b555b11dd63c793a11",
       "bc155c45592c08c800ba66f607d1562434da0b73eb5af8b964d63b589f0b125c",
       "aa44ae61b66324ba4b829acd03aa1a8acb152b87b016f353ff1a47d74af7ce87",
       "36797aad29d6599190f94d6f328c5a0335e157334a61448ae143500abaaa2228",
       "56153afbd80ff62bb87173f17a71562b6a0abd2b758478a93f33ef94b36351c2",
       "f2b720eeac170a940a4bcb00b585b07ac4a79fbdb667af5f1407abaf3298eff6",
       "ac608ca9583b7006f0d615a860b8e2d8f4205a09f1974256dfb565e929287abb",
       "48fe14130deec31037eb64de7780c9c4ea06cf9ce107692e2e6c90a43378bc0a",
       "431b2b00cebd6700a252327ae66b28ecd949e56901a385ea4cbd105db41d8490",
       "6359525458b6fc35f61cc9327710596933a1b9007af49197819e536b8dfe4ea0",
       "68e7dd9b3377747f6e708919a4e0935c85fa7d8aab82e8f12284ef3964726b67",
       "411da3cac2ad4b6bffd0accf096a12800150b2e25ae883808affca2755a9c37c",
       "39e89e5d22dae6c6c893c73e37ec395c60651945985c656cb0f687c627992fff",
       "10469cd9ceb659a2f4585c0bbe888ca6d4b95fca99ba4d78943be6c7a5bde115",
       "5c70936087db9027d3fa345636554f8770ff049f3605e33af60115de3d268756",
       "6804e1f38519c3b6193473c97de9415da9c6528899fbcc7eb1c90c765307d842",
       "7fc96a7f484a9c33da242289baf89aa61005b6d9651aec4cfc477cd0451a17f0",
       "cd4606eb475552b1b92728b022f7b519140ba8fa43db72526c97f62452b35ac8",
       "c691e8b3897ad5c56dc08296919f3fde32a86b6fd06bae8cb81da3ffbaadb71d",
       "2546dfb76d406c0591b111dab879c50a3549243d3a79d4f8cd3e230e4766f84e",
       "fe656902bacf27f1c5bd7766900ee503ebab28c6f281f39b288abd90023afd13",
       "898783a350b08c154ed6c536a2a749d79d253feed424d9330e6a2836fa860453",
       "654a167a5af8426d80321b4c218363efbaa20df57ae82c30591a9da224097662",
       "1dda41e0d093e78ed12a229fb85324fdc08ebb0c10158023cdf4322ee452a2fb",
       "a8f8551e42902d38ba30bd3d637f405007f099bcb0c8e4817802dec1e84b5221",
       "21605dedcf2cae44356f6d6cadb0ae049ce655bab63f1abff2947fc004cb2cfa",
       "17627e40fcf19c48a486b349df5519c48c7f3e53e81c539dfc86093ac696d46f",
       "08ed7785f315e9bb144385d5f02d3aeef4d47d93caa438ee0b6c8dfa937a03c5",
       "df823ff3c35753d8d01ae6460a842b358d32e162e0ba24d7c25f056dbe920ef8",
       "ecceec8ad4b7e6674e43ecdf3071cb2b0264987a3a8e6b6fcad86d90d095070f",
       "ff918f75adfdb41d2b49594839517d81cffd8f4972ca51b81c27b4b130e45f6a",
       "f128d1f458aa2e0cdce434fbf09fcb0b1a737420336d5164110e03094cd1059c",
       "0fb7f2d4c968082947cbf0499458a5c53bce8e42a2c6b035ba53d0d75d88358b",
       "e057f2acd93243333e2a6a32e73b963ecb9fb8b06c25c4cf1320933ca27ff14d",
       "bf2524ce9fafcfb2edba565e371f4cc5392ee6044dd3ec21fd0d5d014e212375",
       "0dfaa821bba91a455a55444d79ecd41040d2936a2eda9d7b8950761b26ca7bfb",
       "28f00c66a02228e983d88deae35adb1821e74ca040162d3dfaecaa49d4bb0188",
       "5fc509968a944b3c09d822106e1422a5f189b747014ac0657bb1d89374c5a3be",
       "9f354764613f11121abe572a20a9989740aa991bff40b3ed6e809e717cf10618",
       "bc4460873b739a9298244463beec663e9a60be725983ccc359ac9fce692113b4",
       "5a27600146ef55d165204fa665420293cfcf600d4250a0cf123bd129d75a11ee",
       "80b73599a47c59e4ab3626aba77f5542b290a50b9c0c3a0585079c630be9ad9b",
       "6203082df67c1023198fa4017d58c262732c42b0f4c33167da2c9fe7da96a016",
       "0bdb92ce42f84b535e86e8cf69df3498da95fcb12de8db07fc1710e299863b12",
       "b559b1b0148480d9d81ba4c08e42eb3af2016d9fdc51366f96de8efeb66c4d1f",
       "360c98e3a3f6d7da2bbe0b928608fdf053512ee94a4c80e5d01d3d61825f227f",
       "f0667b5ca643e35bb4faf5744bac5d567e558aada243cce1c86195315849720c",
       "675cb2c5e975514a02af7f89400fffca870d93dfaed2d97bb45a89ebebff9c7b",
       "52e6ee16dea69551842242359048a00b8f787b4c241d4a7dc09e6f0c40d0356c",
       "047f15be06b87ed7b8cd0057a7ebc19fa925c5c838d96fa1f019a68642e662da",
       "7854b39bce7199577399c04b54d338875e50b202e1ec5376ce9a681349904a76",
       "fe5b925eca33147827a3ac2e551a8c7e44ebfcdeb94db0aa9089ff9c708bd54e",
       "4aed73da7416804a694de76a7f308025425997cb6887f17f3fc4702d2bd6aa97",
       "8776a8a0b3d08ed8e5cf921eb9c4b396cd090b244e6a7f21b3a6e342036cf6cc",
       "838fc0da8c2e2f42f8e1ebe8d2cefbe74b2e82532d21bcbee4a3a670ceb0ee22",
       "d12f472217afc0c6fcc3e633d24da4d01777eeb6273f819c9bcf0a8a1cdfec04",
       "51ec37663784530f2d788f735924c6d90312710bd1a48025c9195abd6811ba42",
       "21ab982dd0de6f5866a59b18cf682d935da9a31b1d70980ce0f0370fe4531f3c",
       "f38818d85e9b649152b0cfd7d9df513752517ccd0dee015f7ac3761da0f6f33a",
       "7671dcd47b337d236dd71daa553bd9ab9538df49c86f24b7393810bf48abee33",
       "ff8e1e1b8d0c6b992631d025ba12cb6cada17acd06cccd5e21c636c154664c08",
       "36b1c93530ff5580d608cc5c2d139d72aa00e34cd9ca7577efaaeb967dc635ff",
       "772c91ae30e859e7354da871f1ad7bee2d56f846fcc832fef955ecf4ebf7bb88",
       "a81c0c3ac2b2bd2c38a40528e20b1a5afee692905a3a79bdeac4880a5d28c944",
       "c8c1514f837d555812fe982e8a10bcc74b2ffa6c8d1a2031b8c3f3bb4d4afd5f",
       "0f45fd9db38627f6aa270b7c793d2d5be49dff48fdca6ad2e925f1bba2103358",
       "847c499135ba451454910782854baf0124648f140406c4418792257192e7e6e9",
       "4ca172dce2fb053732d77e7963e2cf9ff6604940a0258274189639a174e90f37",
       "69e896fcd7951c8709f2c67a13c984f8b150b09f0b0b7267fa2c46a2903262f3",
       "628c1296099d52902884e0d611c952ed0de39be1e4874231861c62e1ad121308",
       "e1cc67d6aff382623f030ee2ee1927b9862b22cfef56b97ff54262bba01881a2",
       "fab89212326482125ce7348cb4c2afef2547280d573b259d86777af89c54731f",
       "d18fb8c1ac6dc50196e6626572f91cde94a8c8947bd37465551036a7ef68c193",
       "a5df3f9cbda6adbd6dff3f2d779d898b14e5ce040cda47511c76b8643897f951",
       "5210c259d9f7e36363ee8f714d4dbe6e47e0f862e0cc03e9314958e6ce56e99f",
       "5a02b7f0735600ffbfe23106767202a7e7944a0993b29b765bba692009c09f58",
       "08a1124f869285e8ed493020fab470d2793756c56ebcafb153ae67078535aa32",
       "c9b90a9a8f6d263ef672cd70f423dfda0a75d8dac2915c995cc102f7fa4f8ab4",
       "5ac68ae664230311a483dcfb175e77ec9d1f2d1dc886b41b04d8cefee43248b2",
       "6889ed656a74a8a282bd90003d25648672f4dd09f01dc5bda673af7c025c0b18",
       "16d971cb7a6cd29ca37ae2c7c9a81a11acb7d63ea6a0a963dc76bb2c26179bff",
       "37edb35d871ef0759de9231d8babb37dbad1c99f2216ec808be8f7b939b10775",
       "8ee1c6fe3d777165aeed7a77300fbdedbdae2751516a6c36ddd80c6812a9989e",
       "cdfd91940ab67fd3a4fba78250c4a2d1a3a718d0073caf7df71989c99ba0dd22",
       "c4671b5a687b503cc92eebf6f7980cef1110ffd897b755c7f9a0e63c6dfac416",
       "f25722960437ebedd8cbdacb338a9912bbd06638edafb591717a73d296b83927",
       "0304f4077dca1f102da1fc525a8d60c03f62e357315b1ba9e72c1ea87a513108",
       "af594f4dcfe9726959300496426259864f65d67e98c14f36431af2931e1fda4e",
       "a0f3e67673daca43319b85281199d6772783bf721ff85220a647e5522d868211",
       "61d76275a2e22fec6cdaef0c27b67f2ccfc093c4b20043d386a9b7ed0c77ac82",
       "c7df2bfec3d201e95f00cea1a14376a7ac574c211d84315ff1e501df1e7b9e6d",
       "e1b84ad6b161ed00770209c71c303bc58427df832fb29e82a311ab93193e98f2",
       "1a47cb695928c15f2b80b8ef0a4e1e69deedda2b18149c8314d09b14e798fd16",
       "6720ce184f78513f121eea0a9822088b8a929b675aa95a885dc14d8f28149ca7",
       "6df61c8d7ab326c15cea3ae4d96c2516ac97738ff5c70008ab139ca4ec3c4be2",
       "2b763b7e2ffa1d0132bd11205bb3c1ddc17e2f7dadcbb90f0191c419a6801bf4",
       "2ba2b2bf2d5946096ac0cc586f252995c45dced043f71755e03faddea41a1fa2",
       "d37a08c1e07a81578cc219bd726e408837e847c021b2691608e32493689190a2",
       "63937e565b6049ab3a3ce42307ba3b851e9900ed3f517729f13a3b9b86c96c90",
       "3d03dbbab229124786fc271b498b1f92f59e0ccdbe3a49cffba992e91c127cf9",
       "3af10d8bc0d313cb122c25121f58e01e6314829f2d67f1230a0ab7ef7fa33e8d",
       "10d584ead7f7d8a77959ba74397d3c139ffd789968488084b86ac4a2dfa28701",
       "be028c70c6db2994d1198e9ae31a051a3d299ac87c43c7d315da07ed12ac4dbd",
       "1435dcadb205c8cf9c6fcb670fcfff47a9533e610fde68d5e2d79582214e5dab",
       "7498510ccdcf78acf15769d6d9c3dc205498c7601a895070739e537d5c0338c3",
       "49ef695e3ff09c5da07b280870cb0d50eb3b8f4f260036e5111af4951c9f4fe1",
       "86a7c1e3ebd1e232f97449770caa630198a1434dc6763292819f34f13651b809",
       "d32340c053e3020beb65b1b940ead4e447f014242967d9d048f9317aeda79bee",
       "236b99f77ede3f2ecd0dd856f3374acfaea4d43075f370510729ccbe9e09144a",
       "24ef6fadf4d82e1cf6ab5eb0ce3fd90b5ff73b5a17867397147bfbed2f2799e9",
       "634709dfe9c00002b06cfeaa45c162bfa50c04feeacb8f246c754566b71ae44a",
       "a62152072e37efef0aac854a8be5c2b17ab867cb3a542367010d1eeadccf8946",
       "ba4bc08e844d6d6f85aa2b037601cc5138384d9c76269219aefb90691c96a76f",
       "b07684c6e9d395697848b2839f1eb5de1b8c8cd4e74eaceeb341683eb81b79a7",
       "51dd2a363a3c5031c8174e06aba9e0f5adbf3930b371f4801d0b3f931731524a",
       "598684a1842af11fa2416432c49b28573378f1af74e1514c5aaee08651b04884",
       "e049edbd9f5cc011eb8b4d987f9838e561a895da19e912bba8858a450ed460d6",
       "49ee1fbd295711b8fc5a40f11afae35d58a630c1eee70ecc327d7acec0b6d485",
       "4a06e81371f058b658977c48b8f12b236f50684355d85799a3d291da1a8767d6",
       "8d53e7b9660f39c3a935586fe200b03dc31294bebcfb7cd432c71e8311391b64",
       "86831928879de7d3ca940c89b1e5e27957d286fbb4711800915ffc7a8c548457",
       "d559f7a14a777f70c696dce0f268c873d78090487324eba7209726e2acdaaadb",
       "88ad1dbb763c4ecaf88ba029598b614492441e11be576fd4df07adebdb694cd3",
       "1e927a9e99b0a6eb8220f81083f31b2ea5aff26aafb5806fe9885c7793ee40f2",
       "7e96ecd68d9c2841b506deaceb80d71ee103d9eefd84857738979b6dcf6eaa18",
       "6b7c85f0a7f0aee816e8c44c5f20507da7c028815a12ea6cc3eedf9fb0976fa8",
       "159b3b49911a6aa3679b59263bf155bf1e92c2189399b731635001b86e93ff9d",
       "9e24dbdcb7e6c04f248b76f253712b6bb6e1f1ad465d439561f46626a11f1411",
       "c39ac38b628dd601f20dbb7bb7101028320c42916e08e3f77c8c1ad02aa5eacc",
       "162b142d8536ae7d6bd0a1a70365d256e00ea00b8da003f5ebdeb39baab49415",
       "cbe13a096437c8988db9bddc6ede03efbe1ae63c97313e9bcdbc80f65832260d",
       "6be399f3727507c50b10eb747694e73b853a92648d8c16bed00044d59258005d",
       "a3b58693f5d45d290684075a0047dad996d8b2f01c9eece87eb26d94997a6df9",
       "73185b83f15d73229e2050498327d603f25aca24639ce4c9482ec1c91f9853ec",
       "70d1b38cd21dadeac47337599acb6f84baf4ff8d2f8d55eda09e5e953973fdaa",
       "a5e94ee9098533ac58a2678192e6c61f58fdd6ebd49b5e75c3787b71f5ba34e9",
       "11455fc13e97b0027251ae8bb63bfbfdfee42055f1c1b94d41d34ad87edfc835",
       "52182be51baa62447d6fbbf09b8c3428a18620366a8641a8904131214cfdaf8d",
       "b0d4147d7bd9a00e10f5799e06f221bac092ad24e8109a776ef0b0d3d94a1a67",
       "dfb2f8e7ab61555c5d881e9b6613544ae49d68cc91b4969edf6ead2c7e060e2f",
       "c88127c21ff13532a48b9cff359db99845f6a8966fd8ba9ad2ea17fe766bfb29",
       "160b8abc4f777fcd5911a438ea0a36769e4e886f118ef1b0ab5d5eb513f4bfa8",
       "6964ce05d363d7ade6d254a55decf7c3dbc7f2afdfc53081a8df222149d5be9a",
       "3301cf21c4b9ecab94aa23684fa5c38b37f196ecc0d9f3a14fc3fc494ff14130",
       "9633aa0e8385177c9f82ec951cfd5c790b636897f8ada83e6fe9ee2225850024",
       "a756c2cb166d0cc35e20ab33bfa68d8372dad05f7ed48500b0b307e075a8f252",
       "9120e67506f6200dcbf4f69878df0096591ae98baee81393929848cac6eb0d89",
       "49a9d1f1e8840c832fbab0b895a1ad2c58170999fc07fec91b074e07ce1211ba",
       "a94967830c38f321ad2e00cada415ebb0ac068e6f4c6a703f3ad629dd46f3c42",
       "f4b8bad1cf80e2d6be7333b9a3d60378bb72792b063b82930c38f301327f4000",
       "3010c06cfb967587f8a02f652e87b44926a7eaedb32f8daedc164f6ee5b74f98",
       "7f43ceadcd6e4c0558cb28633702a96e96bca8a1a4ef9976f284bba55399bd55",
       "7198a52f7b3f71a7431aa86dfa25ec7a1a434e173a01e16a3d3cbff389ec63b4",
       "ed9ca503356b241e98e7340d606d0629260338ce03c5bc4e5e82ec24d49dec79",
       "b8b5b581642112f85ca0c625f2ee67054d38392274d88e54980849533786d5a6",
       "dffc1e6220a0165697832949423e3a5ae5221370516c6c85ac772b5fbdc2abfb",
       "92c36054403b1839effc9eadb6f35480c2b6b42a4f5f816a8291e670fa86bf9d",
       "b92c009f1a6a7ca65bb95bcef3c98dbb4f169a6c427bdc38190a826009480191",
       "6fa9564dee918428a9afc4c1add47cbb7aad70fb1ffbf10cdc8488677386fed1",
       "36424b6a9dfe621c9b0c51d5f7d1b669da670fb6c59cbc8904022376dcc6a1fe",
       "d13e430d548563a7860dc7d9c5d16957df7514252d9dcd8aad0954fbab957fff",
       "a07d5bf0f94199b10f697c3322c41c2f367c023630855a51adac454b99df19c7",
       "0579cbaca6aa86122367e380a80b361229c13290e155534a4fc6f2724a6ec404",
       "9a235ec012a566887151bf775023eb3096a2878f58e6de1411560b2fb1b56f63",
       "e29fa5f1ded3ac74530ba44ea33b75e4a4d07718339d0ec03f2d89e69973aa15",
       "1a3f8fd85de75212f9a583b265433d1744648eb83b85cd7ad11564c72267e6a5",
       "1512be1027b38798aadbd40339b0f55c8bce00a2e9e65fc87c4915c5495daf4f",
       "5a166ad06300c787e2a2bf618de0558e90bedf46964a1ab21e37137ccc638509",
       "6aacfdee0787dc958af6364d21450a435ed98948ce085f9fa73506e10e39312f",
       "f498c8e38c881eb9ce8f9b9f823f2e8661e397ee3383c9d14abb3139c059629f",
       "67173f6a4854377608c33b302271a7d5516006cc8513ad2c6dc64950ee279fbe",
       "f64119f05c1b458503a22a0c736ffec2aa1f215c3cd11ba86000142e434bc3e8",
       "ba97cf28b6f33081f60600be2e83c177ac74377efb78ddb7b5ce73748a669b8f",
       "ed3e8c9586dee01f2aafb887d34f51e8f27ae0df4400e175bdbde8164ccefea8",
       "c964c42d75c411f504a07a653dc66005eebd9a706261ded42e64f42c7357aadf",
       "706d7a06c69db044a1bff495db30a7130feb37cb086234229b39ecd33b849212",
       "1d0abbc977e32477f20b652038da7f71eb4fe9e1baba5c22e7839609e7923236",
       "8b0d73c01aad9074cb1825d7447fd1a5faf8d9aeabd80c6fd14950ce525a84b1",
       "84e130ac4d5a37572b766c2b7e9a44e491151b79bf751aa0e5c1003b20422c98",
       "623532209295acf49186c8da0b01ad360f13a715c766389e8a95b053a846205a",
       "dde52453adfe8938d5afc2ef84e28be9fcb855d6d9f8741c9284f7db2b73f3e0",
       "bd8434128b66abf47bb7e2c15d8403bb2ed93593d0e7adb1cd48d66c2eacf422",
       "48e4c60ef3db3260e42dafcb8f1eea964ff2887af9a654791b1341e8d4c9222d",
       "9350c7516fdfe612b1b7b7d2b8a5787c003bb7c5aa4eb1c177e7461b9c1c16e6",
       "86daed3907889f9f57e04fb8bc8b9bc493bf218ae4dd8e60f9681dcc335fa075",
       "041a6f07053b241c52824dc67b0586ffaec8d461f7db5aae484dd56e84ff124a",
       "fc06b4e1935f5b4bf663081303919aab7d04448b05a99972725e8904126c9dcc",
       "22fd5c91161ea63f24ccdb4878a4ba2c561209514805742cb038d2457a2d3954",
       "6735e83a833b8659ceaa93c11cb6e0d58d12cfd83e8ee55a4f9159d290a79a98",
       "9c51950a9862ef3998cbf4f93d7fd706ee8f1ea18db51014e952f89ccad9c0a0",
       "79d4ccc3a40da691f03c72b381835427b94fe9ebb57914fd1c60a8d953286e34",
       "503d23269dfc9b76b202955fdb503d3730873906f358245de3ef961de4914647",
       "610cf67b92a7a4fec12bfdeaad2cdbd1b0264992ab815f32041b4c328af780f6",
       "46ea121d97bd5a4ba2e2ded0bf96cea789ac0c02a29072168ac8936ff11d2039",
       "422af4a20009c11a4eb44971ce944d81313cbba5fe1879ee59c92e414e241560",
       "7aa82ab6facffb6a751bd945d83c168b8b8bf6742dd5e615fcf097dcac6b3ea9",
       "4bafe8d16f47e66b5f9d307b8304ffb889f9aced4d754765d40b9c8dd14073d2",
       "1be679ae9581c796ae5ad281f8b9be464446da5b164f5d7382cb685969bbcbc2",
       "fccad06b1ea531156c85ae2396c2cd60776ea4333852577023e28209b8fd2c37",
       "3ab2e5567ebfd24ade83f02eaa54adb0be1ed325c9d7e9d81f9c87481e727ed2",
       "c3b74fe9b571243301d55245beae9b19555344e3f8f3ab6726a57a57922290e9",
       "e5751d34e79a9256acbb38a13fe7e8cc676b8224c4730ed9713d056943728eaa",
       "a78b27040aa98520aeaf6a03efe0e35fe7d079a7ce3b8fcd973d290f8bda406b",
       "5da284be2472ca79f9c3d4654de879ccf69c6505c10d6476aff367b185b106d6",
       "8fa266d24934903b391b1fa9c27b4fa6a7b95f582dce07839bbaeccc48a1bfee",
       "dc0bed8e3e3c62c638befe5e047628e4222e6575d12e0faa195446d7c85793f9",
       "4d1525f3ed88f31ac4cae4da13c08468171d345ad155c5401294b2ed19cd8af7",
       "4f577b8777762f74f0fd36223be869f27bdd5c63885b3f937fa1fbea9099d56f",
       "9e32e201365486a97a7e0ca3f9205da446948053876b6c30385de50495c4873b",
       "bbea50188acc503cc0628ab543181c43de971175d0579174b79973183b536112",
       "86512b9c67353baac074847457717626d612c51fd180e20508ef6f22df68739d",
       "4b212c6e41d8ed4bc45334177d0b64afbc0dedbf20b58beee65c16fb90b13ee4",
       "94237d4dc75bc31634798230af3a37c43c56e1f6f4652b048bc49ecfe93a89b8",
       "4419a61cceb54f98e1406d45681f4dd1ecbb7c10bde8011e5a1b37b4720dcf40",
       "24c92c8c74cc678e40ecbbcd86fbd4a4d220ee7629e8c0c21af1613da3b10d7d",
       "f08fa18828fe1bef7ecbb3e50e5c90f9fb475cc2a9d045ec6d3b0ca870245947",
       "7459d0ae84c88d6d8898d5a69d0c209d1975e76d9806a0e875b3ef706647014c",
       "925e2e2db1daee3509c548765d0c1abca9976c5adaca2b43070e345ab62311c9",
       "dc6bbe38ff188d29737f1a477ea31d2181ffca1383dc13b214be8f0949b43f6f",
       "ca15f404becc98cda4514c40489decca31c1bc6c73fb3bbd15e106202d780ccb",
       "f7ec909469c63b5f025959105850fd0f7472287452cae428c3203005af0cdfbb",
       "39bdd40680a40dee94bf00f139334f98e23793177c70d8e511ce5e0088a3639f",
       "83ec2b0735e61766f9cbed890d1606ce9c2b719e61b487de1faca03f13b856f1",
       "d35b62ea25d03c4e56713229c04813c34f2a1f664bec01afaec852adfc8a18ee",
       "e5939e2ba9b60d59a8575c366ef31aed027ddcfc45d6d22b25040871ff6435a4",
       "2809e65e704942438eb155ca76f0cab13bc67328ffacb2d9a4fe51fed2b3c308",
       "8e448c694f5d9f53bb3185a363632e9f4251670d980a75dc0222737ea84f8982",
       "5a79eba5b2e85980e0aaaf2f741836ecebb63d7b2bdf52cfd7e2531a294e1ff1",
       "79d366b17ac0f78c4288a1d4ba2beed9e12a996e3844e68c7dc604f6c4743f3c",
       "b97358db0ba6798864aebd9a8b4e0308d98ceb0198ea296eeda63108d93d724a",
       "6f112a2b5aa5c49db56d58a5b40df7fbd90a5ff647e9b6ca7159012f79aefe07",
       "9f757c09502045f8b7630c433b98e661aa38c2c757cd076b015faf8b2a7a0cf2",
       "2d93c705babb09687f95448f503e163e851427aa15400d4112e21ba3dc2e6523",
       "ac239856b3167902fd7c48e4c2cb336b2cab5a16b020c20804ca632fb8f36e12",
       "0ed4583f760648c69b9abd114e0a7e74dfa2c1738a3c2f2be10c16ca2e0f4835",
       "537f0bf7dcdd58e7a13db3da97d991cd0ae6bb97715d3b4006a32f48ddbba7f5",
       "266dbf63226bdd1c51813eccf5b3ffca4db5d6ecc7ea3b92aa0b5ba6fe477527",
       "29c5d271688ef30f273737cb37cb7a2cfdcb36ca056ccae4fae0dac42b04b03c",
       "41f0ef020730b7564a6b0978736600aaf308b92b5af08b65487d1540b67533c9",
       "b2c63b4507fd1f4aaa7b85778c46881eac0a6752290ae1917b9b31139e6e44cd",
       "3baae92d0c42d9f5bc7a9fb3128347868d0b692d509f2437221ad4363a6f6d72",
       "b81785c941e873376c909f29d90bc385d493e7d9f3948f2b33dbbc2a16533c20",
       "83449fe01750f5ff82bfc8228d74fac8d4f519e37d60a74f6ddb420034e7c104",
       "c7a234be4c1d08fbd29448d7a429dc4791b45bc16d0f5b6fb488b472e3bc1964",
       "424f513f571682e74470c6094227463480cf6f0888360555832677a0b3d298ae",
       "7e45cd918b246a4cb0f919ee448d4f7bf75e9d4b01e298d0f0d849cb009e495d",
       "54f933dc1562bcbe3fa4f7edcec485ece14ac89845ae730ffcc927cbf831419a",
       "2b432c54e074a74fad81c6c3ed48419458553d6a5156dc5ef07a9826b5a96d08",
       "018adaf379a875558dd4c7f981eae0f1ac23288a903ab01516f1820fc6b4e03e",
       "b67b56d819136eef2f14ed8f5b9326f47f764b1a5c1ddeab65de7b98cac00838",
       "283faf12e81320d7a9d7eee7c66f0e615c65a96691f7b0bc71b97c0825b80f96",
       "5fa6d82fd063e84e76ba1d11566109e45e8c01c160c196254e980383d6bd41f5",
       "88089be2df629b5e55f4a7b83f201ef81f5d09c1d04a061cdb31049d6f41a09e",
       "df063ac08ca27fb70a3ae6bbe82d222dbcc267ea001c1d793f4376dd7eecf452",
       "bf768354169d8df5bfe0cbd7f554f0dd4ac726cb39a2ae7c454dd2016c7fd875",
       "92e088f50dfd1d10086aa4266c83cc6037c691a492a016ecb8a35eeb9cb242d5",
       "0900aa0d77b6913a51c0e431604a9b76bacac2bad88fdf11b258ee51eb9e2547",
       "7f84dce5fb5f49907ac2e3af91061111b7927301ab621d3cd36f57ea46189315",
       "3645007a0a576880b6db636d1410dc8bb73046547e4cac211ad3e612bc188998",
       "79d61b22ff6bb5ce624e00accca26a792f6e46a01f8d1142ecd09d745028bc4a",
       "10add0eb1a496fe6be3f2367ae2e3e7d2691a4fc67720890f86401a39f4e1b8e",
       "af97c759d66ac32620e07286e67136053273836b6b7bf61447b780b7ccdc7c69",
       "cf655df0009f528c6f8a085b43bbbc1d5e4b15c1176f982f1c0675b17eaff822",
       "b05d4c42a9f7d1eb1fca89ffeb961e5eaa2d2d4c963335de15c7aaafb37dee7a",
       "2196df39e08f5362b92922e265b279666f890fc86629b4b91019b9f352d7413f",
       "5670ed4f05125f0c1a213ccd25ac760c39bd1c430e1d6bda9374fba6fc28b4ba",
       "4e2204226856866e0d4b365749c4c7cb3a938b2787fba3d8a90b2ecb0b4bec78",
       "75cc1dd3190a5418ff9e76dfdbf239a44a3135d5a0acde0740b64b7bb06c1359",
       "004f68f71042ae93b8dcb1b61348424997b39c057d9f934e1e6ace160a1f0ad5",
       "704bbd6d8bb0fe69d9302fac2b50b4054695f3f44c51fc7c3e2e37892b640a9d",
       "f1ee0f717c7e58d6d7147259a0e8d5a93f3d834ebc87439a3a59761d2816e6e2",
       "2d66cb2b738688ef08b30b5f670e9fe1ab60297e5f55d57d6b1d670b260d7230",
       "1c8ef81ff25a465c6db3dbe936db534f0a45ca867e454b312caed72d33fdeeeb",
       "1b5c62b95aaa10f3de2ddd26a763ace216553edf2544f68fde80465c43167f79",
       "78dae83f1e2f3b407fb7bb80dc9a81cf76735bb1c7a3307cc0ad472ab3cc8ede",
       "6e5af08bf89e43154cf443e3d4ef79bd476e3a9434d9b9df050c1d337913ef1e",
       "d7c698cbc3da35cdcb554981536a3d75461c0d232e3107da4d436f13453d37bd",
       "3d373e187106619cabd3f2c94e4c9b9e2a050f02054d76aba2f796c45826898c",
       "3ef88a49d7fcc39bc33e369b017fcec4b0b7a019dcecc08ed12a86615cd5766d",
       "4131f8b846573023eee1ee9ff496ae4de8ed4476c7461e94f743957d66533045",
       "7b060dbe3f6eca1f5cee0b312a22babdd90a536f058b289df7b4c5b2e8383e64",
       "1ee33bdbc8369057aa467a922b924ffc9a6682f431bb831d45ebb58129f14a0d",
       "5b09984bfdd0c920bf47811e0c9b2b3b888291a613ebd98d35af632320ddfbe2",
       "667db5e00632056121c936bcfd5d25b85abedb72f895046c6848fc837d8d96e2",
       "8b5e8b860278d9b3c7b58f6859bf452fbaabbfff25d24194f5afa1b64d99c7d8",
       "b362a7bfe7d1ba16ab2e597e5c6a787cb5869198e341236e7b698cd00e99da23",
       "3a0960c693b22d89d39f53ec0eabd649f72ca65f08ef6fab1aa92f3a5bc6d74e",
       "8a56fcd90fea2e5c7fd6928a28749ce55e2c797bce1ccb2a37c46e52c0993215",
       "69aae4853a1eed936e8d01432ae22d7a6bdbcb6f32cad480e53f2260fb2f6bb3",
       "4529be2268d4899bb885deb051b550315f6f8f5cbd2bc43984045dc6e5d99667",
       "d4fa772cafd83e80532b4c71d0b5e183f797a0adbf7815e163888c2e29aa4c81",
       "75f07f1ce0d9a24d0a8b3093d3e4c91e7a0b748e225ad188e29a454b46e5e588",
       "30f79e441266b619af39257ef1b67b508be93132e12cd4f44efbad9a89b69831",
       "13531dce6c51300af379d6eda14cec7fabb1cc262ac34d970e7d4c5e787ef835",
       "db654c097cd86eb2cf73b7c64d5fc30770357fc0b6ee0e881ab73b85143db490",
       "b372f0f1a07c15c1f385f3a6ddaf7da673bee5f9687e59c3698961a57b83239f",
       "bedb145c32026daa452649c84df53fe8f3a0fb07b7d2468f3a62f4e354264373",
       "7818de7806716ff1ee87df63c0af9ea71029e7ca06efba81d236e3b7ff7c8bfb",
       "19eeaf510cbf35fec72d406a7357aec1683c16a6c442041fbd10d7b4b4ea509b",
       "1e9774cf7cc66dac6219179018b2717999588908b9e8c0441e3e0fc423ebd06c",
       "cfd3c3649d0bc7dc4b729e5f87e7e8bac8436982cd7a9112a7a5bad90a8c8bbd",
       "3d61e73aeec6a45522b70c4963476a32b351ed43b43282ea747713f6774fe10e",
       "d74f4d0da0f14f2a91fdd13e5bcbfb1ee3b1263cb18c00e43bcfcba8930e7463",
       "b42c497f724798a0cd88d02e4e24b775aac4e75e7ade2d2bb3574d9c328a8ee1",
       "c0b8b31affe67876ec4350c35588a5ab62cc81c0f0c0240fb59b2d51760225ce",
       "926376976be55aac72ae047b58f813e47dcb74732d66b5bc44bf8eef43435a62",
       "331806a1e3ceaa2c5d12d337d78d0ffc3f6a47ebb54077a0524be61a282379c5",
       "e6f785df0f091687db7a2acc6e102f1291504247f35786a704919a498bd4376a",
       "cbbfb447a926eae0538646d1d5d8a67f846bdc6437bc71def1fc10ad38bb534d",
       "16c91f012de9938dfc5533e8617452560357d7f2d07ec033fdc1579a73816402",
       "1c836306d05453123a341fb2fea9ecdff05374b5c607f967b6ee5a9e334ac96d",
       "b0b7294b16b8dbdbe39e60a2c8cbfad1e3b4d1f712fddd977b0f7477d22ef599",
       "9135a0a9c8224e1ea0e932475dd86854255daacb43d339b1da62036de0f9d363",
       "51343dbd315cb58b38497df443eec7f857f392cff9efcbecb1c6ad121852827a",
       "8e5a8b437dea249947c310294180014bdc7b206f29a0e06dc31b33ade2d385a7",
       "03a015e3d2157ef77e4bc62c190e09e5b33a07abcc655732f155c312e1d559bc",
       "8669c00629852428ac9143b58e00ed456dd1e7c11463e5145b7c1185a13d11c0",
       "ec4ea716eb88eb9379c0608787492732ce55999a20f75ac4f23460965aa05f45",
       "59f7a0973a0f43f4ba1cce7dd193f3e2f9bf375f2b50763e2c54981c7992a5c0",
       "67c9cc7b649af400067d9280c3b6f84031d02f42cfe0a143d7f92faf214f4ecd",
       "1ce9e7cedc9904d10950a5c925c65bb850aca0e68c8a81b6878b437bda208272",
       "a862f66329ad64cf3ca17b6f9603bfbeaa87658cf8ad1fcc11be9ac05a8b6de7",
       "d2451ba3059b1fc63cbc1f63199d9ccd82861a3027e057e31e5204fbb91d15c9",
       "8c1aed1822f1c2a3dc583fffeea23c5e6bcfb33afb796ca482a52b51b625044b",
       "472103eb39d96dce3124b617a05f0907241fdbc6b9a903d615c1bed406be1037",
       "5f9536d813cc5d8c5cc98ac3e73564c401925abca23afac64441b64fe0b49672",
       "e61c22e6e23abe4f23b2e92eb60c86b1b407768f94a5ba1693f8e0a035748926",
       "6967ee5af762c65b5ef559f1e71f4f65f981fd6bf03c255a746e8d14c5490a86",
       "8dc7064ae80aa4f6df005f8930b0e99e5dd9c73627e0b336701729910aac3dca",
       "785e2cefd1d69880556edb656f00d56fb1c0f2ac2eef736089c356fa7c161a2c",
       "f8cd275dd14143c148befb1a74f4fcb97cee8944387c074d0c16d0b6f38ff030",
       "3f9291fc691388c0bed5658f660a26f91c07f2231387678bd02117a20cbd1090",
       "8f1e56978b89d9b6fa0e05cbb6bfd3698e586c7cb60349735c11935b86a07630",
       "31b96b3eb73487f8cb2cd5af6522b99fad0effdfac85e561fe320da278db6bbe",
       "b871df50a431785369187d90b0d266302c61d8a780129535d4c0c545485d948b",
       "e173c45b48ead18677f79ba8c2a219a8cf8e614f01328037049be364d754337f",
       "534aa38c4209ef7cc37f366ccfa7814ede8c2fadb07fb4a3d8f17d5f1db613d3",
       "ca715ab5f5a232486d26e4e91ad6e19cca550e7cb32145570c71c517ae41d6a3",
       "add545b67cac72a81adeb2c29d4b33b91d1f25b2f5590c76a55433e98a508f0d",
       "ed1fad3cbb8b3454a5a775608fb9867ec131a2e750b3941896d7e6b1a46e52f3",
       "d1bad3aa6e4e4fadeaa6e889eaa3f21969c642dfdf87c87709821f505f7addbf",
       "34fe316a02b72c5b5f8d05eb61af353f068314d2b807b27bf2b03b689e411239",
       "9bc3a60fc1319d07ed9f042a878934a6439f09fa843ab5de6b8a51a6dacc95fc",
       "eede486ee194a116c1edc36e847138b4b41db3e733ec249a2c52d53559bc79a2",
       "1b49a6150f57a6cab765d4f2e15cef31620fc0f18af4c66f031c05bd2574d9d0",
       "4748f923da4b342ad5e6044044f9524402d164c30900b6ac32192172650c3cd7",
       "09bcc569d2b09580b47eee4992590039041f13fd6676dac04de7f4dc6668dccd",
       "948d710de5da09b6d06d9c8da2d26744fce817caec8d25afa449021538f31325",
       "151debd1045f19672c5f72e5cd598ed92e36eb4a1b03ad49d79cffce58c9a3a7",
       "cc42625c70c2ce394e54844bbe3e3d439c24cf60e557a9c13665d3b4e662bb62",
       "8b4bb778ae8961031dc14527a982becf3d2a3456b7255f6aade06018bcc03134",
       "6531bb08ba2f4d9beb718c44a9095d2d121d4c0c5f5c8c0920df33557af5c730",
       "f68ba1315e29d5e4da18b9b98c453cd6ad6734d89fce9191cd987405f3a14226",
       "64b6812776bb0f0736b39e7ded93777a664ffa4f3c0aafb162a8350b58be4cfc",
       "c9beded2ec82e6886f4f607a3f118d812cf32a8aa80ac20de124fac8f4644350",
       "0e3da3842ab1fd76470d309bb0aedc07250e3f444f8cf33c80cf44f68fc29532",
       "00e2d437bbaefa33f1ecfbe7fafdde1e4f8d92c5366680332f96e6a99539a6de",
       "ac1141017c9e563bdbe50640fed7d587a68c8ac716e0d9b48e8587cd611e2773",
       "c7e99be8feef9e5c13eb3f30926b2312a1e0ca2f660c7e1b3b95ae222c752441",
       "dd180b83695bab50c36c7d2fd256dbc86d6239509b6d0c408558d7a1f0d13688",
       "a751aaecc9d4e500df95413a758866d6011dbe68ea384a536b5ebbb9a3ad96ad",
       "73ed83015f8ce56139f41c6b612b4f97dc6dab1264d441ccd73b73b7fa8faa4a",
       "a69e09c4250c313ff47aa708a9334a63274812e23697a455cb242b338b939b6d",
       "21a075c26866dbfeabb67d6eb187489dd375f4508317877d79effcf4c4219382",
       "c8399f67685d3de4bb83364d8a704cf5a8772766348c7ee925d279887543a95f",
       "ba3e18db7814f4f52bf98930afa98e193e9eb826d21552c09fe651f7f68e0968",
       "133d0318d2da91a7e66635d2af95a19faf7298daea0230ce66ea13dd2de6192d",
       "dcf00cfa7b3ac9407c3af6c6deddcaa24792ae96d652c0ad4f56fe45ca992847",
       "a9fb33e121d1cd15f059949c463f67e116b4c1e24a1ec9ab50e03176bc158f7f",
       "0d66db27df001b97b894ab62381c048b0625a641a239eaa607f3c62d3d642ca7",
       "f263fa6eec811087b8a1986de80ad0c200b528db80dd92aa271be700d6db5d8f",
       "7e195d00e30f9f0d265e0696515d59257ad85bf105d7722eab3577d9943d446a",
       "15cb30a9da45db0173b6618017f35f08dab832a14d8e64b51e6ed074ffb53e34",
       "2b5ff0299faec9e1c07a7de0f632e18cc9ebf85a023e9493936be13f535632a0",
       "afd65627ae9c46a370430fab780f7e7afa3eed92b99d6d4810cfc51583612b13",
       "81387a026e4fd21e53e0070da8824e0eab908c6b3b381a1be6277d2714a17c8d",
       "d8bdaf2041f5905cd9020ae0b0e419b01ba1278e96f07c26d04ba7041733bd53",
       "72f5ed2a94d9cac33e004d0bf4338f95615ed9e6590c13d7ab3df2c6bb202aaf",
       "53b22385f130cbd5da845751bd26abccb71ccd14364816c105f98e1397f2973e",
       "81294c5aaffd6a5323f06508717bf46fa8f78b4bbb280d6d8b903bd7bfa544a0",
       "0626fe1aca3d6955b249b03eb45a557974ed8734c505a8f185f8ef0a3689452e",
       "838ae630b11ab8f7bac65adae4e78e13647a2d91c0cd59cbc7cbda8672496495",
       "0ac89a2fa3a9b2743dc64b44420f3c72b7248de240f133f526738f1b1a74ecd9",
       "229878f550e3cfc3abe2dcf65600eafd1ca6c0ba2c6e8d034f98e344dc272098",
       "cdf7ebe571b2f0b55f1bd41ed4dff065c033e2243e83a8d9c50d3ccbde6db4ab",
       "9a8705dd6887279c87823ba95b3023bbc1b45ac585ca42372ad5ce73e5603e02",
       "28d7cf356f38b755634539b6c67aa90dfd640ec5eaca781e5473f19848720ddb",
       "8d83dbf44375eff7bcffe780ee7ffb11e60934223f49dbcd5587ce0e473ea9c5",
       "c2adc889d61291fd98c533566637d2f6461f923eaf68bda1f517f7e6f0386af7",
       "b6c39c1376c76fa10e90d43efbb314e988b9ef76079d205bf9994ff3b62a0ece",
       "1226b63dd5a44cbc0eb2b57e43e07e4b8ff9ff3d42a1e816c2ae920cc5565836",
       "3515c236e8e1d7d096684788457e1f6eae6b756e5870ffce4fcdb25c914eec16",
       "048d5fd3ddd0ba5c0a92205fb609da8b0096b22822a062f018db7c22c7781f55",
       "16c4a190296026d34f995155992dbe33d49917fad7e3c4bb5bd0c0340c523ee3",
       "f4edd297e564f6c668ad8df57b2aa3afbf6f471455df86bee0b3e11b89f641f5",
       "490818de64ce4f625f39ba45ec6f56541532daf8a65f06dee962a798b164162f",
       "60bf028b6ef60e6d49204464528f15576f15120de368523c9ae0c3ed0cd4887c",
       "9e7a295c8f175c2820e551a07871bc55d997f3fccce6efdcb549e25cd2526787",
       "cc4c1a50447c27dca7d52e1ad05dca36b47218e33b2d5e10d1ba15416a927a52",
       "bf847681b584a6a4ef8026ccaa5f73c21061222ae9668be3095e67ca0414fce5",
       "0af7f96188dfd1e1c6c2f32401bfaa5f6b278bf46e0c1caaa40a0db519b8e5db",
       "c644431f7d8e0ea681c2914a4c3e2d75a67f5db9064fd2d9ed2b71eceb9ec508",
       "730db4c3c07ba45dd08aa14edb48aa0a8b2f8b4281f0148b586a2dce19011ebb",
       "9d003fbf916c94fb8832051728125dc77222bd26ae6eb43bd0071e6bb95164aa",
       "89f1c8d8a906794e1c38bcebdfe8888788d385b7b93d76344f583cc4cee17848",
       "494f8459fb5e9cf7f2b0afc5d688a54e1b382bed81b1db88bb960b75dae520fb",
       "39b0ed03e7ad49f1e3d4eeab1af8bf0e88bd7c7b3c5f95f561db91522e377bda",
       "08c5359cc827e5dc87f35a1ce13624224948c73fbb15621ae2649fe45dbc2188",
       "9e50523cd05fa3a34d8dd81eb9ae5f95f0ef2d81cdfc07a3515038a12d9ce9e7",
       "4fb0792394232d295259b9f59146e8335a1fb571396720a6392031b3fb66f5cc",
       "c4525a2f16f87b91d315d3083cfe3bd08fb5dd9159e030922c81b6f279e3a562",
       "3007b7a078cf233639ccf39d3b0045b1fc333f99831ca512b398b5efb4abca03",
       "124205fddcc8472bac84eafbcd02620f448d736f5959531daecbdbdbe3829ef0",
       "8cae9a510eb257b888767ead10dec311b836e8a125822bff1c4057b1e9b2545f",
       "708044ff1473cf7d4c8cb638a8c6d74729bf9a21b27d57fa1f8bb8f7fdaaa0fd",
       "ff9566aa67e6f539c8a3f388bd9221ccc6b0752fad4269c53019aa0b0a1d4f47",
       "b21102f891c3037dfde5915b3b5a5cf6227b1ced755900778242f770fa8c76ef",
       "af57bf9806aa73d5a21135fef07a30fe117c1b646882b2b357172ea05162602d",
       "ade02e13b4e73723eb5665baaaf666fe42d0d6bd9c018a831c8f2e16589df400",
       "0b2dd41b6b8f8ff204ae707463ec25578ae2dd24e8f30e17346c8a36495435d8",
       "658357f124090e4d7cc475e937573d2c6d00dd957c34b16fcd219c93471114f8",
       "9e88a764872628becd1a00aeefd7f5cf7bbf3eee9458f355415c1aa84807c60e",
       "040f8170af918550ccf81f740f040005b21a13b517ca19eaa19c80216b39dabe",
       "0b2e08f0a758dd2eeee3de9a4c12d85a2262dbfa13b4648644b78a28bde5a35c",
       "0cd15e8cdab1134bdccda60ab9681d37ef73c49a2bb428f944dcef43fdaf76ce",
       "5168beb2f46b31903f9d6990982576a35c0e30b9d3975c0e0765303e99f0fef6",
       "ae33a84dce52b850ff683fb156fdf939583d6869ac91bd8d9ac54d68273c7bf1",
       "4e96dd965e83029bdfa0496974d48bcf636fbaac37032705c941160aa1ec44c3",
       "ed76ecde20b9b0bb97dc1096d341e8b3f23d0cc478bbc2d9a8376156c9521146",
       "5d7c14219c581bb24675a9fceb73c9a7589d96d144162ebd792a5bebacb1adb4",
       "86a4bff9e472f75108c5e6a2ab893b57d10ba52ef145a37f200d5791e0b6211f",
       "4a84eccf021aea6b613ce02b2a27feb6198d4665cbc463677f93f2b53a8fe3fb",
       "7d1019870be254a61fa8f5a03083baa4f61d214d7eb7367956920abd4c06104f",
       "46777d436aefae58fc5489390a35639d91faa89947c7065d054a9ba08809148e",
       "efe14d892c3ec5e825d563412c4fd8aeb46a7b97fec1dff687a33ff7aff5d848",
       "20e69bd5b4d5d42981d8bf45c559deba1c486a0d8a224fec2b46ed3e1c2f7266",
       "4cda261d5dfd21fe2c15215ce45bc28a9a61b699fff644f8f73a8fe22323d85c",
       "287ddfa74c1c5359eeb05c2b32e9986eb858942c236f072b17fef4edb35977dd",
       "8b82f710cec01bd51ceb86e71e9657ede40d653b99a42bc1c4bd99fbbf2dcfa5",
       "986e2a2ca9509609c4f896fa01246b682908b04b75f936b28c48d04d6b0501f5",
       "d31eb29176ad6f67daf488c5a2df0bda89b3313c976b0010b2961e56f577cc11",
       "ba77e5a5a0b8be8277c54e0a74058de7e4ca3e0503d3cdcc6f04e1bf5ff44f78",
       "1e81d14f43bd19be76e47b5138bc67333147058ff81ebb23cc2c324628c6ad38",
       "4ed3eb616ca218e70957fcd53330881d8d9830922395a02588e0d655ebbe74bd",
       "b132b96b6b433a254b1a43c82296903e5d06664b25dc0832aa73aba7fdd3b5d9",
       "c779a0f17183076041fd4bae47c43d395d7a1f78534f46c63969399eaf56baad",
       "8cb2cd7a1079e4a6e0ef6c8b2fd793c52214884a9dd70793c285636d9389a0c4",
       "29c2cdc2478884a142adc98b159da05780120c631fdfe9170e4eca1ad94f102e",
       "9936742168eb7710ce690fe0b985af3ecb7cf709d3b951ab7a14891759d97b8f",
       "e7457461e88abe4dfdcd9fe04aa93be087cf36c0d7bd1a4e1bf336324a73a10f",
       "77b491f86b705645eb3bb5b140d0b2e8238763b98251b07d9e6b5ceeae1370e9",
       "67ce83bb9000bb295f80b98eef6c96d9cce3148371a8f7a3d3bbec0a6d075a66",
       "a5f5a1c0b4c1906de65ad56655d30f81024c1e8a1ef28aa9e36155dfa3643ebc",
       "e364cb832f5a98b21c26e1a46cec1638c5c73150d20765d07799198746acc37f",
       "e88d36688dbdaf56b2ec044fc79a2cd3e6cff23391cffe84e6c65ef41e92ff12",
       "cfdb7bdf5f6446f59d1babd180e2b70ceea84505a374c659e79804bc4fa56aee",
       "c1d10c025a5f4c83d2ce1c944d0d0e32e9a796f6fd27bde4834fac65b73ec5a6",
       "641c451b9cc94f29cf405d35c8b7d55aa7e6f780cda838681bbe9f94c3512ba4",
       "e067d6da852ba5de20d858c0c650fb0886f4533363432fc86a84a2b7d4564b1e",
       "fab700bd21af77b71906dd68e542ba00753c07c5ef17b07050c3abd71edf8e28",
       "0d6b88e375bcf47c92254583b975d3d7d839af33ffba98652c01e419f4c8d279",
       "58fa5bee10c79fdf57f1198ca5a14be0b9fada3e61d1fb524ff0c8eb37db7868",
       "db0ce1706feed3ef9eda27cecc9841d6f937a02329ab844aa86268520c579afb",
       "9a57fc53ad4be67e30224c88ca37f4ca2880a3502ce383d5c0254c194e2fe05c",
       "87eb79f133984007da9308d57d8e5b34b96bf0866271b11ad79e46d61ec88bca",
       "eef0f619c33835ac4a4532fba80cc9e55661ab80368ccb1b9cda81fc616ba6df",
       "3a985a15fa5211e48d4327c7871ab41dd404eadec95a03a08ff2429e86f491af",
       "21bc5e82925b4dd9019668afc0ab571698b1b0e2f6f4598d33d20909685a1927",
       "c5ef69be9f715b2025bfc791a41cc91b6d5b45de465b69b59f336462834ec4a1",
       "6ce868392dd85d19ec185f186468246ef673050768c30a42745cc2a20f20b129",
       "4b946597bf7546bfbbf2b797a59bc19656d1179e99743e6a241dac50be69064b",
       "ed4a5587999ca54cf5138aae536abde5a76f389ad3e3f8355b26b3d9b02f2fe8",
       "71c07a552b48963a71fb45e93d63a1b7172bbf6b44fafc48a358f18e4a43db3e",
       "2a1f7d0fe7ee2f46d1803d94a30f7c91408db337059d596448461251c03c0bb8",
       "da1852a260a1e89903ca3d2d1b283b46dd96f15deab7df9006ddd4d150d9a350",
       "1dabc04f72b140cf11a4ae182d5fe988bcc276bfec5f841feb114a138ead0cfd",
       "c93a853484a3820326b7ede8b1db6547e5d9bfcfe1fe563ed49944654233ba78",
       "7a4ed69ad6f9d3c5754f6b26e0b1f143f0ca48da9aecbd55bf11af402a8d7000",
       "5a7af550908f76ada0464c3242e9a52bb9907cfaea4b40a2eb85e6416e379020",
       "c160c8f013f52d7ecab31c74ad75423bdb4c81d2ad974d36066f1ac6dffb8d36",
       "9d891b63c1fcec98e0630ae4edd48d84c86250803eb42ad3f29cb9cb3e5b9eb1",
       "c25ee99997bcb4ce3247a52cb7a582bb9e39a204f4aa94032dd161e548f3df26",
       "048124d896eb44082ee34a942d4fee709c06a17470f4cd79e9efbfdf134cb6fa",
       "26b0fe9be0299ae882092ea1f392e17af775552778e16a3b8f04f4c6a1e32881",
       "9bab87f947801f7b4beab1269289a0469e91ae4c8344639e906c3cf136bdcac2",
       "af98e393028090277d9f38fddc0d112c163cd9c4349faae002efaee082e93d17",
       "0cf48833e99c395eacefc88f71f67ba1a300e4120c37903cd750bb1c0fcdc739",
       "d593b9a076011ebb4fe1a6bfb5a412a2af6370619db7c94920aeb545e0a7575c",
       "4e13b7d0bb034cbfc6af938a2cf458d01d65e0dd962952205bc5cc28215b3440",
       "9454830aa6725406bbb94811214bd38d231ba174597e338db32be51506398492",
       "ad3670a7aa121294b02e5ab8f892b4201c87f4c43d4e8c92cca0a02bf68eb4ae",
       "71061e4947884f2ee811004398b705225209dcdbc798b82b81646bd4a819f0a3",
       "d7b6f99d1cd64a1efb9b40e1f9b144e36feefa8e99e460e38681c790da536e0f",
       "75ce75f5d7bec57bfbc20db79b8e6fd7be85a482e461f476669477e1cbe61a8c",
       "045580bbe42163633501cccd1553ffe6d49af573e581035eaa059c750b33f27b",
       "7b0cec56c69ce1bc41ecc87e69822d492066313cd6a76778e394a122033f36f6",
       "91cfea83cf08c1f3c7c892410a59a5b548a5e671992d69126da3dba28c60674b",
       "25f59f38b6c70128fe21e7d285bf67405ef87034700ac4f59176a08974c6c9b0",
       "130c9abe23d93fe469476798772c0458d1489033917617a148b7ef76c96d4a33",
       "3797d6ac59d0590425fdd9b91ac01cf58808714c760a1a4a599315298e980256",
       "48ec895eb5c2f2f7a5b266d40e629c20349f5aa8cdecc7ea2293cc30ef99ce3e",
       "587761a9fc89d9d63d8d6ed55b9e3c104c5828c6ecba543bb4374f44d1d478ed",
       "e4f33e95b10ee78f37d04ba41f62c1d6660d90a0cf43bafaa867ee8afde22360",
       "f43f524dac3dd214546990038a7ff3ef95432b575a726ebfb70e5cdd4a2c488e",
       "33832812fc3c08214f364f3505c173400e0a06a53a7c63b178cc53ed9f38727b",
       "f2ebd19f2bc5d0d5bfdde7675a4ce62c47bfcf34170b03f8383d45ace4c7838f",
       "739412aaf063e7dc67af55284f6374654f5df942103e1df95dce839647a9d45d",
       "303448c79bd6ac1808c91b2ccafd7b2681d9d019654d02a16bc5a5936e4b28b8",
       "0b847cbddc994b91679ec80a8afdf63179912234b67e50fe89effbf311444f87",
       "df161c59174d450b364495a7d70c12baf256c615d3d6c6b95b6d327f301549c2",
       "73f1ad6ae84a27f81713b673612e97f5e819e010ef639cc69d161dcafa58e07f",
       "4fa5b961be03862395e5db7948b3d07fc9473d4cbaaf4a2b8c19f634c95b4107",
       "6bc81d5b7a3e9872311b77e3d2a42d390098e9c24b89dc98abb1b460e785bf47",
       "82ddc59696b33bd14833c6f38cce40666a12ba7181c86a0e0b09d05dc58f95f7",
       "4f57e2085ebecce2d1bd22ff38f4173010f9b214e63ebeb59feb12a470f43ba0",
       "689ded2fa63cbeaf6a5332dc427d3d6f80a4daf92fb920f18f89213d42b249b3",
       "63b075bbb85c5e3299559ae09f59a25db32517680c66d948d4f534b3f4177c5d",
       "520ad98072503e85c239ba72b2c1f55504568b9858bf105b6fbda851f4d0d43c",
       "0d6f252ccded1e2eea3ecbab8a0b1287e52b76db9edaf74df1713f891cd104a0",
       "b8f858f8897db81d633a689286c1d21fd13beb604a448bbba815848953171a7d",
       "2a41c59f1ea2ceaceefb7988249b7c9b1dc9bdeab9ca0f26749cea97fac4c012",
       "cbc9061ab21088f005e966b16b33350905bf39e09b627e24417c6ba99b81970e",
       "f6a9de6352ee8d3b05527ce24a1f6ec8c0270e910a8d4e6ad278f4ab9b609545",
       "0f6bf5e8f4399449f2be25085efb7a43ce9588ef6488eee091e9f40a1ad33532",
       "afba335b8b839f3ee381e11fa270e74990796064cd0cd50eb4ad33cadd041502",
       "ee7d2683ce3bfab3b1980899ec34f71c1d454cc30751fcc75d7fd58d89621734",
       "877ef1384d20a912e51bc08c8fb8509fa9a49dadfb673780c4a2a67f73189596",
       "ed8792fe99840b39b6732e46344df04c6785a832d38cf8919b369064800137a9",
       "7126f1061cee1a9716f608b5c1b3d8b088c17199607c0f46063de9b9d4c5b776",
       "c41cddbe7be1ba0c97aaf733e59d6badd83f9c0119057aea48006296b241f160",
       "9467277d0ac1a2e2c4fe5a99beab3bf66070f1b00ab38ba8b5e4db8b76eb4170",
       "0520e2789f17a450fe57d55d3fbcdf9ec40af3726d09a1c1eb8e5aea009fb783",
       "8194b99c415bcc3ff6f6034f622f2f9b6b713e2b9f9b478a5249593f14583608",
       "872d9bc01f1770e63935e3480af3adff81c791188eea03b9e626cc9a20192f53",
       "e03ab3f690a64c93abbfc5e0bf791c92870917d3dc93b7f7ae5bf18b660c88e4",
       "27e9956466489c73ce3cd7fdc423a652e776ea74c2e8c82fd4e9578baee3fa23",
       "24e45f890fc27ac9257be916733a0ffeaa536e52aa4a7efeedfcaa8ebc2f27c6",
       "4eb16cd0f8943e09bc33bc13cda06c03a43fe3e9ced69ed1e486ab77d841ec74",
       "e94080883b21872b451e769c88faf32c461a19a309e1af20716bfe3d320de9d4",
       "099adda4a33c0c796a5f0a3a2db019fa21523cd03a7a987461ae6cbb23635922",
       "1727b7f5925c2d6baf50b0f6e2c0515c792c37ce9cb0c27391d7de0cceb935b4",
       "08a0290558b4788a970510470bd720eab8e689cd5fe8fc6ff5db32a248c9595d",
       "0dc7362a93bcef1c026cb24500e3e8acbeca762fe2cd30ee594933b2bd52875e",
       "6a91fc1d3c3b8ee107b9defad73a13c808a256b315b446741566add055b6eb19",
       "677e8a22f6eca0950fa9f4e35b1431459bf1c899b9199608beabd46831f3a8a7",
       "e37194046ef39ec283979e83758ef69aa3095ad6babb6bce0ef3f9323343af80",
       "1c17473bd002ad8b246f6bd62febb31653902f853eaa00ed7f8133549f8fa096",
       "20b11e7e4d6707f0f295cd5825cab7101ae850ea00640f69834b5523fb970a4f",
       "2d78d6ef6f5d291eba62db5dde79243509b0d53eaea7bb60c61c508dfef4ee16",
       "526b05c94274c38560d70c72188893ae0dcf00c94278c52bbc7c00e9de5f7208",
       "d03950c20bee6490d0f7d65ffbf761f1781f71e826d27aec861adaed906dd21f",
       "b4f0d89d108314c20f64249399b03119a1352f2a7cd0d241ecc2c1253e29efc2",
       "3228c0c22fb6d6cc71ae55f971e8b8383797239adcbcc1d0d93de4de444fa825",
       "1311dba1ba0d11382472d5f00ff4b7c4d698e24bece20b229e7a85a3d8c85596",
       "ca9ac35abba5377364b0dfd4f4762fa27552d814c4585f97bbba6408885d7745",
       "6a3f3382493cc3e66d0eec6803bfdced43f7bdc416bbf26b9d1ffdf4b5d80a26",
       "fc4944b645d8e6c7b6c80bf8f908ac9a19523a75cec80b5e968369833c9d0877",
       "e5b5586ac6138613ff1fd7d30a591c506bbd9b55ca2fb9c12ab6ff7db597f82f",
       "5fcf3873a6bd541c62aea29600ee95c92bd395ced92a1242ea364781034561a4",
       "841e2971e8a270708019cc933ae230b828cf5c844f0a7fe4cbfd181de58a39f9",
       "4ac99d71334b01ffc007f3f5968f656078c7ff1d6a5f9df3e5d3e015a214fa64",
       "1a926787170601d0741a0204e66a1905fd04f2d54fa09078aa6f8e356004f567",
       "4c28eb425f2d217c89ede19277b27765bb1c0b0023f0f17df7d464a1b9be9649",
       "a56463cf00a94ed38814ac5ff5f6bd78351e1ab7681bd94a2b94cd54a9337cd4",
       "4fb2231a938dad099e1ead5b6eba8fb936bd88b862f00d832ce79673fc087aab",
       "6fdcc4665b2ae90fc7c9949905cd20f946ebc1c57190fd74f08bb8878240dbb3",
       "ad96c13ad8b77ed9db3421e24b9644bda614985b174a66912114d99cd9b08b4b",
       "8f1e9f0a72ee9abd121566deb30a825b2ad03617e4f029f61c54717256549420",
       "31c4773374e841cc7455c6c810edf247c2a66bc6986f414f982c26d7912fecab",
       "986a3d327d1994489c45010fbdb945216d55ca92f45c81448392d90b2c6aa945",
       "3bfd56bfe732f7b7fde73e1e26d572f8d45e3aeccfe5563fcebb260b14643014",
       "8985ae119d9d6dcb0bca804956898875dc75a479aad0883a729e7ca27ef931fc",
       "28f282d8fa2a75b2d9ba6914a41254cc1c08959b8b8bbd41b4a0b1f9ca4440e1",
       "39d4f15bccfdef5f817e7160e20838c95dde98c536a0247991ab1e91e61955bb",
       "f803f0d2dee9778a4885b8360150e2020fff7e6f2b874032c604f6a2f7d61455",
       "8de5a076eec3d871776f7111afeef8583f5f3f15fce6987a801c3dc5fbc83cdb",
       "3311c0a1e380f7240bcdf8bd554013503519e70261ac03ff92b8765754b54892",
       "e64bbfcd6b1b6a9c1d604034e2d02e8f045fb3808de104e5cf159c793b4639a7",
       "b85216e68f487fcfad7b98432816dfdf46ffb6bd5f5bc3c9e611261e69f55821",
       "db3947c6787006ef35bc6ff0b0c0cffe2182f143ed10c7134af116f57c670bde",
       "1f9f71c09f2079679c62d8f5e01c4e9f39bff35608b700d7f962d29b04d55c25",
       "b41cc856b24c2f6f19bf6ab54457d8ec7e1e44307fea7a6130b84c7fdd00446c",
       "e78226c12070d62d7d7c6fa3ae5a0228e0408788b1b52e931d8d82a2e26e1d0b",
       "6564dd838d1584a8d28e01a0e9f8b313b831d0d1d245d9fe55a5aa261a35c0b9",
       "8b88d1a5854f0db6627724990e23b5a4982ca6f8b30492029de2c844dc6abfa3",
       "04c4b19a49dba62a969a576753f5c743d5f864dfc16696cd8fd98724ea333944",
       "0f5a83bde7bab8dca04ba1c6fecc9f4575ea02c1427452fc3c7e0d439c1b3f81",
       "efda75d3613dafa6dc87a4612a3a828ba715f7b28708ecec8f2053214dc63634",
       "7e420648160ed9eef4792a6bab8017290a14f7d82d79c9a6dfd4cabbca5134e6",
       "f4d1977234f7e23986b681ef7bd6112ab5b70cf7c36726719c8b9f1ba7c12873",
       "70334686b59554129a5271fc32f6eb03bc4f87f7ef922fe17d5bab361a74372f",
       "ac351b6f46e2263719f74b0ca6485fbed28f5364efac3a388af533afcd3caac1",
       "c0c01813b89911dc6c7db3e8fb14cf68ceb3cdcad4a073b86ba0c26840a6f408",
       "59bf04c32b7a446999a63a835db7e76dfe436b83755a99630afe416577a922ec",
       "82a1f0188e6fb57e1ba7bb90e159e8074b02a672c65e103dd14789141ab411c9",
       "a3e02119f040e9fb2003725cc4dc7ffd3c5162cbffbf969cb94b545c3744cf45",
       "aea402e9304d888e9d1c7abe6b8e266f315c0582c8c0440f4177e0207e36c160",
       "b30ac9bcabf6e786bf9439795ad6861cba9b4610713c73c7d9884af08ba027df",
       "833d622b72c1241c529ba84e0a7fbb1160f089523e70ab5ccf72c7a86aa73921",
       "3fb437ad3a62b7f4975be569da263bf4b49a7e4da331d1ef281bb2b1f62912d5",
       "628a911fce7bd93c444738b64e6ffe833fbb30a4c124584123d3a17cfe7d9827",
       "c3ba04ef225f5654f20b23f0bd0a1522561c3e2c71ea9ec6676e8a457306ff52",
       "a047e5e499877084bea0af16682ff99ba5d0417972494827ed7061c13d0c540a",
       "74e40db7d2daaa60c477a7ee66f716b5204a57903b6bbfd3b049b7c6fa3dfec0",
       "3cd235653b9d6ba05ee3c1330eba238cf14b5460ce189dc798d1eaee3ac729bc",
       "491f28b4d35dbfe21f1d01a714432d0070a0bb5cf8f5f26cd737d780e8824237",
       "88e1f95eca9e2cbf65ab21cc6b1e384eb2f551de3b35c68ff54b22cc6c712acb",
       "1fbe30c872b73e778e5dca3c1c9d978e6043ceb3be41b4f36f516a5394fd24f8",
       "b8507c548e00f635e342e375d8ce46ffb7f2486ec4fb0723474e38b5c45e77c5",
       "bae251218b90279bf7d5d62138818f10eb61cad26e860a69c3a11340163861f3",
       "ed14bdb167205c56582674fa411c3ea1f9def3373152fe5df1ec3f6bebd33070",
       "e96b8d072e94ce804d3cf81303efaa66996fb643e49cb93d7b30bbed4a242edb",
       "8de85b3f6e181cf09db213b47bda582a2049b78a58f575a499269e47110319af",
       "9323ea8f2dcda83b78f48fbbcc3e633e8799971f557e307dbf521a584170e5cf",
       "e0c295ce3d7a91596473b2fd7b83c33476cb2729a329992be462cfa6da13b100",
       "d695d08e3dd66f3fe14e0586a9069ba5643919227776434e6380f19d48b77599",
       "d92997817128d61207b85bd2c0f87c2df35ea98471f4281fd2d90bea5640eef9",
       "f3e318700a75e304e002f540cd910644439510c358d2f985ed395bc6801f9e15",
       "560d76de7757943ec124af888fef256102420aa414614da326625e6c04a44483",
       "dd8cb480ac9d53e3895e2d89744a9a30c00937979fd19af48866b0aa30489d57",
       "7a26a74547231b86755b260f5f5c3dbb3e62847d0d854e7f2ab83ab53bfbee2d",
       "1111b1c2c7db9c6cf8a13ea268f5e516c7037539450ea6e1a61bc22fffde0dbf",
       "c630e57cb4206b9f2fdb942228b3df54558ba115b32819f5bd8c43c8379e8336",
       "a4a50b69a6db45c24381bde0ca571aeb818f17927bde4f9443e5cabdca28466e",
       "c8caf52bf0f2a8878dfcd69db71e3f28a2183ad13df64474d1ee23367a9fdc12",
       "7a1003c253769cb318b43aa3ed61f52630c9b2aa2df511049c67a82f52a00d31",
       "36cc1e9fc34935fe08e9dbf59af8be71880636fab5ad8e09ab80cec193da2e7f",
       "61db078a806842fbdbee6dda0fb8734cf7901cda575c8520d11dcc0bdf54cfe6",
       "f86dd1f0d8dd20a0cac3374566bae468b8800628ac7a2e734db435c1d02f18e7",
       "1b24b449b54a89dc636db68f8d7314f771553245e5d2e36d9ffe754205461c56",
       "6fef6e7310cb5daf6401e1d7e609a417b7992d09dbbae049caa0108f2a7831e9",
       "86f30fb62e7ea841a7078545183c459703f4b6f546bd511b3fd48e42249ea26a",
       "461256512b163ddd0d5d731ebfd9f3b6a60228828fbe2aaa2826af68123db5dd",
       "129f14eac40f8921e04a3c48683e1a7c85e18791fbce250cb45a2d86f7899cea",
       "b382d8eb624dd92d20d231e8fc46f53538c1682c27125223fe5997ceda2ccf48",
       "48d7347ca722ece64528fac6de5e5cb8a7b80533497e38fdbebc393db1004443",
       "ad3113403897282d71a3858dd0faa6791207c4d169e223a5c10baf89c00e33e5",
       "822b7da8a09afc4229fa877ea496e4861b49c809e29cae326b351a86e6e6c274",
       "8ecda9c16b3ee7b3437d0b0a4be0266c3b1ee100989e746f83ab531d2f3f1e6d",
       "c04d15afc3e3290461fa290bc51075591e68f12285c5d65c3ec48936145ed138",
       "483d259eb0f8b432fe522f8fe19721bba0b3b97596361e84790e40e3f0c2859d",
       "ade7ecf6e7432aa6480f40ac34214fe3a20518dc2299d6ece4cf68abdf5d6cd6",
       "553a7e398b7375c5b75606a41c6aae64dc65f8f2d9eeec3e3a5ff2a451b2e088",
       "3baa2a66418932485a4702f9503fb07a022043b8c9b2f6afbb52e40a310ec82b",
       "c04a74cc41edb2c3805e27bf1e14d0e65d4fa7f91ea4be6a9eda246459e7c10a",
       "70fe6c8470b252588ff8c2a5d133cae67f6c7f9ef1b4ecbded53086b302bcda0",
       "a817144ef58f183ae8102102596075e2e2bcbf8eb9a6dee695c1f276786792ae",
       "471bec9827586b815b4468716b79d2f11b15c4f815fec8087e798f8c0ae593b4",
       "482800c0751e841e79b09dadd95381b68f493d3b5fa057e68675af8e7d6acbc4",
       "96378e79ebbcd086de420b5566b2ff91896936cd3944cb6a626aafbc72c61aa3",
       "d9b60dbe5e61b02e86c1b6b7471478935caf3f4b9e305d3820cc2db6067fb608",
       "c8271c99cd74266d153720c74caf9e159869db58218cb845b188b95dd1717f7e",
       "e5f9ac71d5e17908020334a8254962b44a5502aab295f3a234f4a2501f666b0e",
       "8787cf32c7701446ae97656eed2a7cf5e761da28b3e48f8fbef352b5190e0b7c",
       "17211d81a1900309bd0f6f6e6eb5abff06092666c0465e64f8ec130ed31a5c8a",
       "3ea76d02ae416e657878b67a97f5dbf286ceaa1877669ef1f1d444674eff03ad",
       "bb69886609116fb3a1625ab9ffa95badb6b32e9c534c4c3ef74a210f42a1bb6b",
       "fbf14ddd4c22607deeb1319c0b8f121a090a07df5ab168be8768c8ce82d0d2af",
       "7051c2cd1da8b156cce891c1ed01edbccd792c9760eeba3b1df839d053b60345",
       "3fdf773195e6a0b855792ac4d1a21d42695b823848d79090e00a50b4dae1cb1b",
       "72fcac7128fe9b4439a4e313c5fba55d3d3d6827394f1f02349c2074b1f3e618",
       "ac0fce675585507e35897e4e424006c75b4e312f58394b43b0185ad8eb9d4191",
       "cb9a802a47b5d7a89477701ccecba3035a109a5d5ca436c1ee5be82581c1c1cb",
       "432a197f39bf5db0a5fce3ed7aa41434ddfa190ae1180ace4f143a3526095147",
       "a7e3b565f9e03715f10a6d749acbee670ebcbae7c62d6d79f18bb48044e8a29f",
       "459cc45ac21dc813834ea7c8f5410fdcf8b9ebd7d4813267bd27b9123fa1fbf5",
       "561c20c6aa39e423aad94b2815ea81262149f4a64d00fc0eb6678bf5595fb230",
       "1c6b1597e39bf7932e7076cb39e617eeef32f35309c2f883a9aab26971f5390c",
       "c5aa5f852fde5c343d9a643b4fc1768ecd44b8eaa46b83b9c903d0705564db58",
       "92f4c0ca8f8948b0613985edadfa6154f4991963bc8249d2071a2ecef76eafe2",
       "c8210aa3d2db04103fd87550e52acfb885a22630dbaa3450a71f5f211e858ff9",
       "e801d95e98eb68bfec2380684726a5099072fef69e04eeb5d3837839cee1284e",
       "d4ae42e2ee8e25bba4123aa949f1b6f3bf6af4962b043a728546db7d519a6ad1",
       "ce322d65110c5a0f3711e8f5c52316321ad87a8827ced536a47f77a558643de1",
       "c39bba0e0c4223eae5d0a69b17d0d4cd40e4ea2f967529070f9a2cec0d60effe",
       "7155998aadf8b7131e9a7b713997b44cacccacb1cf97d9ba1c7468eba386506f",
       "55336da4d4bd22e8da75733d494fafce0397a2a3211c902a2d2d51cb9ab82aa0",
       "a9af99cb55ae438b56b53bdd1e9f5fcf7dcb522cf3e0600d9e2c812b573571f0",
       "aebce43fe791116b9d6b48abc0e9fa3debff6a733e5ebd324132acb9ed55b829",
       "2ebc1d00e45aa7de6828fae50bdf35ab4b732b2983a23055414e6d833cbdab49",
       "793c1077d73c1eec08a130e3c53f8983dc03e27ccc0c57184418f8d59c4a8007",
       "ab6e491ae773f0e4e07e6bface20803280629a350aab0751da6535e369bd0206",
       "bbd9249246eef7cf6e00cb83a726d651440d29e7ddde4167177c74b0602970f6",
       "1cb730df8a636b922ded488b980b49cee0c3a462e1e7fcaf936ea7e4ab0a2656",
       "2442fb14ffe44b02ad559d64d18c24203fe0607411400ef8a804cb98205357ea",
       "d6bbe2efa62f133bcf5c1305c18f3e4b85d3a2a665ad778016218b86b6612474",
       "76570f3107162df50b13f9740a88a3bb54c3167ba9bad0249c609e4aab792b28",
       "29756ad764a928b1b238ad13c8e3a0fb72ce8cbfb43d2d36c22cf04548b65554",
       "dd23278c4b5b549ed5f2df2d778234eb207cfa473f2fbf3637795cff50b34f04",
       "04a072c4bfd8c7944d14d7662bf7cdb6e5c02ddc34d6b27974bfb5247cfdfc9a",
       "ac5a5851c8ea876ec9480c1bc02e8de3723cc0de5f5ef1ca1e841862557e5c84",
       "62669874a87c6c8acd0fd2716a8c0d4848668f4c7a09d7126702b0a4254f4bcf",
       "feb05d80b3fdb108fe6dc4933cf39d18af6ee3cca091392b3b2449e70c2c6d88",
       "1be8b53df2a706adc3901b39a1cb0a10d4f715ed5e56d440d4f234206c3ce167",
       "54f020cafa107e9c67e24ad71b9890f46b4dd06a2cf5a79609fbe57a10770026",
       "7f3cca38622414412d4f2abed2d6686e5330aee7181c5c55f31f9e1da833f825",
       "fb7a9b586bf4a776971e22b7a9a0baa7e54d5d2da558e655f554a6abfe399ec3",
       "06743b08427a9b40ec58855db72e09eb4adb9495454fa0a934f00dbe68be0204",
       "cff8faee867a81a4ecb3c8d3b1c2ab5191517377929261b107e79a171e001814",
       "4a72f2331a270676b7456827f3a4c6580f3f546511a7b97e2f90aa1fc68f0a64",
       "7b077fb4f2e8fbb914ab35a79bbbda1b6505c718b660580c15959450f8c70e21",
       "a41836a410a4cda4af4f278f195d574bb57a872c2d34ea2ad4d55d213b4fdbd5",
       "afbdcaf5102a51c1aefce7334604ab8d25efbf81dc1f376066bd264d278c6f68",
       "9450316f4656346ada97cb695fbf21ef54418a1335ff3a378c5f5618f6e4ead3",
       "621f6231e6f1f6826e3e073361188c630ad753fe0cfd2409cd90c63a6c4ef4de",
       "556324937accdbae3e6ff67b441b6e13430fb7df7fc5ac11b6b3324aa0426669",
       "f948ee0dd32839ab1415d6d675f2da17503ea603fdecd791db7a0c5ad6cc442a",
       "2caeda115bd123ff2261e0e4a5d8b8c60203069c5470765f28932ecf189e2256",
       "6729c0339a554aac0e8cadffe8d423cb7fd91c9c1b4634c2209827abf4c3837f",
       "36ef048a5b41af07668aab92d2c657f499c16e751eb75a24e7738083b35efed7",
       "c6258a2da5477a0e96ad0a76fa8db12a83634f0d69a84c8ccc996c00808ed58a",
       "40a54bb29c684b0ec43291e65e7b3b72dbee966217827a5abfdb1f12ef1125ac",
       "8dac369168ba66cf6c51f022cd9a28f8a5d7e50a94df25e83e93fe3fa9c2350f",
       "ceafc7bec7eda5a6d084e06a86b2407aa79cc3fc8e227f191bf70bbd65e2ec69",
       "0a1b1be604d2db95abcb2229b385e9826eae03fc43b08b463c0577d71dd818bb",
       "530d2925496da27294e8f720411f29fa5a42f9604c866c93bc104a3e845da9d5",
       "14c271b8b69a07b4741e370e23647cb9f81cd182bf4de87fb9e5926379b05e3c",
       "f1e30b8671aa5b4da31754265bce75ed0892892072084249a905aee5e8b5017d",
       "f739ee1e314ae7e0fb342b935d47db5ba7ac0cc64f5398aec51cde69faf57a05",
       "df37c5da145c613fd1080dff4ea6c40b68bd9dec96644d5ec4294e177494e4f1",
       "4751b511698631e801fa96a03908e64d9c36092988e5472e9a120ef1854832a1",
       "4e9b396738a250b496ad3a1e9835880f4deceb7e89c43aa52da5f5532cdebde6",
       "308963127143c473dea7ca3d71e882ed099fc6f1e1839f25ebf6d2c585231a9b",
       "5aeabdb9297d60c6659b110bac0d02442f12ceb58a1a36ceafa4ca0c630f3e48",
       "de8481b99ad8396072aeb265439c05adf393452d389b30220ac4997371dc58ca",
       "69f0623db752e91c3ef5f2185633c067b9bc44fcdf53aef88afbf0e89a46eab9",
       "bcf5b228ae0cf857c618fb5ba5ea9117c9eb801c9c0edb3ae29468924adf2530",
       "0be0e288942b4441e6baad50b4af0d9aecf0c3a77e7d42415c116252ee7170b0",
       "dc886f1666997a593f45d10cc678c42a80869b326ffed180169457bc51e83e65",
       "bf26dae0f257b75cda86aafecee15ce49f6782eccb3c10ac85a7d0256daf0f1a",
       "eeabbcb3f844e78bbd001094339e269b379a1e19662a74be1c337086546b1f56",
       "7696a4aaf88cb7ebccf52f1dd42f4242404a9425457348b50a75e9e298aab380",
       "aaff1edd55a01d6d887d15664a5a3c2e53823f2d36739a7fdeed397e876cc489",
       "8168687b64eea781829a38297b9fa95b35525809673b67ba26849958c14d5034",
       "6f1d4c778a0689f6c17b1953f8b9d6536da608572fcf9e8f5b9d56e10fbe06d6",
       "9a1c97a7590920d4f2052cf74ef2e4615611970a3dd7fec6e721212a6495deac",
       "69edc1d2792a286d0262e4f2eadcf9bf71d87a7bc92c6528d29708840a6b8c0f",
       "0bf157608fa5000030ca476d5dc8f274355d50a2afa750c6d6101ac54eba36e2",
       "bc296cbede3e68d8989df22ac060642351a7c6faa28aea8e725dcb7215fccf7a",
       "e2240aadd9504b6ee48ba7e7c301a62184cfb124c8ba3088e1ea7424db4ade72",
       "b5fd0b4ec5572b4bcd671dabc3c9bb95f896afd8672219d3e2f31c28747674e7",
       "c018e64d9700482e1b37d798a14b857a16bb83cd924cbb3a146fb6df71ff129e",
       "d3498d56df85203e5d483ab66fe877295dd7133aad7fac4312f68925b764ac69",
       "c76b2e3898c94018e59587f28ad4ff26c66a8e42eb472d1562e4a49dd209ac3e",
       "9b14960b8aa9879b64faad5d5e4dae5abed4e5af315828236cb86d09e9a63eca",
       "e9f6c70189a401c9dffd341ad3905002e68cc1990c4f16ca5bd1e0fe62774edd",
       "e145135729431154387585d7b4c128ba5087aac78627ed63ff9c525ca792d091",
       "0b5a8698aa5c0ca05ae2050fa107599daede8c66d8e333003a7b9edbf4f5b7db",
       "deceebd02f9b7cde365d4961248642449f9724125e19bfc8d12b4c3aa40bffe5",
       "b9ffc7dca7d33be4e603347097987cc154673d2b4cc44fa8e8172f1d43902d40",
       "f38e1ea68382a209aa824b263dc9a78ff417f7c8a5659865504637204bc764b7",
       "46b6f032ac3b0454a6abb6f337d99554828857756c0a131b628869551e094c5e",
       "14c6b846efa25c7f660adf8e2a3d8233fed482914b67cda7cc5a192a5e5ddb52",
       "90be37bffb65160a6661eb68d34a7e1987412e84ef878a64f585a6169fb2f19e",
       "3ef6327df34800cb5cd9a86f8dfcb3767dc9a860154cd44c4d3c80d34363ac8d",
       "eb0eb8f208b1bc7f7e99a79981d403a149451776b942cf146752e946b856f12f",
       "b8af655efc0bf91057c702ead88184a6cc8c522b59c86726f534f0872be2c84c",
       "edca89268c88a9af92150f0a2ab04b7f19604807bdea899f67332a198d65c980",
       "86f8d9ee1ec9a7ade5debd948f565853a520e341f86dd606b1f770e217932d71",
       "1ac870aff3b03d66a994e0087c280f77fddb0d411e6c1473a0f01982cd553b04",
       "e74c63663df99a5e3724f0151ee055159bf3b789233d789a3ed25b1cb1a54ff0",
       "2a02bc79f53352175e4686d4db0e7ebde63caa88eb8285be2216bf11d1912dc1",
       "bc31d04e02b18c431fda1800db9e06f284050f44461a8f4ec2dd0c2822b37b2d",
       "4bae9ce86e4f6883555c3d7d7943bbbbf05525f191304e36db1370c0c4e76e8f",
       "722ef834c7b9a82d9b38c33102f741cdd14647512bd2317966a93dbdcc3df3e7",
       "9429a9350bfbe94c4a668009d723712762546539b50eb24b91496e2c0a3db79a",
       "1c8af7a5e88ccbba886c377ce2820c8923ced9c708f4604f5cbbd95f00f1d71e",
       "a8426b0a7a58581c60985817073a29e8512c970194ba731c1e139f2e52324d37",
       "68b386c2ac0366546ddd044503b1722cf2eea2bb42b5f9517e455031a39d6634",
       "d281f6a8819817e95510072465a34303a687e817e8da63a8bfc3a2537f79b58e",
       "3d553d2f75f4bf9761ea85a13de890d52e0cf341bd297fcd0606683b017c60d3",
       "a4e59c0a2b4e1f8529a5c30865e07f4687e502d790cd28d45c967a83eb36fd46",
       "3f086b35314844302a296162f1dbe924d20f21f46b3960b03489098087a994dc",
       "5a0bb479a031e2bd7f5e6751f4763675feab97bf0d9b51aca728619b1fb1d3d7",
       "4a9f498bb3d4b64ad61e6d4a5b694fc0c563c6f8b60fb2ce8cf7b142df09fa19",
       "c8f8f70ad7e1935fa98ce6f11469299f48dd14b11d85f141ed11a982a9ffb6dd",
       "a741e9f0ba6b0091eb2b746e3632f09316a73393570e66d22a5e3db70d942fdd",
       "c578617fbbb5c2f9deeaf0b0c0f9b97b38463e668eaface5ddbccc56e3ecb128",
       "d4dfb5c5638cb16098fe4b16e6a03932924f3902381d5f775d0204de97e57f8a",
       "d2a70c89efd8127180a61d9dbba1585b7c89881407badc56761b04346d5e08e4",
       "8d6aa79a730893cf1d1df6b058e061893b6ad41f81b8cc14fbf3e346f09632ac",
       "5350d5213c9abedf6d93a3a633d6d2d6d2c0c61dfe9d74143eb3e675b6360bd9",
       "90e27fe1efd7bbdfe416f58a741b8ce82d2f866f08d8518dcd8df4c445f4d734",
       "f6065ef131bd9e0afd0df9181a8953b6a9a07377fe8184a75f4e6c7537538f10",
       "f37d8b979d91684f4aa0cab1643dd784dc56e3af09e9bddb4777339632541b8d",
       "5fbb92659388485193e37f83b8da607b5c15bd6e77f4eb10cb5753ac91466c9c",
       "7271a467b72caf78b9215f72a622437be7af95791da84417aff308b955efd907",
       "ae5a0f388136d23cb579418b3693b4c3c8abb41ed99ff2f23e1f525ac0eaeac2",
       "2d545f96f65ba55ca9d237a62c5ef61abcf27dc8ca0a7f6ec863d4576df7a446",
       "14baced3cad049314e7606bdc4016924ccd0b60ae9d57650bcc2fa4397958b34",
       "8d946249a8590047f53dc9215b764e5ffcb850bfabbbae637b705c59d4677819",
       "9189bd7768c20da23cdfa287cc45edffbf841922cef92c28e1526c0a7e06912d",
       "1a688b0e4981fe56700128947b4c510c13ffde256a526e4418e44973151551af",
       "215ad04918f8ba00f884c3827a54641d2e3401f2124a2614172b8eee85b5cea2",
       "d8ce1821c82fc473cbf734d01e05a9659be8a2de8ffefda0a12733d0b6ea75ed",
       "d7a9c45ff3cf29a2e1a1a4d8063e89eb38cad330e5b3b526b5c4f271d6ee14ef",
       "148ffc9d0e14bb2b9a2ca0d1d30570d9e36aa8dc5640c921585767aa0b8ac5c6",
       "f1d7ac0387fe9302ec529f8d710b688f5db2b8ff30880886ce3a0632136e8b0d",
       "de4528567cec6658dd808872b8d8b2e07908087a676ddcdfbec62a1cb436665c",
       "03af3c1997f9bc8923781abe876b74ab5c419931595b0a3945a401f39a860714",
       "b48acef4036a3b3098550b199c1c277d54f778b7893e3d8fe467c7b739493ab1",
       "2db9d6fd91ef4113c2a38e4ca59798301b8cb8e033bbc9ead0c91982092d2104",
       "10a9885edfe8c44a5eff2d3cbbe6c0b45960fc287a8a46355af315221094e575",
       "72662e7c5eb104108c26194512669b89028eaed2fbeedfaa2ab16c80328e0fe2",
       "ed4d44a66701e18985d6164e21c51e50abd50bfa5eee5d4e7bef072a8c377977",
       "f7e7bd0bdc89d2adf380d20696530abd7b8ca3cbba9f29e20b3b38b66954d4d8",
       "48ab0b865a7d2548a323e49284232b7e8c6007c6d6b719e9043582428533901b",
       "7e79461ce4c0291001f6f1cc66a12b9d1abb848b1910d45ef7e411965d1e76cf",
       "3388c01b34ae93963188dad75e4573987f10427716f0ae0a9a15233c4aed3fbf",
       "97b2d130ca67d581ae673a71d3afdffd87c331fe5f26001b93ec6fa17c86094f",
       "a5022c230226e4e9fb9b9461c8cd04072263a4bebf3ffd3c4071c24c5e2e87ef",
       "c03767eb4a53ad7cdab9357f3c8fbf9f220e0c06fd93ce2cb8380ed4e606b799",
       "0c43146c1fdbc7128b92036af8b6b6af6d2fe2645efb371c798687ca42ad22e2",
       "b75cc047ea19cdcd7ec0e71c987394b65e540d82fc95c77c061e6705e2f327ed",
       "a49638ce556d20707863db4afa9f5339c3bfa3999105da9e60549ba4181b950f",
       "2383e99ad93d7a32dce153db7192a1b7db56d21664093d99f2c9b9b55146abce",
       "523b3ed71d96c325ad9201ab888b089bf539ef5cab46e10a9b854c5aaa6165d4",
       "e219661959514195895c819671bf1168e80a0dd80dec8336f3a168b082e61cf8",
       "b73c0a70053f8ea3ac41d3b1e0e35fe1bdd97db3e191f611821e0912bed378f3",
       "fa323d92dce98483c3c11d443246abca360a71ce0b02c29c7578a27ecdf85a12",
       "0b44071ace994894cca72ffa7d9695e289683ed2e042bcdf09bac35f8883a6b2",
       "18a2c700adf7784c12e6bff60ff17539b4b29ddb2ddc2c016f326a4dad504b4f",
       "119b8ad64504bb7d4a765ee3af5a3cbfef8d1dae9747588f383c7efb55cce356",
       "ed805b9d7213b4f911a6a4992f72f162c36550ec4d7b532edbfaf84b7b46731e",
       "528cf0f31abd489bbf246117ae873fb671cbf00a269455d813f27f08f3108899",
       "de6c2413f7ea8ef3504c1998aa71cba5dd5600811c13deaf2167701aa79a372a",
       "ce3ecf00e256bc64da1b2c85824f40e7371866b5076bb3a188f5c071d492636e",
       "f04a9a56aa81a02e01965f900bcca76ff0039b0eb3331087b15de582eceaba99",
       "b15c6a2507c023fcbaf5450c041a89ad740b982de5dcbea1f22b28699da2edd2",
       "5112985b1a79e6d934f1fadccb6bcb1215d749e01d8f8a384d92f501907636cc",
       "69dceccd15817ccc755981d2f2dd6b391ef40acb64c375f692c7db9134e67e16",
       "85f54e02621bc4b808f280ea3fb3335e423f1bd04af71aa45e702dd277759b8a",
       "f6210dc6f14dd870e30748e0636e283b62efcc24fa6e7097b80d226ceb0e9b94",
       "d5273ec0985801c9ea2b79f2c1ba805888e854734a17e29e16fbf94a45263fc7",
       "7075c68757abb957932822b3d47eda09d076dae9b9f64a09304f46752972b2fd",
       "e4c927dddfc609d26dbd44ae2b868074b1a4ea7ab209af06c3d7812cd69a99bf",
       "f549259ad7baecb64882c41f9e0732121853f4d5b097ac7c56108a71f77b27a8",
       "2edf53fcc2333c643948d4453e9d3158b4aa4d0d446801a4c6e60b2795150c9e",
       "fbdcc89eaa295b11ccbd30fca3aae85d7a8d5616f5547c6df1015349d85f70d4",
       "0112728bf1bf36f2623a18d2dd535f4300715d044c95955c975fdfa8efc583bc",
       "66bb1f7a0398e564fb0e833f537105ed930841b3c7d6f580e852c7073baf00a3",
       "c7ca0f2ffafe1853896de7da16ed9f5d5dbe6ae426470aad63b672132fa15728",
       "ad6b6354709274c39505308c181c8dc71271c27340079f03ebf5bc8400d56c2a",
       "800adfe4cb86c1b7adb263982a3b5f08bf5c2700824a0224dc6649e317bbe0e4",
       "da599970dc48dfe02a6b5cbdda721afce461006f75d3de17eef45bc133d77bf7",
       "68a39eddfbd08208fe7fda9a681890b1e7602093ab6f9d63c800939bb560b91b",
       "75ed8c34066009c96bda11c919368cf8acb765de8ab49f529d667d713cfd9cbd",
       "b70b177ee4e1fdf7c9ac8096742e2e47eda556312c1a8bf0e8c4b131e443090a",
       "6f0fd380539b7545bca857f8d14a724acbb8ba8c370eb84bd85f628724a1adfd",
       "20df70f6806dbaa952f42bc095fb1cfb9ebc12188d887bad06492d7bf4f149c7",
       "13079671be2d3ca3f238d56d6bfde0e68662eca07a76f2b883f1cfdee82d862f",
       "a00015305cf5727fca333c0652fda3efa14b2db5f3b878d1ffa87f856e6bdf45",
       "7ad63cc9d6136783fb3c4a5cd88c75ce54607ffe524ccc211d5661f8ef727a9c",
       "a4ac44633a366b5db83834d234272982b132367d8b8f55df9e6e6f6736347a6a",
       "f3c085bdab0486b263f1ea23e56b387ce73364d3817b9f63db6b1c5b21a7cb9d",
       "4e29df09fb6ccc21b5bcec41980bcdb4604a009a0a5b5c7a3a52d2ba74aceedc",
       "54fc0bf1ccb7b062cfa2b87e042e28319cec4ba43aa2be61466b2cc55c26f909",
       "cf0877b38d39964c30775d2c72335ca5cf75c7aef891f9a7c538b52cf6a4212d",
       "3d5b2ea612b84ff1ed438a450c8dd0a3c52d867dc8404510496f79f1e572b7df",
       "dd2f92f572c42dd937445cec4c8aee92f2a2ec07aea243309e063f8c091522a8",
       "5e3b33849e81e14c61aba17a9dcec397f043cd7e123110c152454b68796af4e5",
       "76fadb5a10da068e8b6151d208c83f43320c760a0cf2876e2b3ff2a9d9b7e310",
       "48f7e90a85f67abfa1dfbb72954f75a9892d8565bb2364bf9bb2996a9565beed",
       "2b2d333603370ae0d2fb54bb492eb6627cdc896f98a1bf5c1130bb3faefeb205",
       "ed50603ec4df2b2db0f7c5f6b1760f1f112cc04d56bf714f921593c69937281e",
       "1f4528ef1e3eabf916602971eaf78df14f992f5ca1507a7cb5a9905e181562a1",
       "40098ceca683ab5ff14e56e17063c3b84cbacc45105b0ab8dc1bce0384c76965",
       "c456488919e5ac0e0f7685c09b7d4ec5540faaf885933b862ee8738a6a0227d3",
       "c10b8abc602c368d7723e6c1dade462228740ede5bdd4790e9f7ec4a13613c2b",
       "3bf3b9c0d7f1141c6e16d0d130dfbca06b56cae061cc3a13c51145cd75375796",
       "4abf688440b0b93772fbaff908e20b9dc2225316611448e307f64d1196bf3360",
       "da5c5555f3d69ac41a809a68bb6ef69321562ecc14b5db0bc48257f087f74361",
       "8e3f2587ee05bd0c9b6e2a24331208afbf7cca760ccac9620e04ad2c2abbe5dc",
       "053d1210a7513e9f42f3187ac52ef9a4354ec79a5813dcd18ea3f291e1465d62",
       "141da98790dcb56f35d2c0f895b3f3bc7e578e7e26bce8485302c24780ca0a5d",
       "b3deda62aa822ff7e62f8a01fa8ec55bf55af22badda511109e44e36b10bd7de",
       "6e76f9f11afc231886c176512c8dd422e39d6f52888007f04b6bf2d0a226f91c",
       "08caa4ed2e0a8a28b5e28dfd1460fac3c6f67df109bbfead1b4c0106fdf06b86",
       "5ef218c46f2fc21bb355e943488d871e985349cbf58f8e9851842f7915177c64",
       "cb7a61ef65077398981ccd22535bfe9a913aaae8cd5f508eff765c16b659f87f",
       "2907d578484f7613f50ba54c62e5cb55126b6c9d21b5a0b84f23f54d0ed1e455",
       "569c642bc2e015e2779a64cf02e20b3edecdfafa45d0f1cdc17b40a68ed02337",
       "f2bafd84ad6b84bf34bed5d6f6158b5a3610a6c3feaece9b7d098cb1b51d811e",
       "33feda9cf1b7cbc9664a56fbe7599c7fe5fd45fa03f2d0713e9ac7f3b735935d",
       "ef51ec2a67c324f999e1e021eb598c9756b56ee78cae6f46d44116e6f34435d8",
       "f38a3b2fd9b1b06444b3e2beeca54e3890700a52814461dc1a726d853a95f8ee",
       "019a39dcb54f73e1c4237c3a7b922e72dd0e6629d993ee62b2f36371f7b75578",
       "ef5e83adf34843163cf8882e9ce33f06dfd83d53a445e760021ce911ab452b27",
       "643fa8ea2c4587df22e280926fa27f7921a0b0decabbe8c983265981e3b6163f",
       "d820ccb41eefcee81259cec359d1bb09b178bf71c738ba13cb01b4c515df9929",
       "2f6c3a4d32bb654f81abb3b116c772d043733dc3a02ba1773f25a43718e58926",
       "f9f743b0306651ed9a089d3de6eab8b99f47ef89ae76c3a67ce2ad434008f6e5",
       "1c97ad0c52b2fbc8dcf0776696c54dcbbffaf790c71f1ce33154589dd7484c05",
       "a7ce79601c8c8947e2b205f1580cf44e17ca6259997679834e3d664f26d72e90",
       "d3d40fd0a5d6beb5fa2c971f2b0bc8c06a4cbc828b2ee2ede27c1a99adcaebaf",
       "95e40d1f09ecc51fdb2ec6e653ba7b750e4ed25db307dd046fbb284c1fd1ea6f",
       "ca10c23e256f5b1a96251884e3ac3c6835c6c7f1576a223995d52dcb60e6fb1b",
       "d9399578dfb65d506171de6eb87fc517893d092a324af6d1bf8c624a6ac7181f",
       "cda9633ddf406fd9fec4a0c92e90b8549edd35c4748f40e46cb8a959ed24a7e0",
       "9f3e4208bd01a4fdcfafaf767b8cbc13f158c505f143a12263d4ba00c54201e4",
       "a2cfd8962a21844e3427ef5829026df544d444db253bc9459640b6cea2828172",
       "71b165fa1bf3e46dcc3f71f8a1c97e28e2a206db0d74a8f9d70415385f393b53",
       "a262ca29359fcbae4dc53353cc8e58ac78a49a9ee6bc3e189307f35cbad48180",
       "0085077747f86e8222cae65ea2804d93edfaa5bc049f02f90a894e64658a9b0c",
       "924a644a3697270738d712051b33cf5b18ede14ab3aabd735d9630098846e892",
       "bf8c9f6cdde9f083f505b6fcc1fc5261a2ecca3ab943bdb13e83e94b05b644be",
       "b08ecb6f7b9d25ec05af1fe4b9942d50608b2c92f72c3732ecf4fde35b9edbce",
       "cf777d37d53f06087bea57db841c917dcdf17f6bf73ecfbc5f24417790f1c8ee",
       "35fc137b24162cd8292294486f7dc81e368c3d0cfc6dc19cf5e81612674441c3",
       "0daa8263c154e8b8e64eed2709c72bc34442972b16ef0bb224459b2e7bf4566c",
       "ea64880de72ad9406ddf7222538227d79858220416ee719a45a8cc9bf79f8132",
       "d30ada2ae6ea8c299835babc3de2b723bd4b3fa2524439e7da30e5e55357523c",
       "2fe995ceb765789936fc904032d1023f68a917ac3802bc5518ecc5a02366cde8",
       "e5e88eecd5601a80d5ec4b5cdc023cdaf4c64a80766f236ec52f07fcf53f1899",
       "fc8e9089af2fa26d5d5cb5e860ad9c0311427c2cae8b7029b7ddcb260c357e95",
       "67a2522d3d0994b877a5805846bc6990692b94744912b359af7430f45275df66",
       "206857d10923ead61743274b81c70a57fc19afda3000366137ae38c5f558416f",
       "ce8d83c4018df79bbe54285368e48acdecc4d0b34a49cb0b3ef817ee875b53ac",
       "9dbc1d5b7f99ccf89817f75df11f9ff20254ca018a4bfa1fb49deebf27a6f7af",
       "4e66ae9740109c9905027b1eca0a1bd7d4fcfc6930eb8e2614c1375db6fdecf1",
       "80a3e984f16d4234f6646216ab2f9d640afcf07d67c3a3b70522826c1b3b6669",
       "d4578f91327499a6e3c95be1311507bc9cf13d88ca38cbddfc4e5e976dd980cc",
       "3d4658eb603e0becf7cba93d241af7718c9b674b9c09fdd716019a90ec418a83",
       "826b512ea97905b60c372716f2c33584d864e53ef4ecc4d4f6b7780e622f80c1",
       "6843198b6a60976d73a66051c6bd16ade2e6554992e9ff23f36000a91548c4b8",
       "644aef2e6e66c137837244ec5f49d9fb1a98b74b75069414571a399031dffc70",
       "4945f78c09e36a1147c5b503790d5f5c1f4c4f1ae0ceaeb9b250fa3fe1d7a8e5",
       "03c968ef1fb1b3b53395ec57c50006fbfced90982b02774224bd27672b1a4e2d",
       "6a8d1d7c2002b6377c96f3277d9c38a3dbb16850fad258321c51dedf48cfc4b7",
       "daf4bcdf6324c2c010c5eeee81c1522d983d7a3aa95f9e53377d6e647c61b560",
       "f803b5d8b5b4f8f74cb54f3b5dfcea8b98d0640864164c532154293c90a98c8d",
       "6a38d62163d8c0e29cdd9020bff2e455d4e015c3bf5c2d013e67810317237ada",
       "e5b8e3df23c45fbfeeebdde486c0b214114a09d9484286b0b121553cbc40eb03",
       "305bb4233a3cc54bd7c238697c66236db0b693944b93e336fa1c6a3102b721c1",
       "a87278deedbe878c8adcef3c3438ed200b76e13d546b5dce91de2ef031da1fc4",
       "e15c2725fffd7f9af8858632ff3b8071b859e8e0ff415f539ebb0287ead60c3d",
       "2d6ad16e2131e0fd590c2a6394c6f65f17e452b28e1c94815cca39effe65261c",
       "de7fef43f1de230fb8d52a7909f9b556d9a975b6ec90165265e6f098decd7823",
       "7406a2c53acf9c725406394224a5c2f63ab2a9a4bbde4a1e375918792b064559",
       "22e3fa945536e55933854f0e996cf6248679897330fe953a2ccfc86f04198402",
       "9480f668b3233939acd92181267fa39b7df45036a7eed87b24f46b061becf34b",
       "aa63eb0bf2b3fe0bcec822f0f9b2eb5c8369170f11a5eb9560758cf075d93419",
       "0ca652e55304f2080a6bdc37b0e13bcc075ea697ddcc0a49677ceec3811c2d8d",
       "8950323dbc342d2170b113a96cd43226c9bd257237d37e813ea153fdd51dc4c9",
       "348c7053003c6da4656d980e5d9cc7527429c1aa554e8ae325fedf88a8c18f17",
       "26c3d803580b42a2a169c6db57e47ca5e06f774a975ce78674d7123f9240e6b2",
       "4c93dcf6a8c0c18f0f072ec257e6c4ca240bce971c937b16a8a42a88d2236cae",
       "c949605c43b88c864a7eb2ea371d7652dd9dbe465ce2590a7ac45a81238fd281",
       "47be7087774f0973d5a538409fea73e0b4c7966a65e166b3658d96b2fddb39de",
       "f68b81715b600bd5427ffa11629a1075624e60322796a67ddaaefc4d4e8b6df8",
       "22f274a151c588049fdba9a0f289fca6a8653298a343af945c8bb898eb99b61a",
       "fc379919c25da2c9dac5a23ad5a3194076dc3ff1f785d6e2b93bec32fa85cdc6",
       "3e4373eee9641ae270aafaf93e4ab8457a69ed4f1b20243cff78707ce401fed3",
       "d3a55c303cfff3a6093aef227b7aba93b055d49726d46aebf0d27e4772f4f7fa",
       "da95595e8ade770aefc7b16861a7969b35556b179223ed12c07fd377025e50c2",
       "166546c76e4871377a7209cdb120406ff4fa2c7e93e9106e87c40d985cb4f95e",
       "3038fa82b5d066e4d1eedc03f224d67b2d98579e02c017214074c038a47929d1",
       "769276f2d62038811f165b6bf16bd393569059432fff3957a54e8c355fec5794",
       "d8722cd97a3b7d5254ab2241fa11dd486f20ea840b0f828a0931edc1be001629",
       "df943d299c7e63eaa7a870d322c90c95fae6dbeae85fff90a4a5398f0ecf8c7e",
       "eb9ccdad683217d7297edcaaf5ccc17ff0826df97bad5b7286418b5bbfaaf5a6",
       "16a1433ff8b5c91bcb664172cdbef80d410610b803fb873eb960f05615b8434e",
       "dc950fc4205a5a2ac3a5a019c6a360c486c1d27f76d55f460fafe93195c1b6a5",
       "757b3852390e9c472077331dcb7ccf86c2dee52d62f86e2604c8c207ccb3a575",
       "7b251dc54b248c185e1530af1a32b783ec47e378bde2dbb4e1d2f191797fbced",
       "f4aeef657753a17bf3569a486bae1937e321bc59e10f2267c94891036eb3988f",
       "4782c7f9501ba9938db8a77a940f84a6805f2f1e9d98decec30d0251326a8933",
       "e72091200952f9400838f60e6bca6f4cb64f50cd325299cfa439a7c19c57e1b0",
       "4699e5145ac949187f3794c2dc85c07437f7c49344982d9d67656405bfd27b2f",
       "c324c94f63d539af96962b2bfd1ebacc27fee13d0c8a1f8fa4ced00c674caa01",
       "274cbcaf13e0538f7163b869a40d7f9a862aacfbbcb3120c6e0441cb1f1914d1",
       "d95530de74a0b6d9837cd853eb0da4a4c06161a27801bb85844f1fbd632ab9fe",
       "2ee8164599b6d29ffac25dd3e3c035c3df410dd6be73c234638b12f79e3fa664",
       "b6419455d83fd709918750b443d527a66964f8ca8e0f717ead53637cb8519374",
       "74173c2564fef5debf4343e7c13b55ff3ed5182832d2fda68fe887b421caf12f",
       "555a9fd85bf7404c289964bdc4533607267f5cee540f7cf7a8b3e8d5b4cbb098",
       "21c643b725b692a94433a2cc1033f634fcfd5d7b9863b543537922a5e2231d4d",
       "a82d407ffcbfb7d6f2c7a12c596ef633f7f0b817982970de95dabf1fce2e79dd",
       "ebd2c771eb867e665d35e62b5ec94b3cdcce3e47ca51347d644480592f5bce05",
       "8d6451389f38fefea274c74a2572367f62467eff4cfe562a43bfb920295c38a7",
       "7efcc20210ff72533f5205fc36a466dbc85ad948b0684a86194766175b307947",
       "3a4096cb9d1c4b29457378b1867a43ffd824ef610e6e4a21b6d984d2548f829c",
       "f022c7dec196bf15a90b405561727ee1dc3e6edbafd573a5e5478d1e2d1e4351",
       "197c0135fe9a330f0b62074394c852f28513c461d524514a5114eb9da0e0fa9e",
       "3316281d1dc3fc5367874143b6286ca306d1f6b646f98166d4a3d6b72d87a972",
       "a73ae6a9230f9e3ab4701c258b9ebc5f72338eca89d9337686fa87b8443947cd",
       "666a1bf8772d923f8092816c55a01949d605c5c298caa76322793ab3f1516da5",
       "e2716feec870458f9d7e95678668cedf6a7683f2173a84e31bd736d3b257f0a2",
       "67bd8216c59893a818b63bf492029484273b5e4436a49ed770db30e58aca0cf9",
       "c3adb6b245d94ef7245e2ce6a2db54428f5ae0aba6b0f377009e3fd9f9ba93c4",
       "bec4a0dd027f2a696d08b999e0de27cba1b730e22ac4faa6ec67deeb90a3ea43",
       "e8916dfc09aca4fb876efaa63f152141ed887df0c74a216baa12cb9d45a027c7",
       "64e94fb07e114303b268e447a2346bc2f93d3d921df5bc7292c21ae65328d7f1",
       "1e33b8aa41b84b355e9d3ae2b9da7afeb9a09439931e4669540ac97a494901bf",
       "d1ccbb286b862a120f21f1d7d3076d113aba65ca78c401c7726a42e07674c2d1",
       "3e5c39600231c60ad6b529a4c732f04e9f3bf2cd4d0dff89800724b14030bcfe",
       "e3cde5460a411f86188c36159abb35c16a67f3923bd01c30dbee6e6fff880f0b",
       "95910a0f0341065b3fb52c789d1c94c4e71377e69c6ab33863ac4969530dd8dc",
       "d2b1f874351f13c4264298862bf010ae41a30f676bd3b35b2c4309f04a0336eb",
       "1aeff076afd0452a434ea03dd71835eb83411f430678703487088e5ad1a9cffc",
       "ae8559a9c1c3f9f7e65708fbbe8e52b26d8a033bebd8307e6fcd7f0e41c575cf",
       "c67ba8b014fbd1083229c1aeaee1dc89479d91ceab17e23b6539d06615661024",
       "692be2066d5a3cfab73df28b8fa8b1635d576638e089889d85bdceeb55bd3537",
       "ae6361760f48cd4107c2334f223bec61e8d42151bbdbdfeed9900c603e14195e",
       "cd404b0fae1cdc78b99c851012740eb701112c6c9982d8846afb3077dad6626d",
       "9cf99fcb81f84472ed5e51fa3b4369f6e8a7c86143b60c53405600500e13bcc0",
       "c4b18884b6da678207979829a79a7080a5a7d04b6a8fab2d8a8d63fdce9a2e63",
       "e6f628e8f1ba1b3128875c46d9577fc6be0fe766835601c08b125aa0be43fd4f",
       "29be3fca65d17f969504fd15d8fc72411e892b6bc9f83bfd22311272a9adc73a",
       "7b5f4db5d9c4660da31b8a23a31bdb0dfb3bb432f1717575df465040dce4e942",
       "7019d004de4e03f4898cdc4814e5bf11a90c6b5af3061d4a4a05f1f4a909d2bc",
       "9f4a837f4d57d77616f1911801b0e2db9e5d7ae7177ce9976051b76fb5bce1e6",
       "6e706903ec6c703bcbcfa4f69ba168775996c018a5d9b3b9335bfdd0bd781d93",
       "e67fdfc95520408d0360694de62c6c0afb3c7eada12ac8d6658a19ff46ab7ee3",
       "6033fa8d39215508f8e6e35a0f6f8d0d0407e757abbf07fd0191caee155d7634",
       "e7745ef19034ff69ff13b2354de23768af60770e00d46377c3ed747d5b88a381",
       "ff92d77f40cd167f192353c52f168ca1688d74e20b16362e8be6c7d061c885d6",
       "a41bb6b2dfeeb8bdd0c2de4736f177d7510fcbf1367dfc33c7dee13558e90755",
       "6b3790fbdd90a0b8a9320826582ff500f11298a3350ace874da262bd5f5d9672",
       "e34b5c849f0ac049fc3865e45c5a3ac2bc19747b9dd687cb8b107b55b3f59f17",
       "009afbaf8ab1920356426d837e9c9e36d890f3b9ed291a25f533f259535fa3e9",
       "56789cd39686a6ebd0bd24197667bb6d9071e0bb547c326cd6bd29198f7d04e9",
       "9658dda253e9607d234a5532fb069c115c4ce0620e951097e10344a929911658",
       "784388dee671966cde69871eb9af3331c8cfab745b46fbf7610be5c69c8b583c",
       "babf5938a0ebdde5e26d9c9833631769391b0384566d537485f1a7d5c6be3aa3",
       "8bfd7dac457169f7681bb7ba9a82b4168bd402df732bf7a0d48727cf37a94973",
       "9735753b4ac20fbf58e77da39190ba4669ae32e844499aa946a15f6d3f2885aa",
       "a5fee5549d30169bf710a8961247db1d94d1ac71c0bf97d1ad51933e1e3c9a0d",
       "7671b01f18efb1482ff2f8d0deb7d5e9fd4b84485c26d82939572932fbb3f930",
       "111bd85b11ac1e99da2de59410b022f486a857a1614f9d0715e006cef1aee1c8",
       "beb829216f9b809e01d99a3115e686c34b8f7503800a7c5590e1fea48ebaa912",
       "ea72261f42ee8704439b5185026b9367c720fc16d78eb8304ad8b82cc78aec49",
       "d93188e3251d0bb68d8139289664c2c48d4737af34ff6c481f7070797caa5e63",
       "a4a2b488c28e07c10486c9d4ae42e1bb2dfb72830c1902f1b253ea3ec703186d",
       "3dd5944a7dcedc07acec4640c726a8032d8fb01afffbd16fdfccfd5b3897ea67",
       "47fb97a5b9108872abe5840d23636c281ca93218cfe5b162eb20335ea9fa0e1b",
       "3ff84dea4e176780bffa34c59e24da954eaf38233336b983c1fdd83a801bb676",
       "54529bf31f43a890a4df32cacd00d72143552f7d82278076cf94b3d98411130a",
       "43b86c139fe8a84714c6975ab875ceb72d6c06eb7cd26388698e4b7ac6651e4e",
       "9cbef188dc15f8f76e3d550ea2e23c57573dd91275944f9403f53589e1aa8674",
       "c87e7919998feee98687fcf61d1f492cd8fe599101cbee2f547eda6c12624fbd",
       "980199cfc805c6b81527d1fe136e922da72116cd899ce5abfc57d779fe329b30",
       "f94a2a42cc0056f85c5919ad1a0c71b10f9143cb35629a4c06d7a206365956ee",
       "c848db1a09a4b70d97f503165957b6dbac553e1d24aa078fabda33e8e970c907",
       "4e2614dc4646d0aea8fea5f53a8f7e5fa886c1bdf3572b85c725003ed9c4d5e0",
       "e25625c2d431b9d5ab11743d1ca7cda7b7fb86ec9b1790391daa0dfe1183fca5",
       "d6c9be9475fa92ee6c8a51e71e539f791ae69b2354bd242848d632b99dd79a97",
       "36566878944107aefc009a637f2068363af128dcdfa10f17ee65622ad7287d4e",
       "ec9f243b181a8bf107c6a32bfef5da873d09b2f4aa4c9bd2105c89c1938d79bc",
       "d2446c12139d537b22ed82947226b08e31fdebbe0976cb2cf53e0066f99cf8b0",
       "19c42d68364a827b76300d2d754bf8f96045dcbf99b576aeb4f61252a3cac4d3",
       "c1d634b485d62cf4f79748c1055d54334ce0451feb984cf5ed45c891fb87c1d8",
       "020c5df00cb84586bfa0fbee363c174c6de2249f9402e097dc1f1459eee741c6",
       "9d0b91f5f57f68d88d4c90c4c88a1c56302c527a0c9caa4f5fde1af8dc4db2ad",
       "2685685a70b96e0a56382bb3c542a6e063292ffd0fd6b1cbe9e2a8d30418e3f4",
       "80371815be406d38dd187740b6d90bca46ba1ee22accebf7d034d765d712e9f4",
       "bf34af421c238634064fa092aeeb9daedb51920ce2a732e158627e9ec160e512",
       "5f69cf7b724d1679dfab786fd8e07bc760298c343ecff8668548d0ddb02ff7b3",
       "263816745e001d8623484f659d9f86b5494ade6494f3c7d1608fc44f0fbdee3e",
       "fab467d52b6218731c2f6349107931216cd2e9ac05047f4b790aecaa049f21f4",
       "90f3c7b24f65e6e137d019837264c6236a2d510106f1fb027f836f28da2afe57",
       "702019bc9b910337913ca67e14d0ff7c97caf16c55a93df52c409fab715794ed",
       "7b43c95ed6af9ad77b7d592b64fcf71535cad7ed94749bcea65712e57b50ea04",
       "598e0894049b2e13ce36db58e241e77613145db29daf5bca21f254f6013c34f1",
       "22772df546839a75d7f3f38b80a00abcfb57f02ff2cbb5228b1667069c5bb317",
       "f9d7a527e500e9defb17de075d375e6b869a863cd69bb0a011ecd2a148a25732",
       "a94cb08112acebffab0a80d1d8dd0af5bde83c716167b3edf99005bb7b9c92c1",
       "73e83177333b8b1f1b881f0f7db56a6088ee4624f1f25b0b244dc7115cbc5184",
       "faf9127a6eab26824920642804e7cb2e4b72f0eb3cd9e62649da70ed180d923d",
       "672a217d355e4ee33ff9ab74ba37523feba949746d3414e156427afe3dabe908",
       "e44d25cee755e75445fe5269cb564e7d6cfedd94881ecfe9df2e48a030d5d286",
       "106e67e8a96039722c71378901b9ee4c2e9e68d624d22d64aafde26323e7fb02",
       "9f38ed82e9d217ec0d276582b0c12e20a076d759d9d14802e20a52e6404ef7c6",
       "031d7f9ad271dadc83776d3de8662b9c73edfe0589fa1a305cb523c06256f321",
       "b9df29f71924ba8d1f7089d0e7536f33e33fde011b2465af2ff22b5f78390b01",
       "e2d17c0b82f0dae44ebc5672205fdf9e06e8f0ba1368d34f33eac02907de2bc7",
       "0a967401f068d8f4000dda4fc38b4e4318d57196eecf2beb82357d31b63445ab",
       "9c5318895bedaab7027e1ae39109d207b7ccc86adde9b05334af0b083ccda7f6",
       "8e53c5fd8fadd4b06ba13ba2c65d09c95eea4dc098032a1a68f913106644b364",
       "e13caa6561ae3617c6d5a9f0989430b8f2434b2e79b2ba25800f94e8bea764f3",
       "39239decd119b36620f21f8e625fae71c4f6ce462357711fcec1ea40277ec5a4",
       "b71ecdc73290ddf3557ed95d1b017b4fb73eee519c56e8258164c6f62115e7b7",
       "6603d0a38862b4f12bdd6893824c9fc1d0388843ceba58dfa7615450ef118cf9",
       "c5bd1ab24c4919954cc3595f6fbf7b65e99eeced46d685925132700622e9c2c2",
       "dbe72db2c73321785161547400390ffd986ab097240f0e22e8f1eb33b5dda58b",
       "fee1ec44cc113dfd5481628e10f1f078f99796499b0a210fcd0b3d7d39d3ef9f",
       "f211b2a520d671eee549ab1498644b93bed0b9c9be23a62b9296f9d8d9ee5587",
       "1767343fcab6cf78418f1abbfcf27377cff435b023c6f274de492696d1ce41b8",
       "974793aaf26b76118b6b51a2bcd195275113823cd586353f254a08dc6317dd94",
       "6429c4bc4c6ba829776f31c9daf236eb18b417efdb62af81fb0e9cf5bb67865a",
       "8d878d3f815f72a8ef593adefa75abef7647ba689252f116ff6bd2b09f5ffe97",
       "c5adc3e18f10f3f6b56bf336aec4467623d350b0811ad70f1ebaebc175f18bb6",
       "b9dec2be8fc231db24b1b502c24adddcdcd18b4c03fc97fdfb0495a74f2ef6b7",
       "f2fc4c0d6462c815342cda53cb2df9cc28e7bba13dac513dde209631fed3fc6f",
       "9c28cecec7b216ba90fff6e4b5c1b50f95c9e1694dda40931dde41ff6d2fd227",
       "8b8e347bad74089fd25feffdbd8130f99da491a2e21105a710196ce6c767501c",
       "825f4894469753e67073a684425d71d0f237e1d4e77c234ccf8401d73ef9695e",
       "f89c22df6117662caa3db325bf8325d47533ac73bb0cf0f0083f9ca14dbfd466",
       "a53b2d533a90eb196939770e756eb9352a3ede1af1049169024dea0d3ba8af21",
       "0f5508cb1f38db39063dd0cd1f2ead576d739a3ba702e728389a0242eea444b7",
       "9f6fcc5c6fab673471ee460e14fd82eed3df946757d090fdba997c7580ae9234",
       "b5beed686aa253d70464a0700c968b107c67f96f4837b3e2133882b98f7a2f9a",
       "af1f691a59e9ecd6960b999efca36e4c69af537bbac57b2c062b32431edec383",
       "499a54b72f00174632b62db43286ae7edb71d91c9531b7cab3060f85fd320f7c",
       "aeab1674797e1ee23187a0a9e0324a2ebdf6d286a24358485ab099907485ea32",
       "4516c90e64b74ba918e5a22f21a3f15e2187115f0e7daf1bdd3c98b8e0c515b9",
       "d8dfa91ebb028487df33457cae26b7d733d5de023ed2e165f11ad321b4e9f931",
       "6b6c70a6aac979f2f58351a55c6ff53aaa452156a70f070f55e0ecdeb93fed6c",
       "c9f796e2a29170b83af2bed6cadd6b2a6d1d98e8c51d3f37c408782dacd9880f",
       "30b481e9e397717b3244e14f6ff7a55d603cb8ae464bdda7b8695a70b3705ba0",
       "819b8e31ce78bb20ef3f5faa4bbf67f404cff448e57cda1e140cdda6e4aa7593",
       "02f4d20593dfd3b966153012131b2f233bc8b442515098118accbe0fe87e7c81",
       "0ae900703ad9cbc89f0eb937f41f1510b25aa2bde9bf260a3b17f27d69753b9f",
       "0f5ecc1bc564cae98643842f7b907f90d5ce2088a2e940fc503e22d584f7b427",
       "4b32df1d14342d36132d0ebe783cb28b81f391a80b237ed5ec012ff70c201c7e",
       "6221b3017a87900cf4f1995ebd8395367122c04535fff6f48a0be88dc36ea801",
       "ef0bc728da5229720a26bd2352f117cacba3da76e211ad5bd936f32805b42800",
       "233a108994187bd0e75c2bcb3ce30edbcd6da6dc5dea3ae7bc66b8901dee44d6",
       "4c1ff95f0c3d0c575a0174f9b00ad889dd6e5bb36662ca19483e413fc8a68fe9",
       "af294ed0b356e21bafb224b5720adc7ad29d51d2522575519175aef8764c4fcb",
       "cdb2bce8447fb98e6ec99daa1f081a1364e08745df978c7b0aab7d3d5c1eacfc",
       "eaccaa782e288709eff43b390a67c5f700c69172b6d5dc32b36be5de02ee86a6",
       "6e3e4ec8aea13cbc1378cfaacdd0323c1712bcbcfe587228407bf620ae03630c",
       "162d5d437921a92cae8937c4be0fb5c1530da00eacc473d44135233b26113b4d",
       "282ad1d7752b62c3842035d3bf4f693fe40a23c215b050ada066d013e99363af",
       "dfd502bffb7d13bd3715531a51209ab514d1a900ae5c3a27f96f5a041c91f131",
       "13418683dbc27f63a55a7f4351affd72ac0aa92e62d98ecb123284acb1eafadc",
       "0a0bfd6c7e96ae2f353fcaf125d9f3ea50e7a3fa0638d1b86006f0e1cf6f4f28",
       "535212a1e5aa39437c84adc322611b2400a91dc89c54f54030a0feda098ad79d",
       "bb47d4da245edaa02244d44dd33a31a08096ba60a7970a9538c717e62228fb6a",
       "80b6a0f0eb45e604e05c5dadb979869f6aa0f6fb0f35ecd8580d97a4629616f3",
       "11e6725cb32604479fdea5c3b3f0e14c52d25461a835a422044ac765520f9ca1",
       "91dbb4fcbbeaebd59d8c9b8271bcb66391fa958f2e44cb0c97d3c14ab9fe8d05",
       "712205f5de2ecab7fcd1342ef1197c7d8ca95b2a0a1b5d943abf5f950d61d992",
       "774f7d83da1490061a738391ac725cb0d36aeeb6a7a4448ae1e660108acb998e",
       "0d6dff540db2d19aeb7eee2ffa94ff5cdc66cc4aba3c26030a5d0aa5038d0002",
       "9e3e66ad984d284f0661472b83b012f92b4abf85a5dc8365180f88247b58ede3",
       "bb5dd4169c259e94139e3cdc99d6b1e29406a51a0946943b25dac286b6e46578",
       "1f791dc1b69ef91ae2675e8658c0ca37ee7d20f78b3d55c5f5dad7c5d8cd4461",
       "6d6f6a77dccb1152467dd0759c704a6f0f67d09a3faa3055635e9413cfbce352",
       "fa772bd961d34c108497e95b2334448d7049cc80a90e6d1d93daa3096c3aa2c8",
       "dd7d5e15e86c521dfacdc79f082fc8a78168a5862421b170fa6bd4d1fb26763c",
       "888ec65f64e22899a2be35a8a902235fe7c0c5028ea983feb98469dd2c190506",
       "7a3e34830b26aa2a3db7b98f6d19e6501fd9cf9cf3d52feb1eb75f39a9b77544",
       "e0c4096efc27ac6de24effda2b9cecdadb931bcac8250acb060c798e0c328f0c",
       "3afb6c47aba876723875c5541e6d7e3116a5979ad25e00762996069b4cacc7b4",
       "4015e054ccd5999629ad95147a28c7110904baabe60786111fbe169567e4eca6",
       "af1503859b7d85c39909ab0d04fc8ec9f787ed6b3d66c5b510e8ded8408eda99",
       "71d823caf2dd9a198c33264ac1bfe070c5073454c5f7f1c201e3fe28ba09e3f1",
       "b4242e085a8e2e5c0d408702751609f3d190030218f400e9b06ea651fea99d58",
       "b5e28eb2e6b6db08f18196ef5f6434e0088bdabfbb5152b30fdfb6030a2affbb",
       "295d27e10410d41c1a1ea999497bc0d563b9ccabf5f196c88935f03a2c582c5a",
       "1e2e90285ae642f3ab28b814e11f2aa7ee469b898b8319851d8338751ee8ec50",
       "0f793a47dce32c02603ddcdc6f9a946ee0659e53ae847bc2a22b5922504d7a3b",
       "4588b7c8eb0fb8201ee8b7fa4ee1bf581528469c8d95b660a2f7f4a7879874d0",
       "8858ace4fbac9f87b3d8e2d5ee5ea2186d3881447f2a2343d8c31049f5a5c11f",
       "190bf6a0827b7cc2c9d9c558bb0f8060e93cdd3442de29e137e145d0d21f4f8d",
       "537581b145c23d12b0e322a738ff93eca31b211ffa65f10ea3785bcd058f6479",
       "ef6462c6d37f47ad811259c4f567a94d8e13bdf2d82a1ea88b4663822ae19e77",
       "c41405983c19063560b301e0168fdbc1496f7f166ffdd8a175de21d5d5c9a1a9",
       "7204ef84cb96343201ed5e7b4d57127eca1183f6007387cf4d0948eed92b8717",
       "83b999f4fd4088c14360c97f12e0dcd18d877468745e93d41a983958072cd1e7",
       "44e8eb33d29ce851c17f3175496c493bb6282509bad64c3d7fb529cabf7d6d54",
       "c6a520bd341ef5dab97ca41646d37ff9bb69246172d63d03db12cf9c7795500a",
       "34a044bb455b83a4f8c4fdd7044db2c0d0c1734b8380fe7d0c158ba623d12028",
       "8be9561a37cd8f1d28c9753f590dcbbc8946e3c766705ed0a661ded18ead0fef",
       "3ecece4d02bc40f514f3d44d4ffd592424bb5bbca8df234d9b8d00c91cdc45d0",
       "1c8e842fa1af8467cb6aa1c0d3f776d4b3d0eb90eb95798511fb788bbf56a15e",
       "3e0449098fa53d2c3203ec2cd20d9ce7885446d0883c6761a10d6094d96902fc",
       "55eeebf0f10c00f24ab6927f90c663f7a91f3cf75823e3a8bf75b44804e74ee4",
       "c33a0943a5cca25a5571aa5fd1d0faa55aab15d55d49aeba7eb2f94a9dc40c75",
       "dacffd30decda25f78acdd066a22002ac675e3307c45a3a44216666e7470fdd1",
       "b9302f2ecead4893d26aec1ed029a139fcf0825e2d00a7330eaa54065fcc1d51",
       "c5d7f799e41a964e29ea5ea5f547b416d57e467a09859c4783a04fcd366871b6",
       "82199f7b36c961295c4acb44fd52b96366ea2f05065cf1818503c6e31eaba848",
       "ca62ea78230b646120ff4525bd1a860662fcdff0c737740d36e595ba9984b2be",
       "951865e4313c26b86c1f0c8ea9052477f9b68e7fc9338c9e47470f1603039665",
       "5062b7e3acf4018ea17cb644765cecb208e126a9c8e5c09218d8a0e626721684",
       "c88c72bd492d39a791c87a378d5c758ac21277ad6e72c44d03da01b4a0868615",
       "053f64d468de7df4eb7d1623a78e5492a97c7cdb6f515cc0fbe410d362e05a4c",
       "4761c26888cf0851d39ed15eee1477ed85defeaf177a4411a00ffac1688171cd",
       "cde8b4c489a8cedf2720a2ee2ea9aaf4f72e712c4823e35b542b841dd82e9238",
       "632f236456e939b2337e8cbc2e37181ee425680615733287c22436f49aa1b3b2",
       "8daa752992db755a72c315f25f94a577492f8d458e1d94879db39bda7b457201",
       "cc14349a08405c36273a8b8a64b46804eb84a209c0aee2998d4ba3225e861f2e",
       "8d5687743f639877cb4e4f15d2f4e207f5d3857e8abb111ee06f4b776f138cd5",
       "fade01b1ee405786d76fac09878b99234988d7c7c547c67fca526faadcb3a9da",
       "957eb319e21a7badb73923da755d10a94a755febfff144e48be398d3f01571ec",
       "71d02a1996d268430ef2785f3cbe468578abc9bd9bbbbbdb7e4bb7ec433ae2cf",
       "2d57605fa510020c971b1a2f01b8022c30376dd1c5370756ffc2aa24eae8cf11",
       "be9b8b9c2a177e3eeb197ab09d25723bacf47a6056b1034de8eed4279fbac9c1",
       "b80370c26b66d4074e07f061fa4a7533bbfbe99835fe6e7e2fc07bd8180f0662",
       "a857755e6a3c066abc856729331d6884ed872ec8357e72e70014b122a2caf305",
       "a265155bc2d8e02d22f2cfe5e34e766d5c8a891336878db88a55be7378c82700",
       "54d965cba90e2eadc0dd77e8c78b67e2496a8403b1f2d226be9aab11c298fa78",
       "aa43dae1a65e7b9d79a5a1456f1f619e96c724f029fb1a5bf6e9bad06622c0f4",
       "d729f65e15f89ab9f4fb7f248e2a0c2731c3f00bf8c49882b056642f67e58d04",
       "1fc54fb3ca665f559160146dafaed75bc7c8b13d5c11d01254ab0616e3c9b136",
       "da2482fb9c796cbe2a3b1fe6f8325309f45b390fe19460f12c6286047834d049",
       "e55afa3c1106a2d7c5572ce918620665c659662b6db983b40f52072dfa9200ed",
       "858083f4e807e777e75ceae53d2c9209b49b4a977a74993ccd899a3b3cd32754",
       "d007cf3bed4b424545fe7820e42bab0ec9e18674140d73a7b46396df431cdfa6",
       "110ce5ecd24882ef18d21d54a763576e63d1da45eb94e14d84bd2572bd41c1cf",
       "cc7d42fbd622eed9232d988f7e440839237f877cb9d9bc9a79236f2cfdd36f9f",
       "41974de6cc88963b5df927904f55bd33f2e6e2a36881f7358c466805d303d02a",
       "691eb6b0edbe70bca7d6396860055e68d87ac1d9d7da3ffe930c3cb2e448fed8",
       "e36144fa8a31a479534d4a356162e8607416c0a74c44e7c10af76d4ec7a515e1",
       "b397c221c8525db9dc18a1c31e141890b6c3435559930cbe20e56ff136b04bb9",
       "a9754049b95101666395f90a5b0866485d8171db1043029ddf5f58e95a544bc7",
       "7587cf70552593b597807425db61f7d1b82f70fd8f0c786458a0a5eb1e07acae",
       "0fc0c8a6def46673c2f8dda39943767e2af19cc583f3841d729360172040ded6",
       "3779f9dc2379938770d87914e52a7ff23f93a9156a559c9e1de862ee6f5af5cc",
       "7193180744a18734f968eecd85f0261468815fd26de42cd82cc2f14d18a5fd1d",
       "75c38f98e7ac4fb0e7dd40d73ee47f275f741a434b4367149f4461e8e887a79e",
       "fdaeb1a021115449563a0613adad00a43a9a311add58a1f3f691c6479467c9c4",
       "51c903101f1507ee4ae8a13134b7b1e8c49363505a569a20967724afdb0d3346",
       "3dbffd39856baba73ca721c3ee1e14b820184899fe52724e651d4fc92a0ec59f",
       "90832c8832c619ceeafca20bd0057e8b71618da4d90c3b7ebc18ef9ee6eeae3e",
       "2588dcf5a3026cd3654c83e7cb332f2a7eee920fc453fab80008326340137324",
       "8395e03b18048dcbb77833d948d2285ad0b2a0823912a35f0e281522766a9b8e",
       "830e4ae2fc1b04c43b4a2a436fe6e70c90230dcd4b7573c08b249624ada2eb01",
       "6aa4004f8c43710d29da8e18d9ed9be52e7e0e1e9fea5aaa46de5747b9858e66",
       "df78b3af8262f8a598682053a7e477c5263b6b31e4da4ddfe28553440d2f33a0",
       "cf3b8d54b331abf96f7ad56374adce752c624cce6d8761823d8b7c908b59b10e",
       "8c1f870af7f66820ddada07775655f87aba1e424979e306c5e717d2ab2d4e645",
       "65648be6e6bff08990e1435715c5cface20ecf56eef8b9ed240ff5387f1d5fb6",
       "89add805d2fce0171aaa173c21174aba515e4b0e0b29b8ba5aa604e5c1938bb8",
       "f3988d273902c2ea22f36be2c636e42fc59a0daf08580f448dca3de94b6158fe",
       "34b8e098c0fa039c8222992e42978597d40e57e0ef886786d0d02887434e593c",
       "dbb719993725805a878946ad0f9b74b010dc035b7cb243fa47f92580e1bdf455",
       "fedc552c564e3c942309677636041f6b45336362bad45adfe637842db3ee8c82",
       "e6177a2ac7e654cae2cb6f971535b3d00f95962a600b804b7eaf87d25f6e1c83",
       "90a461d6a491a4239096d0cf486ef0c48c5328c30faeeb8da2f110d42256096b",
       "595e1103ac79c14dfcf75fb82814228c6f8b3f2bec09db9047850ee32c28a91a",
       "0dedf6912be3ededfc88b892ddb0a65844e4d16425b72e0e73819a6644454a61",
       "8a9077e5a88d406e20a7f89258c8023f72a5405453b9b7097d1b886d5c52e135",
       "40150261365030c757e542eaf11f99079d8a4d1bcba3c267635cea163b6d0ab5",
       "d0d06154012be8708b92867c58737d50da293e1669e781bf448ee66a51802b78",
       "3d3161a8fc3558c4aff9ab0a664f6bcc50d57181ead34a0e4006fe6ee2d17c33",
       "f7ed616478df93b73e2262c12f3890bb384f4b63c0eaa0b3b1545125618ff6d8",
       "236e7e8be02bf7ba69c7d5ee4a76888f12db3d257da22454756b9256bbd6ea4f",
       "3fdf6ddc1e05b454105b31936ffc476ef33ec80e27aca41d25f62040afe1fa0a",
       "65181b59d5cdba59495ff7c91c5cd5bfc6c5decee88fb70442e1bff8d5815c15",
       "df0c6797df2c8be08471a15692d795571bf0a6bd00f88cfd7cfa1ba3d98b5de0",
       "8e4efa8364d69ca66e56f19fc05d85d342e953250710975fa903f86a97970b2f",
       "541e2cc50384bbc71b1a2373d7954a13c9ff9cfafc0b68169923be33b8aac0d0",
       "09532ae5a5b8feed096ee44a21973e2eb47fedfe53f9f2781ebdee7e14538390",
       "a9bad20bf494dbfe91396523571bec0b11d9bc393bbbe450ead77501e3b53639",
       "4c426ec519e7d6a4fc3e81fc1879966fb2fbda7a4edbca7e24faccf9fbbe7431",
       "5ab2ab084953a1bfd166fb98d7078a3d9a7acb306bc4103ba63098bcc1ab0eb1",
       "070d61b6ebaf9371b7dbb394de723aa15b6a025b388d8d1c7001cf0208fe1200",
       "9f8e6e3d9e76c1c515c50fc583548fdd69d859d2c9feea64a5897fb0dd4f2ff1",
       "ef61291fb822d50c36498b1e9a4c3a71bc6c8ab95747309d3f727fe42357b29f",
       "eae7d1f14412d14263b719f21414e775ae5da914bfa08505f88cb0ca910208d9",
       "fe6d3a35cbbd56465a498a5b3deac2010dfd53433dcdd4da924aacdb5787fceb",
       "2e7c70145adcf239c4f7fb19d9fa8e17890e205a07a6ca2d3c494e4ff131c4ed",
       "b28fd232e9af0d08840e8f25847d03dfc1414eaa012fd2a26b87244c955d91f1",
       "1c8c4f08c1e81f3f7a95c8a9327067881f4750e65df90624203f07d8664fe8d1",
       "3569fb8442bd08af1877d6ac78ecd43d953e758531d6ace861a2c31803b0d042",
       "b9399e34a85b4383f59a624538a49439027c1593d597291cae527f5f356817ee",
       "771accd29baa9a1bf52ae944f72fe89e96158a3c4a4c4c90f957cfa56062604e",
       "ae371a5d6fbf3584f247cb93b705a0a68d0eab1752c2d6faa523ae480f9a0fa8",
       "88f6d868dc6c6b66b1f84520d8ed998c77713a178b137c57d828cfaa30231a68",
       "9b5938d8aae09bc007bc7a1cd978a407e4b0ca394d3ac62542a4800baf661e9f",
       "5dd9e02d588e1a1d75c20f0a664f8a49cb6eb44de01a59db053c1759ab8c039d",
       "6664fd87459f45afdfd991d447b4431a7c89d42d70d8a0b9ab45ec9a4cbce01d",
       "508dcfa8c4d91e595a8485aa068707c7a0eb848eeb6c00bd3617c90aba0bc5d3",
       "cea8fffb804ebbde097f11f5916c34cec87c9626d2f2751804601bbdf38ec08d",
       "3756ca622bbfa7af18655e95016942b0c4e77ccd1e974dc53ec92b6feed1f196",
       "eb2ccb102063173dcf8340d3b1a3c41a8360cd46e440f84cc50b05beb212b12d",
       "33470e5390ac1a154657ef021943c3f8832e983491cfecbd56d637e12a0b9dc0",
       "b18261033ab79ca081d81de988494e4c1729acf7254db5915ce84d5e886ca7d9",
       "d1047b40ca787dd5fb758da74c52c6193fefe5bcd0109d7c0e55d670670b2d75",
       "839b4a0cc3c3bf530a750656971dd8cf6e19aae412fbd249a268c74419791755",
       "d087a30596c233f7e5702923e62ae61c332d51c27d42453a63a8d09b7978f55a",
       "c69d67c6c475ab3f41a342c03e2c83084aeab05a3e7f3ab7197b3a15e7d64342",
       "4f16b7bca2570badeaab329df019e78aab1490a2c1b62e84b969900e783ce1b6",
       "2cd771e99278eb921e6b4217518830fe80961550e5ba3314b6fbbe6357ab934e",
       "a8cfddd8e749be96efe59cee266d30c4c603cdcb24caec8c8b71ea1c09d260f2",
       "a574a3d9a09589bcd90da83184434aebebd47a9db6a26916dd51fdab06011560",
       "1400ffc637a06c4ec45beef95f8d307bcf01f2f07bb4df37141404c2d5a21346",
       "b1d1d8dff79528c04d77cbe6f449ff4bda353e85f2161a34c92e12678cc1e206",
       "ffd8e4d92a9ae2f0becf6c781b69fd0a2f80173bf96cfe544b583a1fbf50f38f",
       "5f17468162c2948784fc156bb27ab99ad1390c6f22a3d18cae09e9703fdaf625",
       "6db9526ce29307fd0380c05e2b298c9ed7584b0ea2e4d6ff03062822a442f5a4",
       "af283e7570e774f57f601e9616824a3c71ec3d3c8b4845cc32d3fb9ca4a423d5",
       "8401026b4d25798c0cfd2b4d798aa066b7c99cec143f6ed8561a16b4275bde4d",
       "978e500a60c321c3c7f3e3187c050845e816ca63d8ef7f67a3b0ef549d85baea",
       "3f66d5fdde06fc080f089e1319638868c949c4e58d6772596470678d0325b93e",
       "df679be5c37181ea14e07cb4213b9e3e70a2db303d11db58e9585e8a4c623d09",
       "224e6a7560c712f12fa775575d16232e1b58fa65d35feffb30ba240600d903f0",
       "fcda1055063c4077a2f51fded0c587ee595a07f10837e4381744bb187c4df520",
       "abc7bffa4821e2d8772780a43be7eff8be48dbf207338a58db538ea259243310",
       "cef03c700fcb9215d310a35f30c35872090e7916fc43e318beaa71a8a764d72f",
       "88e270b10baa2bd5c8d55fb663a974f7e30aa9ab37fb7647f3b5eadf2c07cbea",
       "e35dfad6223e8d67430523e8d39918e200cac236fcbb57a900ee0b6a71413de2",
       "8e677b4a6a9ed99609f02c1265fef80a54672c3d1394583f84dcb3bde0049955",
       "bc40a41a04b983d510f436bfb1ce0f0af6f2579f14273608a7ae4e94c0aa5cac",
       "27e056610224beb6903a732b7d9e7f91281e2cafbc38c3746dbc63aec93de429",
       "6ca18a937e02fa59fcd270ec3d3d405aaabd6132663dfbb9a35b213df58645b2",
       "d67f67402f173894f2c1927cc02082241b6b634cf83f48a5f136eb3d6a7f34a2",
       "c650c6d46285e28779bdba3bf01103d30faebb970ade5b1e6e766aa042d29be0",
       "91e7af1778134232afae2ada4e578aea4602a54b57837223fed714335cc576e9",
       "b7648f545bf910b8b1ef216b0cf93029d0bcad1e211fd9fa24b649a02f626107",
       "b5ea3a847ba2447e1255e1796d240f5818f50060c7797dc5e2b44ae0efe62147",
       "84724623007c7f28f30d9d62a4112ef1973785bdaf20ac43ed217da4f9e10440",
       "f5c27c56511c8558d498d176871e74f59011dcc4092b60225e78ce2b164b94e7",
       "5188f837be6018e77fa0c1fb4b9aa70832a5191b2a1a4e2ecd3775c6d23927da",
       "ff43c776a07b6bf24e75dbec37d553cb05572953f32bd97cfae6e50b1d125ec8",
       "f4a772ddacb8b67b126e9236054cb157ccadfc8c16537d0441ec876205a261a8",
       "573c1f37c749b77ea8ac3ade87f45c6325733b60361e51904c4f8107374755fa",
       "5f4538b6ec943b7032f08f49e9c776ec51b69813070eaa34cd4b8809bf778236",
       "25241ca9aa15e03330dd4f251fe1cc974ec595e0394bf973cc920e60f7901e45",
       "463a4d97506199c90d7e40ad63ae896e6e9ac2c6ca659348c37a2b20f95694bd",
       "d17879d457f5101da2f362bf5be14ee45a33ce237f0f1dbbbf1b779271fdd5e6",
       "02d40d2e228bf649bdc3a40ac42625adcf12f9375ec1207402d6692bce5c2598",
       "ef6d529a5c907ca4ac1ca6d05b590a3cf30287178bd5b0e30f7b476527d455ff",
       "a21b33987958a37d92eec08e8a6c9086fe98c4922cab054a6f031eeeb730d215",
       "96702f2ab83785a580858e93ace4e97b5c4723ca34c14df963b3ce352f58811b",
       "7d68adf826682144ac3ff0e47a45f19bf751ab6b2e08ef9488cf77e1f206596e",
       "ddfbba1ce03d0b9a7ee74f960ffc740192a224bddbf1b61a9706f8a9cb3f2df3",
       "4c424990aa29afe9e7b4b1744ee09c930dfd5e0c1820e81e58d26b5bb0069826",
       "d1ea4184ac2f0af90ac2751e966ec23f43123b29ef4e29a32b3f55f7fbf77b04",
       "1f2aac33e740582f3ad7fa224bfffee068f25d6803135864f9398b0b62212a8b",
       "3b7694754553b5b2f1cb0572d56dd17c07186e17ae6834495374e8d7a31eaa78",
       "036fdec64b89ad21005723d45a1c3bce21721f5e845127fdd2b9452fd409f445",
       "d9af00025dbd4dd74dbd2e0c9182235a05c03df4f703e6a5d8b9f01a8c084b32",
       "35b2e7f96a967d57ffccbd95919ecc4d69cb6cfa802a8926ffa225472c383fbe",
       "745b0897a939bd6711e72bd617ddac5333176fa236363acd05494f9fddb427db",
       "5b0c90e6ce878bb51560fc0e1ba26a52a550a5cc36b50bf038effec613ad6cd3",
       "2b18daf7e01871efa0dacc6eb4325a82dee7c122a5135dc550c6dc585069e647",
       "35ea4a19be9d87ca6cd2f902032aea3dfd1ccd55b83e125246bf15a349d35a62",
       "4bcc392de94fe6726f0ff33af12fd95b58b3821f42d12a8bd5f736bfcec4fdf7",
       "c1bbb5763ce775d74ef141899ece75ae59199ccb21f60ca97e74fe63c2d72b1f",
       "0a9c2350e8fe32be0e1ac29d0637e866744f25cb92fe5863f407ce4a56963fc3",
       "d5c2a8b3a2997d43e13c77d6cb4b9464ce6db2e1198e7a0e4e9209f46142aec0",
       "77948c0e769030618485b934ebd7eb88cc185d34ffd0f4e0215a2ba0c808b20b",
       "b1fdf9d0e2646c3634041c38b52fbe1ab6963062e941747dbc4c175d99894e88",
       "49686ffb75a21a0dfee7fe0e3b3d0e2b878c400b46e07eaa6ff3ef5ab924cfd4",
       "2ba7447ea42863f444d0b181052a5b3341e155618445634f039658f76c139170",
       "99001a58854bfc48ecf2e17fc818373660b71b007fcc10dfee8ed2c6e9e3f52b",
       "0f25d8a314b02f2472bf0fbe99b2bf92f11343cb684cead2415c43ad7046e6ce",
       "aaf232e95d6f254e0da0259e08280e76282ff0ecec19c3adfc9fc23b522fd87c",
       "ee4404f629ac065f95e5876064c5194bad82984df25686c4739998225373b59f",
       "95e6726341d2918b5b78796e39629635edbf196b1a28e5291753a50ec567c642",
       "144fcc422ce8f5dbff6b107c5064c5e9a18019177e120a23d21971cb25f67a00",
       "8d15816abfc58f93ae73b76d9cf9f348f20f132c384ef8253aae80a4f8423dc0",
       "30e019f5d4eee46b0244c80a704184b893a147bc9b1c5fe5a077d170d4d8ac49",
       "c73953d6caaa5067a4aba9f85ecacd99d97e267ccb4158dc11d8393838033b27",
       "ee4240b0d8b6eea9bac5f329f1a9767320f9ce1e10f4161e42892fa9c43628f4",
       "528a6875ace1428bb595b61025d75dfa6f5657e8ec3e5f1e27aa33e890af770f",
       "7df4a2c0154a6fc1f369d0fd31f6c695c3d6b3c83388671092450cd62e056d5f",
       "dedca517d8a62a176b79ab5b9f505e24af645eacf669c7d9ea9ddaf06f0c79f8",
       "a3498da09d8a513407fb037309b478a0298c7da1a9de3985b5d431452e87327d",
       "45342f2174635d55db607d4301e246b91a13f512076e74e8b71b26098e161be0",
       "86da19a86d19d859c5f6d474afaa516481bd1df7a3fbbe359e206c74944d3097",
       "687169888b2ad5628fa236526bf1f37a1d6a1e3746ffad10c04644d5d579f613",
       "1a386d07c998f2a08ed49a04edf44c63511d89a901a8d5eae2c88fac95fcc6ab",
       "97f0bfc85c02ebd3339a801eb8b32c47a185e8bb7829ab1a53a97dc59ec6f2eb",
       "47e77bdfd2fc9d9b37ec304ef47820173127c2f1c2c6d049eab3db7cd41d31d1",
       "78d97a91d2e685a3d5967b10a46cd8efdd5b1f6167b20b9e79e364dd9253e7b8",
       "9eff6d70a693723dcd353d8723d91d851658135ec0a7a8dc683f47b7a3e162dc",
       "1fcfc26f542e4efd6e027568853f48bb10c6254e7dba1d81b2ba2fac712be076",
       "3074e39f1d1a80742092f72c3f577274944bc2b6b64bea0fdf90c85240dadae3",
       "512f408239240363153418291a26e9d46197f98ec1d4fe60ead83184329778db",
       "133b63f9aa2cac426d2325cac02dcb6199fd801468045c69fabf89c663cc300b",
       "ad113463e582c1fcbb67d92e3c6e6d41e7a667783be4640257cfad2ad5450a7c",
       "32f5b66b95ff14d07897436e6420ba857f1cfed125c542f9fa6c88963f44ee49",
       "15d7f3085cd35cd9fb1dcd71b2af1b6450ac5f69db74b0392952f92b8ed6d59c",
       "d43d0102639e1d9400d14b4f54ffea412291cb0e65f80433fdb164b06112709f",
       "cd11de75512249ca8985aeb703a9e1f5cb41e9af7a3e122b1f942b5af0d436ee",
       "432b25e710f6753edca0294e5ade71479c3252b68e977ee3152c3a40f9f8b1b6",
       "83a9423c46394b8e4b3d41418d12e507ad15dc5711825344736999a6d8031d33",
       "f2f966c9aae259fe6f08ed025c8ef5cfd76932b52d266e66697523b9592cbcaa",
       "103f56831825a8a36caa9f1cb1fd3318a478fdc34cbfc5e1322e642d44bc710d",
       "cb28335097cdf9b2558aae994e70379e4ca66c4ece405a0705cf2f5032d57ea1",
       "6e57e8108f83cd79c75f6be8b6b12dc4ab3e059325d9293bbc6c5344880000a3",
       "4bc3ae1ee6a4c25115e5de143af3081c3449b5e15556674b0c175c445b4667fe",
       "83bf361b424e16d2229f280d2ccf5d465f14e780714d8358b332b786a6f6a2c1",
       "1afebfac402fe8899e200e1a6479f05b9168ecd3b59a4cbdbca952057d700791",
       "6135af5cf998fe24962ce56d04d31f7b752842f2f8f7c2a1b9cfa486b0747ff3",
       "9a68a258b02a06972e02941df825045c8ae740bff9529e32a455dbe638aad31f",
       "c44340c06ff6d96afd9b33ddcf9b4abf743a4360b8f8f202d2a7a6c25bf56b00",
       "b2471ef0b46453a819165c880da617e1d0710a8cb9163ac176fcb5ba00185a0a",
       "43a7c7796279fd23d706a35311578cc343d46b62041e60e6c3716c43ab4495f3",
       "36387b53ccc0c7e3055595a0a5f7a3d7532d5b2969cdf801de3ac17769d53c24",
       "5cd030bdf4d8dcafb83aa5408290f85e25fe3189f0bd97c8a2ce3656c4076596",
       "1176989d842ddea3d530bed57aeb32f01625d13ea0304deca09608ab0062e1ea",
       "a0b27b30153717c2d5f72d31ec7afacb833a9de5644599c223713bd64252f6e8",
       "988ba36d60d3d406c9de41e1638c2ff447b562bab62dc15c0c6dcc018b011d45",
       "0f5ae22998944559239f3c750239af554795ec4a04e520d30859ced10d3f4982",
       "e52ea42f2e328248f468b1a2f735dbaecd42b910e19ae2e449f762d8d46c05b8",
       "2de486b47335248457f279ca913e375616494077bb420db6da8904ca82ba6c10",
       "a636490318783ff8b0763130b15ed75eb7ebf283777a8b76916793fac5f7ca10",
       "86ea0f5d70cf315bcb893f8397dab82f13bdd8f5363cce6546ef92a295975d24",
       "529821d2d3b0a63be9ff6964764da7d6fbcb4362b75cc9c7a2859c77ff33cd02",
       "b0932d4b015bc184e18958189a1b0a0eb310ed73108a002ae719a183705e240d",
       "aef7247e79f8ee82d480fac79260fcae64e8a938d56ad48ddcd003346e06d3c7",
       "116518c1af0d6ad2ee9d542aa89f4fb372b364262c168a6055ea2f1b4e653712",
       "8bebd2d8c4f3d8507317fc31a574e9222ebd48400279027f2008ced744c39ae1",
       "eba61cb8fd27c7f6121d135bec42b088f861a1e3f5787a90958e5a1037bb05f1",
       "ea12d58df44786047c2985a6d5859126cacd56065327decdbbad5b5519fb548b",
       "2cadaec485a39ee88336b8ba794a636e92704f0efa3e757423a6a06e43331bf9",
       "d6f4c8f6ab19eeaff688f25f75defe5d1f35b96c4bf9f91776bd5668992756d2",
       "c18f71d12f0e9d46e20dff02e70b962ef72e3ee5e4ddfbfb93a9d40a1b89ecf6",
       "69022afd22e08fecc45beeea5a1b17d2842c20f98d3382c2555d5a2184b6ffca",
       "021e6794ad6ea5715d915de2118b09bca47257d2101befae87b9b9847f5f0850",
       "d0ebc90cc226ac7f0e27d5571af7a23ec321200df6773db7e11b96fc8b6da81a",
       "f640471e90da5a2e6ceb0b953362872398dfd34b14cfd7a18971d77c084fa580",
       "c030c9911dabd9bcf821883c89d546c487a40a9c884f6fec5f4da337050bdd94",
       "13cb0d070085a49fb27e55add86f02494a3368d24b5bbcb19e9e372d0967c96d",
       "cf4d993405e88785759662844f7742a9b2282588d0cf19a7708ca7b552405386",
       "757df8c0ce4de94b44fe5e94fd91cbe1b98ce9150b925cdd5357fbec15969f20",
       "6c911ff06a2b6f5f2b60d7637c8de9445bebd44d6a86d5a13e183ec2f69611f4",
       "63aecf53986c5c856b99998b4a240aabadd68af599cbb15f418cb209ee50c6b5",
       "d9fd3341b31dee40f95f705d567e5509fa2728d51b1fbfc6b42c4ebb1692482a",
       "65cf5c1ed970f0b982653cc70f480d7aaa56a81b5f66cbab8f9a48e1912c9890",
       "d1a19f1f3aceed0db30b6fa3cdab0b1f39c13ad4c85a53f61a0adc7519d9bdca",
       "b1dbaa8cfdffb480dd2635eff99b9151fbe3416c4c302ca32c11e5a2314cda4e",
       "948d103503fd059ce8d965aa4e6c1326ae9aa369c7e089fa1c709d59341b5be0",
       "967b338b1af742458d3dd9a6f5ba8fe89102a9f4cf35a3a301d611228e6297dd",
       "c821df18f834807e5a67164e11d9fbf17c50193df8e05e878b0cb28aef5a9096",
       "7d42e47d7d18882710ebd2b5176a92599409fd9e468885eaf6ae39b5c6dc5f4e",
       "245aed4733206220838b0c03f62d35f7e9e11b6aa840ef10717ee193256c73e2",
       "3151f7f4c746705899236bcab6e0f1f96d90dbe5c0f2a76a1d42f4b7405d37d6",
       "a611155a430574124adfebc33649a33a11721de6ac23c8d1fdd8a7503aab505b",
       "ad8d379fcbc0b859aef5db6798bed44f0d053e3cbfd24e86387c42ca8bd985ed",
       "7b090ce9faf4b0614cc8fa45ed70becca38310d8e7201f50faa07ab25b932acc",
       "c1641eea38a3e8251e8b96a3d595defdaf9d55623df57e54fae0b8c0e384b48c",
       "cb597263e749556c35312835c6430dafd2703126b0635e359d098fb70ed87d53",
       "2859c6d73183ec2ffcf7a84ac2b158def6e70fe28c87f275ecec09ed620ac049",
       "0060ffb445bafee5bd4bb2a0d402be201ce76db5424ba9efa87f2de5847ddc0d",
       "9b508574d1c2a5f9a4975d077b8c2d2d9acb6b9777c490d5263375eca29faf87",
       "960e26e0e746a437f48f3d1064ee6c934ac8f0f3640db115625786492badc6a0",
       "3dd57f12574e254e053d402b2b66b6fe5b961dcada0b13d165ed2f356688b269",
       "c12d8b37b845a75ad1d22981ca75813e7460339a0091594d8efb643f43cd5331",
       "e9167c8042d9e22ae507c19e84c975e0b13b6947b7c3ae797bdc0d3bcab5ccda",
       "abb82c9d8684a6e7dace5d85989bf2db6f48745293b794d596f97ee1195e0e82",
       "053ce8d701ab5c183106d1a1d5732d68166ad848522e76ddafa8dd3475212b1f",
       "f8c33a0263f71d89487f5f04ae646fbf7692cf24265c3113a8871c4ccaac91f9",
       "fe6370863184a4ba66cb1ad664fc13b9f6e4f42de106cfb9f24c64b5694e3455",
       "8951fb6861c131fe60fb43b24bad38365153e1af2040a8dfee47eab7c2609795",
       "8cf26238128f6f9a59a92c644b0e2ed01b409d8ff048a31f929d80569ed1b869",
       "17b6973bf68f6a5adfb49210772a7081b676eda8c009fe1d4c3bcfe905f55a1e",
       "64b0363de124d46b08b67b3643274a89eb5726e71359379aadaf8b7ca886aad2",
       "4ffa2592fc17e012cb71bb0d6151c901e3976c384ef1c34e632adc474fd8cde4",
       "a16ab71f570e4071535bfe67685157bb97d78ca04126465ce6a9b7b6fcea7b68",
       "025a5f30b3634aa0f8af2f580b2c00662e0bf1abef556e732f2cbb159f66b999",
       "10a3132555ad212b687683ff5965f8174db3389c3a67678714e37f327fed0dfc",
       "3bb8ea2190500517e27921b60500d61799c44229f6159b2b72d92c0f3061fa31",
       "a79f23349faf8c46a7f3c776c6fa027b25c4df3b44cb8d861415462431131d70",
       "515971c1705d1626efa1a0f0c46eaa3205b19425584988f08442d37bee40adc2",
       "811c1a7dd3ac58e1b84dbfc1f424c8c17bd538825d51d0530e68ade14991403b",
       "71917110ef6f0d86f86c7880ffc6a39b4c862f54aad814d7d6491a1d68935839",
       "c73917374e462fb8cb88b5dd20b14dd1832759cb4496e0779c97a9caad737e7d",
       "55ec7e6d2e1641e66c42223bf022fc16abb026b4916a2d78a142f02b6788e0fc",
       "c131b14c5937f22caf4727c12dd293806af5a055dc63469ba67382a4aaa0b7ec",
       "f81ddf211390a4e09c1021a9d02ab7394d59455a8dc89bdd1fc34e809516e71c",
       "6b8b92ae530e735b1732869a2dd0fb72deb3f141602b457ee10c2368991d3bda",
       "44976ab904437fb45b80af52858aef7295c71d9a0ee10fbea7fd171ebc819e54",
       "f2add14b83c9f6a2073e14a5811bec514e8cd867572810ae84ba988aa38ac449",
       "f32a64fe441427b5e230d693748eaf85fad465207078edf52671f1b1bf2ba859",
       "fd6a2ecbc647e76419c69dcfd6331c7b6fef6d57274a3582c839c90f1f00696c",
       "bf6d9f093f98feb2108cc81e2f05c5ee01dd7b7ca25c1d9898c7d0e2ee21d290",
       "f7c136b4446a0d70910c2554a4c4f64a70131bc3d91bba2cc68eb0760007f9dc",
       "dff5b095ac6d0576a3ec186ee6181368bda5a256e9dc205239fb88031cc67793",
       "2bab7750ea6b0327477611e7d592b6647ff063b02eba89bb6aa68b1908c8e797",
       "6cc6162f7f0590cc58c0162c56b99c6a873be152b1aa7a79eb39e137c4929532",
       "784ad5abfc0fb2c33570be48ca1653948034822f88e1aedc782526b0dada4573",
       "976a75eded49b47b8d8429682c541208c791fb86c4a218a44349fadec72fdc05",
       "2defdefd29ce2fec3dbae9b2a43c8ed83587aab011f774ed6b1e192ac0d26aa0",
       "5c49d934764d778a8b4ad4c4ab1ea612dc1f24502e1dcb4db3687aed8b2ae061",
       "8269f6bf5f77531d9a8c7bb46d7421fc957cd36e61cb068b732638b4539012f2",
       "cc83bcd93877ffa00341cd4f26d8c5d32345ae0b7abfb4ad7deab2028254aeb8",
       "e65a86d4d5a198cbbe69f90f7c921b80576904df153fdd9376099d53d5b6d518",
       "3e1715bac53ca9d21a28760185e408d6948f6a2aad458d3907a9b79a01271a00",
       "4cd64dfa2da83aa604668dfc3436302875276c831889563c4567e58beea30780",
       "d02c2466555002affa2112d78c646fb1c4c142d7ff27b43d6ec3dc8e12340afc",
       "35ea93ecff51cb180838e00c11f1ded73df373b3908b41f9ee58bed4bef24bda",
       "b39ffb056f5d47a090f3f7cc1c66599d612173644676c1ffd970693d0b551769",
       "97d47a568cc7fb5541f6c2abd503e81949b63df470d88a60bd576ef8123b2a90",
       "1093d98f2f7388f76b8771af43a27b22872ee233201a1c1b3d39f1b84b9aba0f",
       "1ea048ba146cb14bd5f5d8d53547207feeb0efcb194f8f4d185bc79ba109adcb",
       "a7f21b30b8c92447ec386ff01f6eeb18b51c82348e0ae107f232a3d66c3252eb",
       "1cf321185406cc2bff6faabecb0c7fec6d71546b4564a48fd26ab8977619b1d2",
       "78722d44f3addc3d4bbb2184aeffde1f4bb0003237b47611214652cd130dc560",
       "41877bc523c2f2637ea80baff1c3474c6e470bbd2e207105253ce74b46331133",
       "9020732b38df3b60a0cc8f8d02fe654f6fb458c2414cf73b2048a1c20c790027",
       "c6c0f0dcb58d5a4f316359f4b53de369a52e6fbb5200c3dcc4314439830b7c70",
       "1f7c29b4b6cdf7ed50ab77493226e00d8d032d98d8af3025d94431bd4f3d7fc9",
       "f551ba270abcbe51d110cc7b25f09a5fe7356e878b9fee291a8aef0df82026a0",
       "d1c81d6043e677583af6005353eea0e0fe518898905b6dc1230bd91c94a2342b",
       "d43b7934d015bf8f7dcc9b50b4eb0424f365b01f474a3323a90682c34477d015",
       "4722414fade0ad37b7a6d2d123f16635108543b97ed358bb572b5da1b7592428",
       "fca312de0d9148d87da99ab85277bc5e78891ef2a4f7bad9560179cd79e68302",
       "13998ef5d2fdeaf43244def83514ccdec545db4c2926d1e149f0441ec86cdfd4",
       "f4cbdd83abc5f1299ac436b76103f0ba03fbbbc46a484942a8b41a5cc5cad3b1",
       "aac334e012b13924ce71404e0681835e014c2337d2fed8b6871b905849fb6e64",
       "35e03c809828209953b11d67c1afc623f910b29d5005ccbf08aaffbfefd96672",
       "51ef9f06dd5119f56a07707f25d6b7a3c705aedbf656b854b02a971c5de0868a",
       "c85961101d29785df968a9230c29b14531c9fa2062f4ffa354a61d5216a962ed",
       "6459d0620ba256528e76edff96da0e0d1b71d294e8d6243a03169ceb5500f511",
       "d03de68238b8ba15abbdada9cacae43551d72c68dcc34000fc71f4388b927186",
       "430ef72a4935709fb337c305cc0887b096c4a5cfc9b8184b9e36824065985857",
       "54f2668425f72a194e190fbf7e165cc5018df3dc7102a99cb6f8fb008ce7a588",
       "05c4d3ad349b8dceaa262636f02f5238c11ee2465f7b9db2322253c180473e84",
       "90a30dc917dfe01204aadf769d7f85ce888ef92ef3fe1092d7d276f1c19e97a9",
       "265e804e54af161e5896f36769c9486c8b6c21fd292b819a6be8679ddb41fbf6",
       "f332ded950924bd5e24416f181ff53a03d8920be43fa246f4756da8546c86393",
       "10de9bbed78d3586a50604cbfab58f52ebb78a65340ac3a7e0a7a75c4b743292",
       "aaddf64a7138949eb5894772106c93539b6b17b7cc2347484cc08fa317cc73c3",
       "bbffe23e4ca87ad840725484083b98730ba1885e336bbe92ce102ad3ce080092",
       "90973650fb6183f98288aab02607bc21450be0870fe35376e1b43f6c1264598c",
       "120f2c312c49f718a350dab06acd9c2574ce02f538f07d061c37a8311be2bbb1",
       "705b2c224aeb7ae51334fa69ab345b738af9c75984aae7682fd6d8a3af01f3f3",
       "0199cca52d4a051caed7da307596fd6f33827a6db21609d8ebbd598fa44ab2c5",
       "e0a8a90e012135c320c7441f5fc83e6355442cafc84b8e2a3e44d12103b95f75",
       "93aca6cf0662ff6b8649747ffcbd78ede09d97a560954846622b25b33637ffde",
       "e9d3838ad211b842b8f3bffc624b3695cb6c9098926792d2fa2e503ec2c2b8ac",
       "dcad9e43e70ca7611ed775719e808c25d44df7fad01033434dce0b917a644833",
       "0a49e4bb7b5c4b9e72521d6e5fa157949239b2f85c75f967d45114ad18467d12",
       "194180249934b04efa055a57cc2e7489955475ca436d357456101db850a9ec79",
       "00ae01899986a2d19c18741721927cff0bc2cbac4d0221ee7ddf9574c9a21cbf",
       "3664eb3b50b515f954b067ed862787a3c3622cebf14d03999edf053397f5c07c",
       "80c28dde9dd875a153bb211c6540693c96f1b005babafc6a386ae47099bee112",
       "fd8a8a8f20f0879a1acb78c606f177a00f0011aacc24d1c5d665298e0310c5e4",
       "3610f28d288c8eedfaab0898217ab477546cee04c64142f344f1d7aa9ce239ba",
       "3f141a3e2ece71868881cbc965b12ed856531ac5eaf2a7e2ad4f0207be05dee7",
       "33eb50fe09fcb5e8b5f2c3f51630a681b39acab571e23255f43ebf109e34e5f7",
       "7cbc8dcc0d6a63520666806cbecca9a75ac3a6622f03b47f2e56500d292718d7",
       "a96f98438bfa7294fd295ccf836086df3c2f087cc1a5fa15f260bd2f3bf5e016",
       "f3d293fe777ec68344d08d303a9f6b75cb1df5bf50ed9b1011ebbdfebdeecfaa",
       "e16832ea7ec62dbc4ea0563df45c0d49d86b594065e70e2eb3dda3cfc4753361",
       "26062b6a92c70811ce19d5ad088944e9c777083d65a1abee4d46f135f7f5ad16",
       "61f15d844f02be368f2ff14ff4762d24a2f475cb08715cdb95bc8371217f3d0b",
       "c573273ec1d1765bed254b8f9ec339ae94f0ccf02c92e3b085b6410b376aa596",
       "27e035cd8531e694547f6794962864a7d13804ebe23511415567d9467d3635c9",
       "8a80413343a6755c2e1fffba0f6b6e0301852daa9497ffa28411785191dbad5f",
       "30c3d4c62a33bb191076b91b78cb14698211ca98b986212976e23a64f62c6ef5",
       "4ba99a1ed557d4d449006b88870e4b3226c0f6bd20ba059a77bf3f55bfc6b621",
       "35d536954660117f3510ca6d472b3b220593acff0e423f70888321a36ec57d9d",
       "a0d405840a5b3d45582eef327dc54fef92fe7ad1cee0e7ef990d05419b078f57",
       "d5c570a04d6de057ea8680c9210dc1b7b205c5f92b91b2abed42621251da9350",
       "db75bff9dde20af5b83bc61af830b9adc07ce18c1b1237f59ce4764e488ffce5",
       "2c9bd8e480fabb21217ca06795fe960970fdbe9644d85b7d319091dcb5f77c10",
       "22f53ae6a71ae6855660f32e1a4a315d7e6813c14d717005322d6a29509c89ab",
       "c5c10dee6db91d4885378612d7a138225ae8f85c10cf0526a8fa9c8f5a4bdf6e",
       "be91aa2152165da3390a132c2751db3b42bdd24817879c2fd1f39c64be44ba95",
       "4028efef142f26f7e9cf9eb3cdee255dff6881ce269bb1520867167558c60181",
       "b29094d4edc38db04fb401e1bf884fb6420d251f7f73799ae6b6ad4cd723b221",
       "dc0efa3750892975bdd7abd0abc0848ef79da6ac68a84413e8edbbdc3e586176",
       "81ae69eba5dc4c6ba5022d2fd52de0c7284cc184cbcbc84510fd77ff85dcb9c8",
       "05b7df13e3a25b7e13a60ecc00b9a0d0f8e4109b5d79e2910e17220c3d105410",
       "0f38bcdfa840c7e3393b1532ba8b57a42e3b48adabf8d7bfb8b792760e89ad70",
       "117875743f718301aaddda6278b5b9f606660d78879f3faec118d83ac94a35b7",
       "3c1d8a65d025a37eb2bdf489fa67e456e2e9690d3911a8432e3b3efa7d6330df",
       "3a65ea94c12b4e8287b31baff3f8cb6e4c313b6fb671d8b42153ce9fc843dbb2",
       "5dfb29071cee682ec86350328ee5d592096c9fec050e03298f90160c211b4d1a",
       "c0c4dfbe0d20d5d4bf77687f66326439435fb61d134ae4a6662cec4edf693c47",
       "852d91b2483bc9686ab6ec1d2122984f2c4d5926b97b981df1a40caed397509a",
       "9cb44dd9223bf3e176ef80303d4c926ccb8d82671820d1d2c087ad87cd26c251",
       "a601b80bcad12c3dcbde29f47028a038f60a1dca90ce418dff0e4f0a6242bfcf",
       "1d3bcbe0a9ca8e5d67160d6a105958210bc021e8beb9bafe3edd072019f712bc",
       "e0bd95ac98961682f29ec8a08e8efe8beed424d9ca01b279b6f15ed6626b93ee",
       "bcd8659f8f0d0392c918f4508066001b1dd332b9e3df3dd13416b5607e3f1a4d",
       "78ef4f8aeddc9ea6aeede61e1cea5b0515e7742b141c9bd805a2f8e8b3f9bd9d",
       "1c6d422fbe0b762ba4d0e943e8101d4d47104e9512768af0bc32a0118f6143b4",
       "f285d7d0b34ce84e98922e462229d201a97d6ad386d461b73a87eaf72519b8b8",
       "2511ab43233c446702fcead5051330641688bab9c45ee345b0ff0c64327e40c0",
       "9752ce74b334b235ee22589930ce0df0d49746f17238c2f995164a49e8b3f3b1",
       "da97ca7a49148c15503ce62620af33e9a4cc98593c9a521a53df6ed35da8b430",
       "edb1974040fb978cc4204cb4a578e3ac3896d99a193eddc309df915a43938ae7",
       "cc89cbcf35c5e40e10bc829700bbba16166f9a7cc5c0c01e431eb3cb2f48751d",
       "52daf88abe4a580a3181aa953b2afd8444e3f23bd867ac82ba70055cc3ac725f",
       "35ee56145523b43c2571610b567dd9bd487c0fa574b0a9a1a561661e67e1bba2",
       "38d6076192121c7ec2a253e384a734f112243336f8ede0bb47e55ac2613b6c72",
       "05190288c56cac7746b46525f74beabc4ff15c9494c1357c9513689e34ef761b",
       "d8f94f4eb060b50c5e145733e0d665c4db0e294b30f0c403253f5061f7dd4586",
       "307b2f35d57b53ce4226fadf6cda70262f0d4067d00806632766ccae70d4ab7d",
       "e1b195bf38ff3900a5df4b5762cc60c6e2b881af9583f1c943d0f810f185b28b",
       "c7793978c110cc4ec94105b5d81700b170722eddbd1bb9fc45db164384262af0",
       "312d747c986af3d2293e334f4a53a6974449d256ed12e7b6b11f1d28e5489fd8",
       "4922b1528555c4be9bc7533f71843a6d5b94b9c137529f2e6d8e419a77e53069",
       "492ee25e62d0fcd21a6c72ab1dabfa3f74c212cefb7deb78c3f588722195a7a5",
       "0347ede72c99a369dadd690ea36b36894fe7ccd85f2353a8eac1844bd196c27a",
       "6825fe51cca0efd1ee86479bf82980c2ed9fa71ba550176fe64f3ac88c348582",
       "e3a8449ab22e14012f2e87ddd853bd2e9d24056f93d9177bf8198f1c9d392724",
       "b02e30c821b7ce9cdd82af6b486026591f95308b85359f2eb28473b81c314871",
       "59ea1820af353c30c4d94d1c31efe304a077958935b973de3d934c64bd68e81d",
       "0aaebeb8b462c85ed82f5b17b2fc43b820d47b2dbab3563732b23101194de3c9",
       "c73dff8610f8800eda087ff017d997ec657be4730cda2061295cb323c652044e",
       "2ff87d5f8f9e197658e11bcbca9fb6ac221e17c0599068277d67d8df963045f9",
       "59ba3ec473a2cf220990167f30ead16c726a5ac3ac81207a7f8d993426689e5c",
       "35f310924808b793b0678649a8f0169b085ec3c020c094240982d32093e88d21",
       "1850935462bd6717d5193866b03493ce49930aa5c7dca9366da7b4342c410a52",
       "cda767908b77a5015a43a7ae35d740b529b7d8e8d476d1a0e06d6e00d0615341",
       "4530a45b8b1187a0f75658bd735573c1514cee1e725383274a457092c27bcea6",
       "d6690762f71076c1c5247d22277362d9cfb2f7c9a94ecd70a86ad344f4036636",
       "3be247bb7b313a9203282f0faeadf4713ff9ea988c8330f1516afbc901159355",
       "5f7ce3c044c40c728c28eddcff22a674e22176c609d318c3b2778670ba60a3aa",
       "82a3ee6dd6dc846dbfe431e9d4f253e8096cdc7f93cfc83c5a9207bda99d9f3d",
       "fe3494037d2a857a30a58a310409cd73f6a84834fd589a14be970186a942ee55",
       "ec4c7ee3fa8d46078e1076996af9ed750e195ac1ac38dd7a0a73d7c07a5c6560",
       "43330003a16553e4c0470aea2ead96e32861a7767ef79a5b07b3770736c1f3dd",
       "adcbded125f3fa5cf4929bc639de6f5b180f078017664adb2db28013404c0269",
       "afe65354d327ff6b4a91341f282745deb0c443a85d1a66c8f0fb221621c1e9e8",
       "365bf13177b5243b2b1f55fbb6cb212215b3a4f8eb7f325b2ea5e73843976a09",
       "f0fa8bb99d92dbd5df3d204a7718b69e6fc6b2774510d69065fc9c9064e5dc36",
       "323426de50a2f1820fbeefeeb332a15e06e59d519d140ea0f80fbf0769ec5f5d",
       "db14e26f089c87ba1c83f0bf954700bcf1ff37e213ec66c5ba844aafbe3692cb",
       "28eb73e93da62b651b489ad36622ea497e33b2f94170546beda182946959f4f0",
       "ff29f4d6cd2436dba3a72bcd7b9f53fe5acbe2d580db05f9736ab4dd944330eb",
       "6b405c934843e29d8e42b923362ad5f1ee4a9fbe39d9a5ce766710253a24985a",
       "8d1e7be2ac1fb6b061324d1107cab3db6820a8b4329628355f42dd56b8180001",
       "9d59087fd61c49edd11396a93307b7efef81473ab1e5ad169b0eaafc67f38a97",
       "8482800f30962d69d2f8ee6a296ae12ef40d9264aed6e504e4ed129f1a323416",
       "fd6101ce750156ab8d1c05dec2772c019b8c0f452bd046edebd0743c7e0bacce",
       "788bca82d21f18400cff577c24b63e7a23fc6cea582559dfe4a2338e758dc688",
       "4bb13249b4d3300dd1df285793ff55cfb867c4c2492a8d42567508a68625713f",
       "17c3cb004771f3b0da4093d1e989224ac45b82a16de8bfdbb4e0fad9a1b3ee40",
       "735e7eef2f51cf207302e875cb73aa17e2f39f5bfc8d7b450dab239abf1e444b",
       "27a489a5007becbd20dc24710aec0b7f3120eae769564a4a2f2ec28456387def",
       "f8e9a90146a735502a5d740af64e5a3cfb323fdc6443c461054b2f4aa9cce7d3",
       "2a03be8a9090da65a2a1659dfcb6e83100934ae5534324b87d13c1e34e8a90fe",
       "1fa78a7982523a8e26f5c2dded391f10eb2d71bb71cee3445f05ddd9d4e862ce",
       "f9ebd6ba63df951d62dce0d2d06a7021f5c377cbfa196e4cffb50383e89ba90b",
       "6a74ad1c6977dab2df2fcf5a21a920ca91ec606df6cab330416e017fbef8ba93",
       "40c7d49ebf6bdb5b5c2b9d2e381dee1ccc80abd6147ff955811d0ca9db7e5656",
       "286efb785d0269b85b9a51705724978384a933029d750c2e054537ea4c6b9e19",
       "73172685cacc62da4bf67a6a093030a31f25501f24017187e14d89b464d21588",
       "6e83e51506fec2d819092c6ed337887e81e583f1255dae0d809dfc63e60a8140",
       "b0576431ae859c6e06ae523d8c0dbf93427922d764f7e5bf6c75666ca772653f",
       "dfe96c0b31e661bbd4f5ccb09b72d0d02e76512190bf9dd25a1367a483f81e7b",
       "017ecf2890dac5114def6401c4312e3599ab0fe2c5d9fa60cc2ecaea3fc3984d",
       "37899f14e99e01a086a54d79107d0b5a9660a580a7181a65090b207655f7acff",
       "2884645f45b6bb84d6ce0d8ce4557c2432cb8a7babe076721ebef31fe08dd911",
       "3c8c9049ecedd3ea5ae7f50e93de69bff470d99acb3f48e0bb833781b13c6e09",
       "7aa4ff74f8b347d625ac28f760e88897465e27063a3acf2545e57d30003b7b0c",
       "18aa9349cac9b4a3fbd74e75c7a11cd7dff9c7605ef5993e12f7b4c5477fbe95",
       "160c7ccba66782a8660b6a88e23e34071845e0fe8b978b08f85ae9135fefedf6",
       "a84da6246854d5f4c3ebd619a739af9ba0f4a3c9ee436216c23ed5e5d8f7a10d",
       "11af7d30aeebe2fcc9332e48987ef341e87f3c6cb5b10389a0a62a5bea82a877",
       "1b8f3a55a48482b3b1a7dbb2d33115fc9754e86c03869addccf977d961d14dbe",
       "c6351a7cc3f39f6750dbf9fb3e90a32dbe07713d54d01752632a9ae21e5b5be7",
       "ef76d1a8cae48462f6fce88f1340e77169934d9a6b9957abe4760f9cdbe26b6f",
       "c3b02028aa86d88d4cee1bf50f929be7b62ca210270a9ade737f145918c27c14",
       "af65eaa2c353516add7967082dfd827ce44ad95612a94407a2c1d5a222b2c4be",
       "778e2ba0a408b32562f01b775d2ee730c134b0771feb9b1309c8938afef6da87",
       "a12a68af2bff5db3ffdb3d8e3e09567b0ac2b2a8891ae19409a52ed3a6750039",
       "87ec089aa66a37b94f16745c278d6ae3c6fc8a2589b28221cf605edd4a0cc778",
       "24dbed093812b35729b2e8f8911f58c74da6bdbdf0c70aec8d61bcedf646a95e",
       "789448a1e1bf6e2c3d93a548634c99efeb1d78f7d76825390dc7fbd1ab8fea9e",
       "cfe88407a9123a18b87869ae09d9af85b18b02b7d8c5929caf0b44a8e8e31b3d",
       "2825cf26cebb137fc5b9d0bb8ddbd7def21e9c08d8bbdaba2bcbfdd77769dc47",
       "704375f5ed08a0909c2703284bb18130ac5f3d5744b41c35fa4b4c6d6bb1ace4",
       "1e0b8e681a9d6b74cc0ffe12c628182de2d7facb362c95246d5c0dd9138bdc29",
       "35ecc989628d308a9c96af410fdeac5cf80b5174152d9d6dd9d5a2bdcef5baa7",
       "d17117d848e0bce0185f79139f1511287baec28b08576fd60dfc8491c954255a",
       "bdfe115baeda9b6db4e3bda6e8e7cb3bbbb6d97aec24d2fc902d733d5f12c92f",
       "07e5c467a637a95f28b88b6ff5f281889689324cb1f24c84dda159ae87d2446d",
       "9b5df68f10d36ff2c81008080f8d42e6a9a7b4fe6b9f87d3c1e5c32a6a4ef03e",
       "4303c854122a452d906d077adaea6f5b797955290e63a41ba0854894f606eb82",
       "fa903590f14e236d97ccd1998bc9f066b7d2cbd147a52a3ca1d12f09284edef8",
       "a77a7eb4e5f0c62d4dcb7c1f433437120f7dc8d885c532b359280eb198c99530",
       "cae07680688809837b243d00f2f15537c34ff3cd39ea5bc32643e0c17633c44e",
       "7cb39f4ffc7e60133307965e9f7b2478eae91dabfdd8926286accbbf2aeb3b60",
       "db5342a2f93200075bce0e98a9e2b24a22966698dbd618ef2f89041d7f3e1bf5",
       "a4478c40f4074a3049931a13e0883c09f825ed1b4624fa2ef4761ce67507fece",
       "dfeb583c6ade3e928e4789031c724b1ce42220625e78e660c329f3daefaa5da7",
       "c4e37848b8c104998163157d02c4838d2ff28f204d7e43a21823d17d782f88eb",
       "9b8bf38c4d1eac9b78d8309f5520cc98f2fdf8b925a3801bd92ece1dabd68fd4",
       "e25f97d662fcda2714f5d9fd339dfa5e178c700e967383151ac096f50ee31dbf",
       "7c6c2293489d890ceef3c0d1089054d0168a79261a78a78ffbbed5eb35114097",
       "2035b978b776df806481e619098a1c73f004c38bde0840a7af23220df459eee3",
       "69e4ee1b2c20b1b09c5eea7a8c3dd264304ba119e46659bd7d38c7d408765dae",
       "851b3827826a5114fc38911f635c7a57bd0d8d228d72b4f164e7c239ec3e37e1",
       "a733dd70e83e2aa00010d2bea72f27c4e84bf825af18ec6e2df53d2aca32a962",
       "b844fa668bd5afd1a82c18669ed04c88e680aa26ff3454f62baede872fe4750a",
       "0f412c90ab2e71e8ee7a700a0f40a84f58e96a85e985916f0dfbbb3bffd92445",
       "049d4673005857692ad161d735d49ca37f2fa01c4e1f2b6189872bacd9545b4e",
       "a9f60993cd60ad2ecc2aa731896cbec2957aec96fb5bd4f228ef8612a8c12d34",
       "a66ca8c56a6eeb40b5727da0c1a1b9994826dc852c3f6384dbcde2334edc8e22",
       "0cad1b2da77cf1aed290e5ec4fdb1b8b0e046265f5575fab202ceba3d6739250",
       "c664339eb8ffb9d29338e177dfea38679014f9277b8812081907b92c11d1a86c",
       "fe8631db930f8a24387b60a0e58bc927b0c948413f09b26fd31ba8bc3fd21557",
       "167875ecead48fdea6df6a40815134ba7f7dcc0eeafd67a953e9c2acc5784491",
       "d21dcca228822c7b50bab8d6dbecac75c5d41d47ceaa286ec1e699f05dd021f8",
       "65abb572c15175d073c684beea9d28bf9a1c3627895cc72c2163ee78233f07e3",
       "c2b1c2616cd699661ac827b9c5bb3d036a5590ca6d642a1137f42e8c50ed9e0d",
       "e588243da940519ea55cc68c7bc946fe9a464c8d4a125069746ee18782ba1f94",
       "bd189270091526ecff66c009d8a082b25593510b4e582effa55aab16ac10d600",
       "a7af99001042a2d5d0b50d7e5195b616b3c8a4f1ec91e0ff127f0f982442bbd1",
       "5ef3c1ff801171511bd2d31edadf786e603e8bd9f533719cc2959ef2e3fbfaf0",
       "ef755896fdb0d6edd44ae21879ad1e6a5e7994e70875f3533afab09ca8ed88da",
       "0b411066eb3d028d4a051ac8f521684f1e237b2b34dac8e877ef3bbdda1cb0a6",
       "1e5aa112b5417de6ffb231cc1e7fa96519717cda84b969554785f6cc57b1fea5",
       "c3288102bcd4b5d68342f743b0a1607ed19af92edbf82448ec0d600219abbcc2",
       "670aef72458274726feff626f70a05d268a88c82193d83cdf499fcfe1daaa1ca",
       "7910293013956c35ef1907b9e328a4dadb50d337ebcc71f8655ab9e5694672cc",
       "df32e1419df64431de2d467de6a8b3d1ac354967b1cd6640cfb16801e9952f98",
       "e3c85226dfa0c4a06df5b3dd3a1b7b32474effcf763fba233a4985232c767219",
       "4653e798a6538341ed11ef4eeae6a100d669eda3637616bc0b2400eccb0ccaed",
       "cd520c577bc02014a755c737307697e159d9b4603305f185f0e63cd397d191fc",
       "88e8fe8c3c265b06f5c97a375ac9387928c9d43150cc31473ae303ecdc15249b",
       "920f9b758a41915d172b20c056a6f734125ed74687c0f2df086b98a0c24128a7",
       "c2dd5c5bd66430317991981b8e44567ee231bb500df5e08ea77073ccdf099488",
       "10a459e81b0852e4e29d8d475a570a28d904ced6f928f405a13cae62c094c616",
       "53ac92b2266dfc3d1eaae5d7affcd099c81013851a3120d77418bcb256854056",
       "db87852326a907813f36b7f544fbe2b4933599a6dcaf6d1e937a97a96a261403",
       "fe40a510ce142383cac957a1362f846b6ee902eb5c8005bf54553030ba085ba1",
       "66ac702a8bfd9ad107e3a03eef3ffe525e8577ccaadb57705b606c6271357193",
       "9812100d41562f7e3b5e795f285e33c6d745946f8804b759b7f05567a6a3823d",
       "383104add2c45e54a3672f18bd78da1c6db4ba5ca1079ad43fb02984ba0d7326",
       "7d90e0c4a3c0c94fefb4b071c3b3faf35842ed3628468e84967c5a89dad422df",
       "c3e6bc76147ff6518fefa5627f717b18656f3109a7976a541523150e7f082cef",
       "9b7c6a739b9a4fca201aec8778a036b042e3074ef28d2132c10cc50d77ba5c8f",
       "204a8541dbcede93d3d1998aa3fe56b9a725e5b91f19c3744dd71803fd6c1415",
       "bbf11bcf285b18b8ab59e128cd7dad612a8868651808b4592c028406236a1ddf",
       "9a5bcadf48801dda0664b1e441ac10484f0b89bc354a08690eaabc6a83c8b224",
       "12125247d423b6b8587d310bc45045a73901166be169ad9de0b3b34e8c0eb89c",
       "adf4fcc4e60575b5d7b6b53054cf18a498159d2cc00535623888e96ae4fe0685",
       "b1d4f5d98219e8dfb04c114984767a812a5c5a2420ebed51dcd7bd2f8b9fcadc",
       "b543063271e1566dc6a083814e095c33816256142e05b98674613d201a85b015",
       "e25f81ce6489fc7a5f19a518c76a7f05781feae2766c24f909923f843f5b333a",
       "98a2d27321c75d1e8c483e09cf8a5bc37cfbe099e216239ecae7c54171196f34",
       "3e894c21df64dcac8ca0784944f5cdead47cfdb8d5e84bd150feb205a0c61176",
       "347b5f03a3ac71957e5712e11f804850e08cc9f15e646796ec37aecbb3a77b64",
       "ba2336801b541d7c5640b025fa804bd84b7c15e221a792157ab34a3d2029c12c",
       "e56e315c37b0475ba59632b64e2071ff09151fdf611fbe6df46ff7643b006f20",
       "9377f8ef00a5bbcb88d8fd69b7ba419870c7eea2bb7bdeeb4c615908168431db",
       "b43578b19302a1cc4e26b4eddf5df294c8ae16b35da7498918851eb45f046257",
       "58d9a2c3ee43ca496dd7cb805601b8df414a012c4968096e50cc1d873c4bd86f",
       "e3af14fd10d4aa9361291a64206cf54785a0946b224eac120a18ac12c6986059",
       "8910c284d99d10f71a59820c03229c3c207434448a101af04419f1e13dbf8eea",
       "d4551a15b2b6ab5fbb87a83162776a7f28ecaac56ae79c57baa55349c0f168e0",
       "2f1404996e4839a79d4498347136b5ecf66191d2e02d4c52bb777c28f68fd7a9",
       "62a5cb1977e113954792726bdd2985067c67751a4934c04f87951b1e40ebfb1b",
       "78f6ccdc79ce0fa840cfcb9048e7cab28ccc65128d3d16dd8c0f5fb46ce83c81",
       "0d369daed78b4e05dc752932ca8ebc2c4f385a4f0529f9dd56a0a8023d77e7c4",
       "40f9c4a029c4a70a7b93088aa619fa2f428c09a6282f26a6a8306cc26b65e89b",
       "acbbbe893ed5d7a32e35fa6cfe967c7e9885b9f4d21b89221c0e70e7219eaa5c",
       "d457661e3d96c52214ffcd0e06c12d60ac09d809ba0e71654a867cac151b4a75",
       "c4de552f985f92ea51c518c332eea99c43bb1058514dd2cb850250bec3ec7200",
       "cac1e70dc1989d8781ad04ddf7da8a247cd99090e545012f21801a037b36673b",
       "1d590d0c431da4bec9db846fda9a5a84b6895f24edeed4710e17935e718472ce",
       "e93a24aa8258d4fbd118848d5510e0e8ff7e965b1c1f38493408fbcfc75f70cc",
       "ab6cda5433f416a09a661fe7be2d1e2f87ecbf7dfb6d0048227a7667fc72d29f",
       "32769bbb9246cae0d86682542f2e473463275970a563c304cf1c289b29b50907",
       "ad76cdccc9116e4f116934adb6c385557dd1eaf31f918f5dcb2f463de233981f",
       "318d8ff1bdef459b0fd7595df9588b1587ccb6f42568529b8c0b6f1db38db518",
       "37a90340756abd726c7dd680e2b9c2b43039a4cd4d90694de77fd30458e96496",
       "021f82b17c52b3a24b2121c46a9a5e9354ba24a20558c786961e4b7457e0a904",
       "d7c3779998000a8142ea5e61c290ea4511fcba18bdb15727825d4d0449d74f02",
       "e7402ed129eb77420e763f824fdd918d308e5529de36042504a2f303b095c8e6",
       "9a67367c23d168d534433b5848e8a5877c2209a0255d7925a9596e53bf19e297",
       "f159745d53400c5d5f4ef33790256bfaf12eca04bf0159442414b32aef2ca29b",
       "36403c34b9cfa6c0f35181d0e32769f16e4b2031e103375bb8a01fe6eb728de1",
       "1fa7335a49acd0a6a7b71edfe7de0006ef1b58783a2b6cfa251bdea7798bfd5e",
       "ca37852301bf2ca4f9b5bfa46ccaf88b8b1d009a1919df25aacbc70f50fbb39d",
       "88088096cc24a6b164f512bee3536b557e99ddea9704060b1e88317e46b2cf56",
       "1df1b21953822f279cc5a0af8a43227d491dae9b8ca72dc9b168ea98a36f83a7",
       "866c0de62d9db956c74fa6161525aaf79ed9629a9f8fbc56a18962d953236ca7",
       "1051bcf7d9b5c1e40f7dd5b74fa523404ba3df293b677c008e99668c49f5c0dc",
       "0666a7a00f9edd56f5efb7bd3ab1299b85e9cef5791e350758a2892a696be93a",
       "211d10836345d9b998d67c8c7d571f4899409717442ab97a393fe8b7af750ff6",
       "8b59996b85981a64cc28cb97c2eda5c190b52d25398837ff61dd7dc83b79b056",
       "9ed57807bb635541e2031b19e52a9d94c8a1dc64317057eb339476c3a94b2cd2",
       "19f3d867a2c60602db0836a24351d1d565c58a762d7dbbe8b16a709eaceced93",
       "4b0e032aa4e463bddbbae27c13c085f3371cc1b1d837eee74f6720a87d10c1fc",
       "8c9a8d727b8def23425101e218ab8393d5a48f2ab732a367dc45fcf9ca893e54",
       "87599b96790c2b02edd6c643c17da17cb7da742f3fe3bbf241163db3bd68b70a",
       "b6b0a01bc18e6560a9a7cbee335a386fb6f04b0b6ca8adf5d887db88b7111f64",
       "3cb1d63a137dfb9598bcb68aa1f9cb44d7fbde726f72e6f868dbf0c936256079",
       "e321d9f2e7cd7dbd910849f064fd5721af4533b2e68725403dc4a0ca70338cad",
       "472636efb11452081b9b3ac4cfe8f9f4dff7614fa22f3146c3dd9fa47c0f40a0",
       "d50bc1bc27a03de9f35ab90711c12e0e541391a21db44c967dd2176af595eb8c",
       "4f75936b8c0a599df4414902cb48be941f9643d92429ae51e42ccf83159696f5",
       "8166302f93ea4a5b636c4b47fa982c80bf2ddab9f1f4dcb6e650d0eaff9bda79",
       "3bbb7f360c7848eb8d96c73104fafc8364d1e1bc536a6b27b0a6bd22ef159459",
       "ecbb6bfebbb5c066b2a932eaf19a520504c1c7c546b33297be99edf187d835b3",
       "56c94470c5acae53c55e1d7d2a11792e86a9895f40f39fbf59b39bebdcf3ce35",
       "f502c562d1dbbeb885aba2fb72d6972cf7e8a323084e0cee3003af0c8ce6fd35",
       "7497bbfb9f8381e64e9bb4e0634ce3cfb9e21309203aa84d5b06260882a7a7c0",
       "818689b9cc9d8e4ca577d6b5067ececd1997943bfd2b6057c729749cde33164b",
       "0306985f8c16fae7dce311050b45f0570b9796136c4ace521f9ba65243ae2979",
       "be96c96d32ffce96c8f620576cbf679b50d01b6c4a3318e79b6bf8b22a4a25a5",
       "fe0e911b253a64e9ecc02d05ca95a593058078172a00e126c4320e61135a0a5a",
       "330bfbfd70de05de958e05c074f5dc19c65ea601df114c7bbcd4d650738d879c",
       "49f4aaa489633f592bec1de3cbab360a19de0100a2c88fd76cf68a30c3846603",
       "f79868ff564c8bb80b981bb604de5efd94001c739a9e06c648f11cb5448e74d3",
       "e3b62995f5a5a22a4f1d41fb4099eef0bc7aaab531325b2b661f00d2707d2961",
       "7123d65e90190d95538b746498c306cfa5a1985730c0b59fc6783179de6a4407",
       "82442793805b5a7b8ec21964d3c406a945b7af17d780e5022313db89ef80e0ee",
       "73418f13a905c7d77ebee4bec02e87095bf8852e05702ac2e0b1126e00df3eed",
       "cdd5b58177eec7dfaf5bb7fbc1886a73974249dedfda4ec8ed5245cdc77a90ae",
       "13cd3f8f5d8e90fd10fb10a5ab8e12dab8bc14491b888e353ae688e50082deb9",
       "e02d4992e1afada35bdb8f838aafe2b3f38adc431ace4ff97e93d83a6a4f9759",
       "d311ba47518868d1d3f7852fc27d131a21b5fceb4641ccc1b383b6b1b405ae2b",
       "b897bdcdaf38eb045a46b864689495410b11dc99dff18c0dbf8386cc253541ff",
       "7271bc3c7ec5583d9e8b130312e8b12e60ee1815f92e6b5e8daea6bb3f8b3f6d",
       "99c27b1ccde82b2527d6eabb19518302a7d48433ccfe32acefafc89f820b042a",
       "f61e5c1670892d9e3d9cd31e90d23abb75847ac9dc723f8e011b89a4b04822f5",
       "80f1d68fc5ada7e2a3f5c15d2ad661126f23b4d85f8571c62ac3cc0eadaf1ba6",
       "1cab482c46c49456ec6531be056400e7d09dfc7d5ff700f8012eb2f1827d3ac8",
       "7ce5a70df6b65b932638de35e6807a94d774190ec4d416f6ed393874184ad3b3",
       "d09ee0602c3c7fd8e03bb51e8b693d79b5d4fd92861eff71438950c229654862",
       "25c6309a89e2d56cd7b6dd4009ab0faff8283ca78fff35fe0bd01fd0515f0780",
       "e195c573c446e00ad221fc0ca09f52ab559690fe868b835e021f639798ae1fc1",
       "8efa33ccb73e74a6c03d7a8a34c53f04292724fde26334abaab72e92d3b28410",
       "de0a09752ae13ef06ca1044522868a47fd353e06fd36601e55900dcfab639fa3",
       "90f9f075e8fe92512d9862abf55cc2820cc60f014cff79d3755c9442b4a74f9c",
       "4063bde761285b6bce581e1a56d9febdfbe47e38fa962ea1ff6b44d2a301aa91",
       "d7b158e99efee421d4b9448db6024fc6d97fe4af01507cbc24b247b1f1ddb7a3",
       "372c50d1f33173b6155d4e241f7501cf0f7a981704f5a2de6b6395ec10f5e671",
       "905430fc8ec5940520ac9b2f6e45bccffc386308c88ef4050dc7bbc3e5a9d9d8",
       "614993c8d39040c5df16c2209518b37d9c0b7adf983f04823131782a0f9de076",
       "e8fdc82e17ce39572f1718b14ed37e533e8545db7699a380b1491b5503033b73",
       "60afd944d318603bfb46b7e300a70af21e0c04cb8aa289aa3ecf94011530ed78",
       "a3f419825030d5140498704935f3eed0ccd629db282855f8f93e00c2880f957c",
       "6e9755400641618ba14e82462b2057d677f9593143a3641c4828a525422ae087",
       "b94c0e075acfc6ca5608dd9ea5b2ca7a0deb845987513669965685ad18e2965d",
       "4542f17abda6a1633e990698b4a1254e8da0a76224230fb63f1b4027753bef31",
       "90ca7db26ed497c56cf97f35ebcdb65d842005aa2ed7a8b804d208ad1a223281",
       "37ffbea980155722c69b3c26a09d7748e157e78dc834e773094d0e2f3a92c79c",
       "5d9bca03f54a86a732b23630dc0f8c9cd315ad76f4357eb80f2e213b095b217a",
       "3d75dedc594ac10182e413d00f0e7d852435db395277ca449bdf5e3cacf1a706",
       "f4f69e8826fccec4908a8461e0ac79365d37730b1d28c851a74da180348c1c1b",
       "faa3af527ca7949b1a5f39503d658d0c84c219913a3c02124f7f4964e8c9043c",
       "901eb2ddef615c042f66ba5fdc813dc8591410fa85fea276f43d147d35553d44",
       "a99f367747f96dd25dcee1a0883892db2902fc2fe0ef329bc60afe9aefe48106",
       "e635b77182b4f3a419cefa270036c6c4a0e663e11a57306510fddeffb55d405d",
       "70d7615ee2b83e68db3b34e70f3e3b5d3bc6f1a9b54a0785646351df89379da9",
       "d19e70c96d5ebbe743d6f72ab89fbdb472b7448c4a79c232fa1a44d76ad0f9cb",
       "7a948839dde85211c216637ad956cf0dfbbcd36c1fdbeaf4b8771f323f6b7b02",
       "8688e9d8fe6fb2c12a2e33e69165103ec66ec0b804ab443ec5b157f9ccfbfe02",
       "116d8de59330765c2ab29dc26893863ed84336d09118f92e48cb78324d004592",
       "aad456a39caa9a6c41389728d3479c25215f66b068d96bcec9a2f7654abbb841",
       "a0e6bff08d37686011a3a114d590bfe5c9de8c4efa72de01199f7e70bb380974",
       "373deb8e27b4a594fccc987c86e71a76f1652369a6be68da2e4d3098ae87e485",
       "2233e9ca75ddbd9f99c6d66dfce2becf58e4eb952a0ae86f1927e9d09ae222d9",
       "3b73706b25d60291038a3d67c8b5533089155693b03d6637b803e2953deaeaa7",
       "17b4989836f86850af9fb5410040f567f958aabb4abf7961fe550363d5d4b52c",
       "31c550e5fbfba14530ffb1d7bb2b0d2a279febbc8eb05e87c132c0d4adf476a8",
       "514d9091b08d5695fa4ef438647d79f4b6d57bb0e4205249ecd2d7e153451e82",
       "c9424d5d0c48f020e4b05ce157ef54028709945ea65d0a473908f73d6161423e",
       "828105dc91e4d83baf73cca426791b969c3725074416be7cb897f2150920ee12",
       "c461470c57e46d42651f5319e6117de8e7d560a49f614d7e64a181f077b1ad63",
       "57224c31462dc77e0b1207ef214d756f39d132a5312dda026fb6e48a65993707",
       "f69d36479b0f08c5c8ed490a653e2074f28b70d410c92d54958ec74632f2e324",
       "ff9759b7f937537c220c69dda6935c77c79e11ed4bcf057b01ee966e7570d3ad",
       "8e3592fe439e32146a94e37df3d58b128d4a0b4db76d6f0fab9cc63cbedcea7c",
       "0d9620b82d32a7fc1ca9f10a87f7cdab21a98cda61b85404c694383cd3a887fc",
       "a9bcbedcb9ff0f0879ace917eb8d292489ec12747b0dcc0f4b914a2783142123",
       "41659a253a3fca6cde8d9cca1b08bafc2153a3c33c3873393759b593a37da7e3",
       "1a9449fe16ddbb973a6298b6e03f7f2cc0a1da50649ee18c5974b1f6d8d9fe9a",
       "226594d505869369fa830d7f35e29b7462dda4f023e99d71184b1de690e416a2",
       "9dec7095e61b9d6ae94632d753bc53006f0493fdcbf8f69f421e0efcedc6e6f5",
       "5c974e1f3fcaa283b206b7945b01a87e255257a868649d86dd25dc9694eb7c00",
       "f2a75223556106ca09ad436e3904a9e8726938913bbb0c182deba69082961de1",
       "e44b86942c29c04644716e211bf1913d1b0b1359b474a167657111a0fd8998b7",
       "7ab385283f252f68d5288d3452241f0309b0b32007ffc1840620e4a1d11281f2",
       "9e28a88eabb0a5fb4062b2da9cb8dc4cae1967873c6f1a3cb08c498f9fa09c88",
       "9acf8db298137e9da24e9ee7f536c90e1b670e6403edd1e3e5921169e55d934b",
       "dd81fbe0dafbc61fd6eed2be17b2dc0de4037f7613e0f07d314d42d44c00583d",
       "cf5e9b2f4cbc5d9aec22352bf2f7d5774f243c9ed4cfa1b59cca973185243195",
       "eda6006a23f387e661d141fb14229dbb03c0e4aa78220805347f1766444b4746",
       "70bae3c8466e5fa4eace49f11398b88c50c4695c10842e094d93fcb33c200bef",
       "138c6173c0d8c38a1678651e036db94335d76e7aabcdfd69886717c5d9e49c54",
       "d0780fca5dcc1b811438f4423c1d94682138d364c20441ca83ab1769487a4584",
       "93eefc1e957ed19f36244705df8f223e7d8f8a3940c688d14504c7cc61d6722e",
       "56904af4a053555c738bb84bea98c0a229eab9e4784d6d0a3ef4fb519cbc79b0",
       "9fd5a097a8f9fd485635d327857018f8bbf2b0ad6044e58349d7f2b0b799d2ef",
       "9a883426ee190d418bbc33f2cf8e298ee67ec57522d6e6678cf9416cb80302ea",
       "b551bc3260638faa2ae844e3e91bdb255907c6654cfa4876135665bf8d3e4802",
       "4b560bf4b9db81d22802ca8d7f81806f19648c21b8edcb368694be1f9c29652d",
       "85bf26f1f788831eea494a8d861d36f53e50fb76edf3df933dd7f9e7e09088b1",
       "6ea434c33a90b018aa9e8cd729ff385c6f25d91f3c49389552cde69dabbd4bda",
       "0b6fbbcb96faee18ccdc11152c0a8fdaa36491cb6cfbf837436190e2a0e1bfa3",
       "81fe33c4555ffe48f9a567d3c1d752d6007555a68f29b4f6591c336830fa50be",
       "7ae03221f1cb7435818cb664e2322376eb888a0cc8b4e9a6757517be3c79ec39",
       "35ce24248400d91bc8f4eee92281365232a4c5ec7011a553f0cbdbe1e99ccd97",
       "450f33e279ce84796111e285e79ec3a58df5b76f6f0358d0b3ac558ecd9c3351",
       "cd9e080c1c1d5c416ac036b98c2a0b96a56a64be3623d5a90b3d678043d66c82",
       "27f9b2810761364a8a215ce22f87ccff0a69993ec2c2864559cf423c0c804b1f",
       "a23743090d4fd2c0f937002d6ecfbedfed30ad67fcc5e3991cdba132175ed5d2",
       "07f0473abf8cfdce3490fc7c4e024bc2e40dd701e9dbcbf038953e31fa982182",
       "ea89a5a5460cc465df3122c660c5fe2df82b0db32ade7bb517a4ef17f52ccac6",
       "adc7e68fa341d51836d7d2b0186165b80526e9b56d6db8bb87477050e2cb2dc0",
       "e4c385f09a79790815b208ea1b02a3a81405a2365f92c8f6c88312074111aec5",
       "b45b7ae60bdc55c1314048bc809ac9febdf98f298978c63deef5fee299e3316b",
       "22d431d276526cfa8b023e45c6a35e8a6ef358bea2bba9385b58fafbd2a4f73e",
       "99e2195a0b9ea7c6454f655d49510b77f86a0ba35e176913f71423a3d037d773",
       "faae2d9f588fae829011eaae3ed6c922e4615ccd5d6c75daa7d4c4b6c1376139",
       "991de9b979d7368230d147ebda942ab58ed1ba234fcd1e317db15f0a4743a581",
       "5d675874c3c96dfc64b0a7dd68bd9d12ea8e814bfacf253ce82e28a007a13046",
       "16ef9b1d9534e4a227ea06e5a06d46cfda3481034b69a8ecd7829c912e3eb20d",
       "39f711ac6f899afb3243cf052a5f1274ba4a05708f0266876c5ce8295915f82d",
       "0c0f67a47f940edda41c4d9c5a0241fc04dcb5bae456bb16230784de24153af7",
       "e6637ce08800f2860ab9f40c1c72050438119ce3ac14fe3c40504fd0b90b01be",
       "08e4a7d855b5aeadadac7d07405ac2349199fcd09f1e8c3fde6f9b36420d9f0e",
       "73cd936783a7f0119de9ee6ead97c2fc729d2785b75e36f05288152cb2bca106",
       "65e651dac94cddda3a5a1b921ddc9753a7aa81a584eea0d3dadd659a58d9cedc",
       "9fc25a48e5f3fd14b60a799bfb8c34089e45d63cfa7fe08f576641d1ed98fd57",
       "d29d28a9de010b6666525807ebd0e70ec9561e216f3454e96b3b24efd8c75ee6",
       "0146baa972fa4498b5ecb22d6e925f58a91121c3c5e195c57082fa9febc81acd",
       "c98d2a0d8b365cb39987c5913cc84e00df33d90174a9ccf2516be0918d4564fb",
       "6a0fa12127147b50f3e05e8817e856d857ef9256c193d63ca3b497c7ad213591",
       "3858165c28b03ee37eb8c0eca6a3d305a506340f6e60cb1fde654e3bae2d4911",
       "384eaec83b0feff728e367d22dd0ee0216b5c236401248918f6068b88e8568fc",
       "24746fd9689353c368a048824fca190e7dfcb0adca484f1f5f079d97e03bc21e",
       "bb0a451790cd7a0174aac9c47b4f84201a8a20e9ba7d1c4a1b56c4b73d125c9f",
       "4af79a7d85794bed4f7349c501afd5b95a5710171e3a178edfa9eb72b52ef2af",
       "628dc7114e5442f9e8e11014d34f66f6f9411ea4bfb3ebca5914f0a1a0abac51",
       "ebb14aad3008722c3611b0d6e63c7364ad8c1ba26ce6b4276bfd271f07214d4e",
       "0792927c8143ae6681689de901a0003d6a9a39a80ffc208300f89d356c5e9c94",
       "c2e611ec657546b689ea4f02f3798a938e542b13eb9270b9b22c304201104dd6",
       "8608f8c087d4f2a1b804d4f24ae19fe63adcc3b3be157a52f597b43c52a12b31",
       "619dbd3ba6bcc0d9c6db2b33fc668dd2914916bff9c74da10336e4e79bab63d1",
       "f78bc6e331060bcee96193c3a231debfdee4c037355c0c086532c9a132ab8d79",
       "2bc1890ff7e20d2b1e000709243ffd9ec56bb60d1abfe8d6685d8ed28438509f",
       "236a3781196aa5e3965759c48ba062cd6f8ef329be7d3630600ec73359ff02eb",
       "ce4016ed689658534ad09bd0b8f9c8f9a08b2ecb5be5df10e2b4dec8c0d82298",
       "5b66c017f1bd37b70a2ab3639d930e768385a94e889c3d64e35a227ed178c715",
       "e0a56f9ea5a2a07a2adb24f530a51bbf054ecb8fa9b36c2535e6fbf7726d85a0",
       "1ed6c76937154b0d29fd5e59a630c383bb38e611069095265b1e751e09fcdfc5",
       "e293182f6642a054b1d0c5f08d2003142eef9901186872b04acb11099fe4a120",
       "65671b0f0cc719ed231aa67d8ec4147396034cf4b1c2eca85e9bd68879efbad7",
       "e93f6916b07ec9127553c2ad63eefc95527ad98736e8c7ca5188e1940ea81eb8",
       "ec2c3f9100b7f1635b0fab03b25b41497facbaa5f7348c2606b4bfb5b510c08e",
       "09f8e99d7c10fe9099cb2d01a5625b40c531979d46f6407ae01fabca1cf5070a",
       "1b9b53955d5915326e52e1f58a0c460fa41a8c44f232efe9f6c8a006e7c02de2",
       "e845b9cf3d5d1a8b7ac52f39a1fef8a021b757a62c07f2054a655ee97379f60a",
       "91e239db36b5220aa4108150178e1ad9b72657b6635e7a419e3bc8ca828a6885",
       "afc3d1c0813697792f5a9cdb44acd8c233c92cea767434b7f21c92a4181c7295",
       "e8967ec1a0fc0b606bccedf8e2751aba00238b68fe4035eb7e9973955193da57",
       "0563a82fd4510b5e49846a47e90666038338d600c1fa6a43a80b92cf53f5b0be",
       "258777fc908817cfda3b9751f15e3d29fe124dd4614f30bc9313cbad2bde8ddf",
       "4edc0a30299eba400ce2e485a10c0daf7f229fd28b75fa810e018f0b09dc3672",
       "a73fa12cbffecd94c6a43391d6fae7eb3afe3b6d2d1c6c31a61bc38af7cb0ed9",
       "1aae3274602d4d1cd215d557b1dcafd915a59b919d46dc3e2d3622bee007539e",
       "02e75f207b5ae388437e7dc6a9d27c15fd73948c2b22bbee9d3361172a00f963",
       "c56d9c69989011ab3266fec6cd3f436abcfe13c3d0d015f6548678663f85ad7a",
       "2c4495f7511cefea6f9cd94bfdf85160cd1e27ecf92a2caefc53bf78f4a85878",
       "24a439d4d01fc6defe8f8b864afbedd46d75882417ee6bc2f93a4fbdae3a671c",
       "9e4ed47d66a9ac892664395f0a75d59a7ad5ce7234cc159da2e8bc4cdcc14824",
       "51eefeabe5b86e7fe9886ff6703103de1822ae8715733d5ad8a03dbe3499967b",
       "4381cd33a4afdfb1b0c30e732f2f29bbe48344d51eed8401a01f1d67bf2cab8b",
       "981cb0bb3ef53eb586ab20c8a8a5e460230efbd4994333e3e857d0f928040d36",
       "6a64edcb19b7cf95661d6be5ece4da712a14c5e44ca82d2eb925b9cb7676b6f6",
       "14d9c9c9469708b651c35e7e590e54ddd42bfbbdbbe56574ec5b166c55f077ef",
       "69395708fde40aaca11c8073ca245fc31dba6c58033ec6e931a516bee9caee51",
       "b058b31110e41708f40aec1feea197f6cf4ea6dcf343df23fa6a6eaf7dd63ec0",
       "a5e14efff6151418a1c1aa8f0ed5dfa21095c1955f11d486ec6cf4d84a1cb5f4",
       "5f12791ae1f5aacacb6133d644c79ad9bc195a46e635d891c93aec1e69561c36",
       "4c8ebb868833f1a6ec4188cc933d66f397dc16c6a180739440ec1c15aea9a6f4",
       "e444aa0776c3f7e5dce8bb615e19947cb2a063d9c2d41de48920ba95ae37670b",
       "a4b64a1daa70ad70c253cca7933be1198693121b663e53f1155f0dfb4d65b5ea",
       "5e251ff8de3df87a2f6995bd29d89ae42b4ddc6b00ffcab1cdeb819dbf241d43",
       "c41a6f1a4b0c32dd146f502d38a7f7a2d6d858b8aab192024db115fc9826a0be",
       "2076bfc7d4621fba1779e479e7a0fde3184c7f9e6dbbf3f4122956e384a68732",
       "ef95b86174059652097b99261355abf9af7ff668bc4e04d85fc15463b8cdc7d3",
       "211c63a82d1190d4dc398b5a947f7519af37fb8f45d532d971a2098a5c8d094d",
       "55f7a340a7b08ca184ee69895237d1f1044a9794441c689c1cc91fd700964ecb",
       "fc9ab943754b76d0074e9ef26bc11c96b620b2fea0d4421beefae4c810f7ef40",
       "11c47ad3e6529654feae71fea4b07ca60f9fa1d99e66ac31114e5ddf3d12a292",
       "e0d3138cf382a36400117cea54c6b5281088c3216b64bf6ef0cf94ea4816999e",
       "d9f4ae70bc05ef10da5f674560be139af92c5596899f5f45b84eb9ed8d4696d1",
       "9a7100af6c8c5aa9362d455a404343494889483352955eed4a144c94a4efb3ae",
       "bf74417ad3945f7965e6a241d26b4f6133aef5a36835696b9dea73615aa2c540",
       "67a6a85b26edc654ae7a26544b69c7d48deec873b0e84c443c8b5286f322bdf6",
       "4801f314abd5e71433e8a08cce28b4758eafc248aedfb9344a6297f92e3a5010",
       "554f0e600e608dadca542533241c9610423a6a5237e37d6ac54642248e11b3ef",
       "89c08c8ad727aa3875ac41bfe39afc3ffbf972924b920fd15091ba796d75f90b",
       "afc732eb51a88039eaccf0e47f33fef5717dce9fd235be80f2ef9ef9c0fbb1d3",
       "4e788c19dd864cb21af1473ee0a82de426967484059dcef02b09ea03bc536824",
       "2eb608ccc36ba9614ffad64d5a993b013d991a84b7025740d40ad4e89611b619",
       "7ba08fb67940398d31fef2cadd839760a4a74333ab50c3f9083a5a592f7a148e",
       "4816fca182b9e31d8b256770359a97488b2b2fbccfca39ec05d0ce5323209499",
       "25c60a2b45042d8707c809a7eaaba1e60b85154eb83599006e60ce4ee2d1bd0f",
       "b524bf636b66d064f829a5e976094caaf4e55bd722ec2979cf419ec2a2edd711",
       "13c84bf54198ec1928e9bf46b86a065cf71bf313f5de6c3076eae3087839d268",
       "c0748a08d7fef0b466c423818f6d0891b3f99f6b0e0a09c5e66e52f8e6d539d4",
       "b203624b96ffab5629d8fb32c66e11a4acdca01eaa96767578dfb3386f98ed31",
       "345c84ffd6f6aac27e6be2403c05c2dec8b554d1e7a8c4f09ed6e51f1cdf8a7d",
       "5825c37a2c7e7f10e3a949b621d59da39f9f28eaec0fa062a9d2841bc883b4f1",
       "c6b4aaf328f93d4a611a71367cb78e59542203ffb0580e72d05dd974f5a19095",
       "1c3a62609d4904133e886da4a3db3c3190169bc4539f6869b0f344be4b2442bd",
       "5dafeaacb2df9ae09600627de1aa9a1778e5413e6756bd50e560a9b629683ea5",
       "eb45f8e01c2ff51a93131614648673b04aeb271a10c1c048a538db1966522eee",
       "d5f4a7c516c712c949fe1b3851f84bb31e67e9c31dd35e127fff43a4360fc624",
       "e2eefbf9d4fd92eda524a29fa320e95c106f471f986298ce218fef9677f8695d",
       "912deedbf7b0681dbb80e9e944f95b33ceff00e6308f8226a1ac4328e1f242f0",
       "4b9aa9991c6166f5d9648e4e181ca35f3e31dd994ff7c6223c41d99ffb09e4b7",
       "b34022f1ba0163e5df63edff24a7ab613e0f48a9ec32c4bd6996f2f15d4f03b2",
       "5a2c0f6adaf562acf5c7d891c92a54cf9a19b6c6c858eda49488524eb829788d",
       "588f4e58abe0a2532453333c5fd1c910c8d7a73f394d234c3a1f3ecd8c99e12a",
       "dca2f8588149f22fd85b175e14c5cb52cf534d20b3f6dd03b9175ab859310fdd",
       "365a9c5125610da09f49beec23c9c6726a535037516e8426409990d8221faeea",
       "4f96917e034aab25a509fdda53276bdd8b39557b50132ca2ca2cfc8038efca28",
       "794c3f8e1377488313e9da189ef8cefca2f5fcd5b1231891f7f6be7742fd0e25",
       "06fedc7d965b8fcdfc7d7dd831cc7ce89a8ee85a440674a598bd3a6ecba3bbcc",
       "020c1eced540078c6802210ca3de2ea8ba2eee9d4ecbd4b6f7ca1e4f036684b2",
       "5576a3c34e77826924b2e8fe4ef251b25276a0b98d64d893462ddfe0c342626b",
       "110d153a262f25e8b8dc295b118ec76d21cad53d8b729130d8e1ac96cd214a3d",
       "e64d9a03cfcef0b6fc5ed6e22ba80f159756eefb29bdf9147959642f4b425f94",
       "6f713079296294303bf90a718738e4063f6ec4dce56559a9ee1aec109d1321af",
       "361ba7bcfe46cc1bca0d191c0481fff941987881ef5e27908075b0aaec827d19",
       "37a94edb92d5c472f9a4478baf0d0f24fa79392a04a55fefc6e7863e1f6e8ffd",
       "f879c75a66dc4b2be1a0a5bbb51962d21b23839398c34d78bae0faad73683070",
       "8eb486838d02e9d0c122e63529d85349ee702fd55653fb8de3457af13e977179",
       "3c02fa15adf3864a9ea6ad88d5451d1ba83ee78b4832d9dee7f0329979b1bf07",
       "22183c15223e76c5abda8f7708cdc28fcdb8615af0583cdd805470aa03d611cd",
       "6e2b65af086f91b8fdc4da50e9d578aa49f3af39a891d746ad4d096bfc46ae51",
       "d907215478df64cad8502eb0c4e27f33b7ca5136c6a2d36a58445513cefda4af",
       "e7f5428a50a47d3a6312dd55936503b1f21f68d81e2277605f5c46d9a2fc9693",
       "dad001319a9f870c2cb571f526d1780e195a9ec937c9ee3e360f53099f8736a8",
       "dc841cef3bf137630684c36dced65b289bee48371b38ad7fcca966864785c36f",
       "3bb286cae7adc8ad6d213a231d224f92e4d3d131689abf390da05fbedc7a4cc4",
       "e0a9194e1ab2040a6d0a186feb11c703daa0c2ac3e2777666f6bf9364c2ba8a6",
       "cd2ec141635d37279a559e51c625619c1ace3c10fcef1226cb5b65ea72883ed9",
       "87a94f19444a745b15485e955b39ed4f0bb80f87e380a01cfbcccbdfc2f7f758",
       "472bdc65bebccd080d00be325015e16e10c8d033387cbab032aa6461719d15c3",
       "21cb76c864bfa8f1499b07360f5f3e4ba14e7fa7170fd2b4a01a82eb15a95653",
       "31e02fc266d1463956d727db64bca3dec04d8b46f394d936b1a2519835fa5569",
       "b4235576838c4af1834b66b126bd94c4dc2f35a495944acb221171a4b189510f",
       "1fe439826dbe9ed433295c63fcba57fb1d7beb055810cf44e0c0bae326d19943",
       "63a96beaf53de2638f48063f24ab3fc859b652c13f072421833b8abb14d4541d",
       "136d66748f6c8646f48d326932968605e640e4c8c7a9bb0da5b8ccf4d00069ee",
       "a2f6f0c107c54cd7e365a12c07af2c2119064b7b3cf6b864e4c8faf86faa2bcd",
       "a38d1359b59c07a3648d80c5ac8aee26fec00544c56da323a4d9c3004b6c302f",
       "9741db6a119d0155b342d8c955a8b8f945f6105f4385fac6c2ab6c6d1eef20bd",
       "ffbb184e2c416021c482bcdaaadd416d9a5b6d045818189013f412940e6da955",
       "0b8bc600f1e1a1112dd984cfa20781ecafb1017a60d6ae14b18e9a3bdd6c1aae",
       "55895d93559499e4af08490e9d8048580f377658e37da052ef5b4299e09160d0",
       "9aacd38602ffd56bc94f7b1ca82b0ad8304cfa6bd91e691b0122d50a91d940f6",
       "c649aff133477dd5e233865e00d6d56abdff2f6be9463ccdaa81f3a08bf21255",
       "031e3e3c08dacbbe8f74601b0be36207ca2573523296c12c6b9280f8f9ffe80c",
       "fd567c17d9e8e30941d979532b3917626c5cd5816d30f366b30db6d850244ce7",
       "2b6d1af6cfe4c16746fbb1071ebb68e85dd2a92b8036992373d85d73f93a2f65",
       "6be53207c258a3e1847eefbe487d7354e83e2d564ed2353726040d9b3b84b8ed",
       "d24353f69f05638df3254e64576a36237877f06582156a8d48a94b57a2caf464",
       "1913bb0057e2c82e7d957a5272bf83cd8a86636e3213cd2d4f47f2d295c3db3b",
       "ca587fab2d28abe478226f2d5d9fd0d884919afe2358afb1a8da72b123e8174a",
       "c633ee7769867c17e7a2728575ff4e6233da3eea72a3b1d83442549d5deb7ad2",
       "b5142200d2ab22d3bd7d1f86680df65d4a79b3ebbd548194faca40bf44ca04d7",
       "a0dabe59bbbaa1d2981f3d46ca9f2914422d3af9c453d8c5a89844615bec3579",
       "2bf5fe2c86eb72bf4d9cc897077f00cd08b690775bfd68d65a7ade1e92b5a13b",
       "5da19d716e0a7dcf71df833b0585f8bdf797fff157feed9ccef15b5ddfd58689",
       "575a4272d4e556f06281803ee98adcc3e2e94980ad0c6f6950f54ca54dd21114",
       "3b8fae2d3006bb6a59c4e193b9b7747a6ef71a92f90f976fd31bde35c22f620c",
       "929f7fd66485caf194553e14729d76bb45cbab764e16e266b979176a82c37100",
       "74da0e62f8f9cfb3c6a0d378aa6ee44115031554c617918953b4a6f102ba4073",
       "b26c1a3dc61b8daf59e6eef80df4ab0c55855dcb6c07e7d9db7fbf16ad5d6428",
       "edb3a7681446350680c6dc60970e041117c84eb9f077ad8618fe8b1826001738",
       "a74f33b5cf735a933b58b7172d84c612263d880eeee1dcec5fba3780c7190338",
       "0a16cf2aadd525cac5e1802e521435ec4e61d95f4c08ed66e4becebece8a5589",
       "873562e0ff4337bf2a7ff6e13a7f09c4cbd8bcef03fd93f4352f3dc4ba18d2eb",
       "d61c753a951e4d65449f4d63f089292dd49c7f8dc70ec683f8007d60e7786937",
       "70eb562428a5724a8171ec1d17047491fc82331ac45fcb6444999814c4686d27",
       "97f95039a9e89083df225991a3df363338f320d7a30cdefb7dcdfef78d36bb34",
       "ef54015611566a626542682d29279cd43040e4510b8ab13f5c7bba282eed05e5",
       "b6a9cab53a12bb34dca86d0ca8f13ca9c7fba2c7103ce6bd34573d9b5dffdafc",
       "73b2ec1b017c9b02e224ca56ec00888e1bbfa5a739ea2d9dcd59b13426fb6ff9",
       "b276336641b5638732d4efe545203b544c1e8c59ad58a96f4067378542219fd4",
       "ff0c3c0016153936c17f3dc435ecc0140ad242c00ef65341f913c00cbbc3f86f",
       "da2fd32359bbe31765f57eb3c77bdacf61a497ee74c43a709f819f27bc342465",
       "1f7e3939585c4af961ec8ff8fca6af709d69dee0cd7c8d8273477c70cae8bf0b",
       "16e28d155c023fc2ff34135dd6b3a4d857add4041baad06c6855dc9aea2c9969",
       "1a051caa5cc3fc1576537083f87dada3ad8e3e9173d119f5386d641e447e148c",
       "2147dd9b0c2a82f69d8cdc50178a4a04c002c160fe3a241f2eeeb86ca48bcdbc",
       "6c5bc7754d5954d542fc83306f516a89acb7095e20b7a83d623b602b49a9cac0",
       "1fcb0523c55c73c8fc89e4414bf36bfdc809633e8d87493ccd634831408c735e",
       "668106dbe38f65ed9410476a7ea2866688acf15778fef1ea3e581f56ce2e68c8",
       "9aa614fd2aab5cbb26a1cdb6143fd776380dc52d6dc1f01bb407a0b615d4fa96",
       "842f3d0d3b6e24281f942e09069c6325f3e52e4bf5a8b18ba047e24627f9f170",
       "8a043965864c88a36d8ec4bb582591bc4ee30175ac83cec2ecab8166e05f3157",
       "4efd19b98901882e3c08383364e7ec4ae56836fc202056a9508a4cc9d11a385d",
       "25f18cde01928cbb6bf5fbd708911eb1da5f09814658cdf5c9ebaa819a9167c4",
       "519634f4b363a1499c7e1235f0e160c7b25cfb0f18e3afb0b994a32c517f7ccb",
       "82e2cd791f06074575c0770f185301ec0b3713a5309cf872e626de1b9094bd96",
       "d603844eafa7f99034fb8bbb863ed3dda7dec18e006f9b1f765a96cde6e2a19b",
       "5399b32f34cc888c52bc5b52288d05e157e9472761c011c3bb7b0d2c9e2f48f6",
       "c0dc83cfeb64ad76198716bf7c92170ea529aecf036650eb7a0981b2a3813b7c",
       "0910f9e0fde4025fdf99c2e4ca7fe3abbf0601e0c7d289be8803e4c1b4a27f1f",
       "335d9626b5da6ded0cd4bfac7afaddd9e21ee6d435df1aa63571f2ddfb88a10e",
       "208d95ce6406e9798fb6c059d69b40fc953fa983d4f1f8755d52b4ee7287ec39",
       "d9b2e0dbb3f7851640066730cc618e3e97f6fccda29b5343e0b88d823b28b5f0",
       "3077d29f0f4449cd8adb011c63468e8e35eb4877b67a8e66c9197690ced7318e",
       "69cf53e9c4fb836f60d44a6315981dba21bcb387368e6b55ab936a00d15004b0",
       "4e882e60c0fbd88d38c1ca03490a6679c820ee613352d1e0dfbfe337ae5d15b0",
       "f4020ffd7c45d71f2419288bd7862828eb5320fba9fa15f1ea6b1afe2ca6fcf2",
       "aa6ce44edff595076595a95b3265819670412a16ac819b04cef137120d5762cf",
       "70494d2407e2b12c9b88325425143c4c394c39bb66753c34df4cba45bdd5c8ef",
       "3877c2e8a31e81286641e6625b410a7c1d3a7f32b25991b05375ef4998ab51f9",
       "1b8a5e1cf47945b6e29a4b3c99a85472eab7fb371d2061a1e9ccd9395edc8812",
       "22e8a52ef4e636d8396cef72f3fb1d9f28fb343d27feaf6983c7a48300545688",
       "8e30e3756f506beedbccbbbaf19354222ab73787626f6323dd9c397138b4d141",
       "2df542413d4f214d101087ab7b5a109551441ce13ea83a6d7fa8e7ac189ccbde",
       "22d8396346af27503aa9e4250fa9aea768183cf60f7ce4943cba97cdf3b93b9c",
       "e834461620d253a1f7b967ba1df43931f8784eebbdb35edd50d385df50db9eda",
       "bac22c78833c0ef48abf053b9b92e2cae049e119b9567bba8e4b9e7ef41988d1",
       "e60679fdff88f2328b6ad2f7b4f7e22073a53533c32d6ce5beba92edf0e9f4fe",
       "0a7298248f1897d74a2cd1a7b4b02828c608a05d6be334cab6442d9c3eddc021",
       "5fb3db4d6c227b3edab7d91c13786ce1a20371a732e1b06fa235030304f561d8",
       "fe47779222f006c7e482ed26ed89ab3f2f3de4c34e303d9bd0a7e6f906d80e07",
       "7f7ba134f8adc80a4257235d75956faf69972360fe00a65d31a1809923a1e88b",
       "58946389a86879aac9285c163609d9b1791f969c78d570081467561f9777429e",
       "f20ae471fe620c059d90f3842772b0d0808198f3b80144fc50e5285f2d935744",
       "52d5c213951b2d95809601f7ba87f93403fb39b7aa7d4351ceb2985dd186b592",
       "31ca251eee8cc8c7b95c0ae629459a12ea1ee8df2ffd97c7b1f191268a9e3ed6",
       "86619022e0e86e709b90adbaa5e3af4e49a324d43ac9b17f7db3ee64a4b4835a",
       "ec67620509c9013881ee0fd06e91394ac7c9f012f5560af4ef40d666f2f36bbb",
       "6e87debde46259bb16dba2c9b50d7d091a8e15e2d062645aaa283fced7995f6e",
       "799c828c60137c476cb5769ff037a27fd8533d6db13305b0a09c0108dd756688",
       "85159afcc19871ebd9e8d914e2d6d3ab2e0c82f81ab7ea8e588d485b00f5d2d5",
       "cb2da99421cd99dc0cfed8669edb9de069d52a8765747a25bfaef63782bbad50",
       "ec3d2b2da4e5f0e7a4893c295b046bf1299dbea289c984b047edafc6b5344789",
       "6fb0fae541acfcc938caee190895c42197797af2cb6212f7dca504d4fe81f0c5",
       "7327024e54e8fcdf4a87c40e7c49f12bcad8bd8ee6b2c329bd6dc648425782ce",
       "b96cbe9279f03ef9d4efe7c4ee29a2c61563216c81959b715595e9257902ca4d",
       "b09dd87a32ff2c679eb7cb00b0431afa3087b473f5e028f81f83ddabbf49a35e",
       "2379e178e0afa9d437f80c345d0b801d701e5c43dd3605797e82d0cfa8ba70a9",
       "6e37bf084fd693ffd6750c7498530c73b9ad9bcc12b1fe96ef5e898f03b7bce0",
       "bfe911f680e63bd95dc21fac2900c48891ca7e64267610be2583e480732a0605",
       "a70626d6b9dfc54474a90c4dcc5fab69674c1a18b97770d2c8974c0bcc4358ed",
       "ec7851406094bd27b693533bcccad673bba28d383597b8a8528a54b47831bb54",
       "96c16a2675f503fae5634c2fd919217bb4f9a818b5b1b8d3fd1967640d0d9ce6",
       "ce69dbdc375346e845c1c892c1e202e7b91bbf37f64df7e961876fa2706abec6",
       "d6c95907f8414ace6c58671a38b24ed5f3b9a1aa1ef18a1ee784e67a66e11455",
       "e0f79fc94594ef9e16dd09e883b4743a7645ddb8890cdadc339db7cbe9e3aebc",
       "8ac2c2b8fc3684d46ac3b0c05c4a9f6fd443bf094e47aae7ce6576cf3b1d2a3f",
       "27781d9f045536014899c088e93c1554589ba41b5d712810b4c39d562070d7e7",
       "e5adf831776091d973036e653e2c8905b4ffe4b8c97015c78c4b4e367e220549",
       "91283f8c252e68048d09f0daae03569f0cfa3ce10e357e652ef24b29f8585c5a",
       "c5a01fc97be883f34cb5977c6774510656245ecb99f7bb184d9eb0dd7d34abcf",
       "bc527603afbd4c7b993d904a87660e0186cdbb1cd477d59d3367e726c10e67f1",
       "c0f7d3367e6da417e7211bee6f631aed751789a5a4e9544f8cee734b65c820d4",
       "13945faa08f1226b764181f16d893603997be8680e6e216183d66d137bee8b3f",
       "b3851ff56e2ad1561f9d50e0a7efb02e6bf22da31280e0dd8aa072ea69cd5faf",
       "7b1fc00fda3d3984a55cf441152a748a6eac3e7d959ad2ea5312cba7003abac7",
       "7b82bd2f986641ad1e488f24cff13ef34ec07cc00292586937d2d96f86e419f9",
       "320bf52f6b5e4d2ff2371e8ede973fc2c0cad3037240e459ad0ebad01b6e9e91",
       "1c266adf0d4a150579646b4c8f20a38022d8266d78a6e2ba01236673e6cd3d28",
       "16f2aa8e601e4f59fcf81ad891c0bc12d1a426dd37b6cc166101034119f8b49a",
       "4d33669c65b67dbc3280d88c145199ba759ba4fe40631c807c0641dd22e22541",
       "6362a27526316a307f4d9e6c8c563308dcc5694a64ba5db9e1e7e0fbd96efe17",
       "90e0bf2ed73d24da80a178774819645a390238095011e4f913192ec8851e99e6",
       "14506b04bd7e94be0bf34d0aa7c9df11dea24b48d8641f4f0c22524d3c2747bd",
       "e01e335911a470b7d6807fa413eae6b74176bd43764a511b33a2034978ad3e14",
       "be8bdf60333648a464e4404b373c166969d66dd638cd75d649952734b00aa56d",
       "2c32fe47818c44caa5c918ae3bdd81ec0bfca9c8773e08758135aea2ad9df627",
       "777836f89c7f722e0d8f811ed80740f44197b126bf99022f37cf67578d8a8325",
       "b38573a48f7767b807f02cd07b4257e1cc176169ef37633988526cc8cbe93da6",
       "1ec5613c0d2e09442d8726449fe5f074a0af51fbeb3a8067bd661a0fcdbd575c",
       "7d897b6ce0bd18b0a753902c2b4256842d07ed555395f4774db9b13ea92319c0",
       "c8d6bf1bf2fd72e56e0a5a47acebdf88a6595bc2ed8f9d0e6e4f7b7613176451",
       "2d8795f8889201513b5ae2573d200e1826b29501572096122b3ba8b16ddbf774",
       "614d2ea76d60bbbde91eaa149aa943a7b57939d517df9e1687031398e8d19ea0",
       "caf7a32e982e64ecc9f0561abd264c23e331fcd50f8b710f4c3b6f40b4c656eb",
       "fbdab70bf497428e45d031014820d5317663952a38bbf147b91cdfb43614a8eb",
       "7b5f652290bc812341e7f5297282f2ee715de9f6ac047adfa65cdb7838021d6e",
       "2265c18286abd110cb22daa62c926f54d7854dfbfe86943b40791eef9c0d00c8",
       "e5240d9280a79d83ccc04639072c595c62c59d49cbc471bb1e4c80335164ec3e",
       "6306b99748473d34152340112434fd1244804e251c62df0e228b98108dab127c",
       "268cca7fe042809b06a0beb8fc6bac4d0e70e9879f302f5d4ea2757e8bfd8e12",
       "dc65020877e14b82f2770eaf777faa851ecbbd81686cf1ae7b2ec19053809835",
       "a96cdbf898f5e608432ff8f9699c02645ba726d1a7e83f41094316748bc03f1e",
       "90dc1cb7bdaddf6c1bc1eaae159e9f1e072ff58f94623e4a573a4c9835ff7d73",
       "2f8cd0dfac85dbbf5e66d23c9039ff065d8b31479af93ec4bd992b762d9a8bb6",
       "1d25585a44b8239f0b17115e47afd0301c7ad5b974ce3a8c33ae4bc3ae53ecdc",
       "20afc44cc9c2aaef4f4ad48a44440efac1a459f0a04e73bce9df30d9f4e904d6",
       "539fa69deb2968d40fdc7cd29850b175adffcc3248fc2ad7a604ca5930b7db77",
       "08e3495a436540cc157c6c7031a5cba20b7930bd202e8eab6daba4e11a28bfbe",
       "5bd732da3d9b25c9a5f4a64f94518f324b9a6d84092b2a9587727fa0e8a399de",
       "e190021bf86bedb1e08b6b26388cdc151933fba47c18269a42199c479082ab07",
       "719041698d78deba2a9d45b50a26fa30a8904e1ee2c0ef61d22e09f69452f6cf",
       "8a5542f77b59774f059ff475463c3285ca320e9d69a5f6163b3dbc27e3d91e98",
       "614cfd3f1cf62ee582feb8df3b732fab9488b5b88dc61b7472e1e9d95b48605e",
       "81a1ee7f926111ba54d04dcc0406130bde988c1a717f9a8901f44da31c1f9313",
       "4ebdec43411f008639b95627c3a7ee413d96331d3a786c1df86140549e8302f9",
       "3de04f09ad8f7c5acbfab0338366d225ce080dbd0c5d2445b0458c5d2b8bd0ab",
       "04ede6e4462db7a83718feb32872076655d9a0999d05619278d59759a2b8bdc5",
       "82cdf436b9578a1f488d47beb36a6b0bbb5c644a2320e558525d96604567ccad",
       "e7e6bbd5ad95c1c5ed409b512b48ad72d5d945c30328a48cdd601f03c1b2864e",
       "1104eaba6c81b2c30aa6738e013b55b47fb566ab37f753148312572c36bf949a",
       "7c775c69d2750f7fbdc73ade3e6daa893397ef64d32e892b0c794b958aa86c5a",
       "96bb570116b798de365a1938a2e50a1fca7383e6dc5aad58a538d730a7509162",
       "8fa6e72ee9f00f120c42d82bb3c1a3ef0f2daeda2875f856c58ce565fe9be44f",
       "27c65714ec3afd46814b86f997ac4bcaa1c1fff27a8305e809ca0cb72910da92",
       "2d5437202e9d892ec8247c393cf4de0b2275a06993c5bfa2825c8cdd2f2432f3",
       "6bce8f201a051ae5050dea9abc0d3de68e7c512836a9f2b8fd14652b4b543097",
       "65c8137507c3bd69bb073b0565baa2ad7ff1e38b62da73f4b5ab479e4e6fee9a",
       "ba824d25ab7a3faacbea9f90cc7942b54653384e41d97037060267d378172fc3",
       "53ff7596987d80648dd2e02aa088648cce1ce7f1d2c8f054835e267b32ce1496",
       "a7d05f54d32d0c115104e5a4866f858a860341f444f71fd068ed489a4f04bf5e",
       "54dfffbdc90a657d7409f5380f49193efbfcefbdd332594d892fb2f766936c59",
       "0ddee12380ee22adaf1a28a7cf83be5407a9adac10af05b679bf2cb208858592",
       "23a1081f1ed3f27582e5b534882e59891ca69a2b1776eb436d67a09d5ead95ae",
       "9a9aac20dde84e90d6aa2e30d68e1199572e208b57fff6d34fc20b8949e44366",
       "e23b60fb823c61fe4b678127c6cfa11cd260785c2e02330d817c244312190ef3",
       "ec15d2a0ed930f7ed23f0726c112c9e9ac01ac59367538e3e2ff5af811a00747",
       "4c1d21ea1ddda680059d14777eb922ea104568286a347170445c27fed7ce379b",
       "a696505ecb04590c4d976a5a6c2671adec7f01083e6dacb615323c90c7e27e5c",
       "85ec3a6eaff0925c2c4e89bdc54fbc1b85bfac51eaa8ecfc0940f10346cea605",
       "46f656106d393b3d79bbc84e4e5e6ce3e333ec9640ba2d4dde1b301411b9f332",
       "c8eb9ed3446fa4e100d430e869f2c33f4a5d92502bdd48c1b8bea8d226cf412d",
       "6cf351e2d7ca975f83274ff211dad5d668a7ce1b860487017dd052c406c43cf0",
       "b54e065f2f430e2882f84802ec7f0604afcaa0eb9d5823a1970047513d37672a",
       "63a9c267482f1ccf10b4e6a347cc875e5860d83870df39260ea0bcbc59289f47",
       "829145e7fc3b4c643bdc8d1e477e06a6eb6b6d77efadc8a7f2aca54345c1a83b",
       "836ffb546ac623508fd5e6e6b3ca31513f27496bc4dbaa1d5337b5d77ac42e12",
       "ec7775d9ff97fb76e64aa872813e930bcb5035504d36fca701ecb80c68189f0a",
       "53f1fbed379a6645ccd0f9b71415efcf7b895136b035ff403a23a74bc5c0d0b3",
       "f41b22b6a81778668f29666dd7fc21262c8da28341b996ffc9547b73a61a2c88",
       "364e8bf7d96150a6728caa9bc43b6dc78001f65973bfcb5d859a476d65996883",
       "a2f73a77cfe16bd05c45afb34991ae184423684a753ffcb7037fcb803353ee5f",
       "8c1fe76a3de26d224b88825dd16df3fd785d9d7fb6d1abd0ef3442da2bd0ce3b",
       "952ad232be9e950b14e5fb92173f471c21e8029c52e9f7a04deabf0d2f4e2889",
       "c05c665994a17183657a069b1fc1edaf2baf9e3b348e16248225dfb121ed123a",
       "b797534561f35605d46a7cc86a4ead56fbe148e3826ce1a946d810004f3aa603",
       "d89ad111281ae0bb15afd34a040695e4449be762b841bd737f80df55889b7907",
       "22748ef4bf129fe6250ad5968ddf70bf5fd37862583c11760da1ed3a76e4565a",
       "6d42ef1613fca2ae97ccef9d4ae9fbc88254a492b7e3caac188739cd4ef45419",
       "9da1a8f7618177da69b6f6f1d1196f0f52ebce7c1e4a8402349f7ee8ea1a408e",
       "20067e464f32d4e9b2986c4d4e55337e30762c032ff72ff6d1b658904ea1f370",
       "a2262501677822bb213745f2100c726408545f6ffbce84be86375d790980a271",
       "be1c55666ecb6ba9a7413a8fdff779b90fb5cd73e6970c7a35559cb2ea17428c",
       "cfadb8436f7d6295f429d165b3869e022cd73c9824518230d2be2d0084c881d1",
       "b6a6a230471270a05f2388e50e81d7c8a6470a174270cd9348acd0d3c77c80ef",
       "f376c3697d3da981f78afbb41786b056fce1fb655f64cfbb1c86190581c3b71c",
       "8afae010fa6e5ef89abe1b20112c662a9eaeaf3d2c566afdc269b239836a4b2b",
       "0f5eb6b761746fe79f20744219b9aa783383b02769ede36e2c202d76a0b39827",
       "7a7c85d514455924b6cfecccd1524fa45121ed5d84c19fe794b2f9a36df32ad9",
       "e0387af81b599c54d7013ac0dbd0f6a9865d06185edef6d64c6013ab12982797",
       "1e8591614adadcdd51f3585e22a4ff88a074daa9c525452cb95a9f8229951b52",
       "f4ad69391a902496c9aa412591d1efe49588ff23c673d9096c797c211cffaa83",
       "39ceede0d1e42ac84b8929d790bf7cbdc321bd5b35e796ea3848e00b544ed1e1",
       "2db81197caed2fdca2629307a32998dcf8ed461da0db601c9beb191a02fd759c",
       "337323a760e624556879ef51e88019ed2a286f77d6e0c1e79d0d8868033ba02d",
       "42db414e1b66703f7edf314c5fbc9651e73b4516c1e48304fe834d425c6dcd1c",
       "f03c56860a21ee94d7fbf0893d7944faeedd8f5dde9ac6b1adab06ba9541bdd7",
       "f5853c096a3aee18fdf4e7822016b68e8478879da1dba0ba9b74b246d92a67a1",
       "8a0a8c68f660d4eb26cacecc080962c4b0f12dbe27cbf614963cb4cb016a7019",
       "498632ce3e2af360cadfabdd1019cd68cbba62d61492f7d5ab240cb2cc6337db",
       "364343b48c8b425163c16da7469e7f6ee33b6b8385d9314ed928af267d5b9f89",
       "56a6433a1d3b9ba548e244a97061218793b76afc058623f70f70a78edd69cdf4",
       "6af8fd7be8949d14b76c666d275e1873f35f85c3e0efa8042e9b6353cd78a0ae",
       "f564fc95f6e3963b4f7a4c07b3c93f73207b82b102e6d5a3d864499c7aa95839",
       "18168d28b0461858ed1aa7e246f47126af94c411d599c84a206ea19b07d81ecc",
       "e9adfde0317b926019eb60c16938a750a322992f4cb6447afc739711cf230e77",
       "db6904c619dd3d4a25999019da4f6db6fcb1b32eccc4ed7a69557d5c68fdc585",
       "6d4b7066c4d1f1cfbc6eef684f038caf633ea002edf9806e3f739ef6219ea3dd",
       "6fe407651a4be9936f9143227dea07457ba480f5abd92559e1909c12314145cf",
       "667cf51a8903f83995cad61817bdcc508169862583a7a149a88f2bfdb2f3c98d",
       "ae750b38e537c2b3efcc3c93aeee2cf193ae91bed0396fdeeaeca7d867f0d852",
       "8c2abd1700a88ab4b07a0ea3bc9816f4cc6ca0a9108b6cd6535bff8b231ed2b9",
       "e4857f44a71c0755414e332748741c20c5aa11227cc039a53c435f4bcf9cdc85",
       "dca1021230a435a97f2b0d23dff992447a78c77c6670c4561b31978f86e26874",
       "4dd4234cac98577ca5f22fac924faf4b77b784de0407fa2a5d8243663d93684f",
       "5c342f0470d28ecdca026f8cf9b33062bd84376823be1b3410e2009e7008b224",
       "6662aa6c3185612d37b06baf670ab96f62bbd87d65485f97f0b9f3998da5dfc4",
       "79da99b17105dfeb1beebe822a432f3bfcac835989caaeb25a64626f758badb1",
       "cf38d236d4ca118329c1be01d06ae46b878a64ee7fc029b62d10df12dbc2087f",
       "ad598cf39a7ac7ced6a2d04f7a0797c586e2925c2827193bcb384228db837663",
       "73554e14a40e57ddb729461a2d42099e829ea814884c1df77bfe7f89ddc51339",
       "fb9589838ad58c831636f595970b82d9fcb5efd91d5a081c1e2973219eef968b",
       "817269e005a4635e34670208ed09afda143361e4d8c104e284a747e097b606c1",
       "5e10b83e149ae0211658a19d5542c38c852b927b7331702f9fcd175c9d7ab41d",
       "9a8e9019121edc423c2328e38054d685293590969f58bcfff7bf1f5e7ce21215",
       "73dba61be40aefad46afb5c0c46d97f02439b748a48368a665c52e91b0e43cec",
       "a1fdc29430591feac240e46fb8a2e123896d1d8d9a911a9cbf06afb063ecdee1",
       "0dc82c8e5b5d1efcbaf9de193de70014068ccd98419ec95cba7dee7e10a34d7d",
       "a97b3c5dc8b52101a43481205f6125cfde2cc983511bb3ce8383688a09fefc74",
       "911a54efef2eec599d002ba1a9e97ea9f0c3bffdbcd0b4abca14c7d7080439aa",
       "448ea5caa58c30e2377d72b88596913cdc882a952a9ef7c2c3ac7018dc27c890",
       "934c02a8571e206e9b04ad4a24a08f130ee12606422715a212aec499a5fc3a57",
       "e473b6a4325b3cc0a1ef706a5e1027e50ce942f1f035ab74a827d1b65b98d0e6",
       "58e8cfaa624424559606c34e4a5087bb144c9e18a85abb1a06cf3d008f8488ec",
       "0e017be9696dcd3a6bb924401fec2150069f9cf2582f7b37fffa5db5014abc7b",
       "ae026e8d664b530ac409bcf1f77452cf715e080c9db497b7ee25a39c21e32572",
       "830ae32876db412e28dc8d6d98ad4289b47ff22e82799ae687e1f0a215bd430d",
       "5a27863d144f008154a953a3ae0c1ac19adc81b2eff3b18dc705ae72d30864dc",
       "0284b4d47f50f1f807cf88211e1e24e6c6e7ba0c59f432f3c40da29a33033c26",
       "e19a01fc16b4538a216817d9514be2b3adfe2d981672194c4840738f46bad426",
       "d36eeb18f076f26932148cee643c27bef0dcb7006e6fcaea5f7c461ff3992b97",
       "24c23146666a99d8a2ffd11d9158489fab88d5eb4843c20d22d6cff5971dd0f9",
       "d40cd590f5ea3d4d816922cac1ff71c2a97c5fda7e9b1c43be2323da444ebccf",
       "a3729cc7cf633d50d152523e2050398cd2cd5d3dd25af2c825a841f00a7c705a",
       "ae4d761206587eed51aca742f9ae7b8002284bf766a10f267f796e2b5231b33d",
       "d77a811cbb44dcb5dcafcbd14ec2435e3e567503161966fc9f1ddb24c9c734f2",
       "14684e2d6f96f366d2f4b8c67891fd26391cc9c0c8b223b1cb3341cd0f702a5e",
       "abc52b7ac600493063a959c38d14a37224289ba2390446acb0054a1ffb523fe1",
       "a4521a1204402f2724e14f2ec1962a128a68419944e19b80c70c5d676c5aff12",
       "f1e3b467a2e694ea34cf700e63beaee36102b4efd974ff678bcb781e13b589ef",
       "56f61f775e13645e3eed54c4038ee01936b720ab443727cb1b421188ab821893",
       "e20b9e2efd21f6c831b4b26fa8b56054e5c872989396229dbb8c3e5b42dc8206",
       "665c336e7bb4facc4ad5ad31926481f887b86ce48099b6fcbb123fec71bc180d",
       "a899e7ff9216000b453de7cd13176dc4a5cc5e3e9089f6aeac017121f1f38ef6",
       "e8d69b81c5a87ee09643cf24f714ecf1016e566ee2d8534dfd97ca2e0cad48a7",
       "ea84bd3a9d476d86354d8eccad45d54ec9a5685998828613ecef83af95692dec",
       "b2aa042d4f2ecc95ccee2b5bb05e70d7c62ea5b790617c3b1fff0f8d0bfbb5f0",
       "bb4c0c4a3f9eb4a2130d1ba4a4b60a0b1f8528e2efb9af8bc175c9c8313883ad",
       "a867b5f7659daa3bf5d58968b609911695b44cb52e282668fa34c210fb922b00",
       "07bfc3424133eff4b960fc7398e8b27ed62459f304720885e66a592a9fda1ff4",
       "d529eaccd7883d0027d8f798a5cf2bf1daa97a3203c6c37e8d64afea2b0036fe",
       "a3ffea691fcae2906bd02f0cfb233f8e6c6ea03ea4eeae037526a8681b0b9951",
       "88305931633a62fd248fc1fe651ac79b5c2f14e0a1e1afd2746255cdc01a04cd",
       "009c1e096b3593183ff0c60f337e7e3a2da83a13ce0e2ddaf6de31e378883d96",
       "46bb225247aab8e457e8b263a1d574a86b7ab21820753aaedbd4d16eceb5ca7a",
       "96214b704c5692ca1192551c462cbb89bdccb14575ecfd4b457c5d5805f4a7ac",
       "146534bd8de03b49cbd73a01da5badad3e35c8fc9d7cefd45c0b592a7f94171f",
       "477941496b2e382451b12f22284d273c36df6f8b5a175a03dfbba2e5f0d1a6fa",
       "3226716fc3a6143d698d3cf89d7b72d63249a57fd6c06713e3b793ed8529a5e3",
       "faa7ece209d7560b5be4d591e3934ab3f6cd72379cf5c9b5ab4270e669f8ffb3",
       "c51e21d60e1a4fb96c7129880b74557a68d3efd173778023be4bf848a797fa50",
       "5be420e1157b4fcc5ce00dd8422ef91e4a7b140916d315e4aa1606e60fd638b6",
       "fc9ef8d9e869bb39563ecdacc2c7d84112801e0d3ab3815950e4a31e792d0aee",
       "372b5e407abefc2e9162ecc1e493f1116c4c93ba8ac4fce3a3ba86593a317e98",
       "0b815410d90d0a7c2495fcfbb193776cbb17d9395f558ed3a9f2ee3752441b8b",
       "6ac3b6d2909beb32256e19ccae5a654963a8ffdec2012b6bf32e45c97fc43ff6",
       "6f5a4a13c7e0bd2400cef9f270d10ba7a90d0a5aa9e18d5e6bb410221f6d0cd0",
       "daf5d5ce991abb907a6eb664ac4b261aff03d49038e268784a9f6251b9e54a9c",
       "1af21384c1569087243e9f0cdf2beb2e85ea42a332d98834f529944972a637ae",
       "451be5fce6323b7cce3e35b5049aec71e5d131447713cc8d6c3d6a82f7b412e0",
       "a23166aebd42c7c098a394488e1529f3de2c92b5229075b4a28a9561905ecb2f",
       "d74fd4321c196b4d58be712c8f46334a62c4cfdde015cfd2b04deb6598024b60",
       "e2553b58e6249de3ca94cf135d246f62d5147a1cda421e941f704346005a10e3",
       "26dde8dd7fa772c3213cc68be32922e416a5a6e7f24e0d0ce5f6346de6881238",
       "870f15500fb45ce46c7fec8cbc911d115244f58141084a21ba65a95ceec17753",
       "9f876e1fb65e1d0bb06f4e80fd5118539829073bd83bafa914e31b96ff20b874",
       "886cc5aa5a886fa0153144c72569f4165c8070ec5a894e7cf0af603f8844d0ac",
       "791c1c7c5e253ded97be4585f115e0f684f9996d63d8e7f8e1581d6609e5485b",
       "710342773da9ec3b05c4a7e0d32c4b22f93637a2b4393f539208e59d506ac9bf",
       "6616d322b7f2c40b65dc33f05ea41e1be4e354a47f74d1275dc66d36e5e7386c",
       "3aa74d1174ca9e81d2ba71e8285745ccb1e4e45d2a6ee116b4cf4c6fac3339a1",
       "d7b98f54d9693e68a908d8a6f1cb1bbb16f4a95a8f8d1ee77f704a2b05f55ca8",
       "9b5ad04c01f34a994d7c063c19289de24de92973550da2df33390880e8a064f1",
       "b46421ea9bb3fea8a29408dd56ce929fc67432ffebfd2eb8db4994e63780fda6",
       "8049e6d4103d93344ec867ea3a8c227a049752356a98653bcc5620f6d61a1819",
       "7c70d82f203a5058709b33a18be3c220ff935a7554174f6d64645f465ab929ba",
       "912d12a1582079438f5e6175f315d90e48fdd513eeea06d5f90280071e648fe1",
       "d1bf553d99f7b41d5433c9eef0e219f43fc365937174ed84fdb7f266df61bd3b",
       "f4e06feb9cc8d345fea0a84fca5ec0382394d3e48bf9dd777c45c52ca11d689d",
       "b7d0101aeeb56a57147d254cb73dd982fc9a6b85400c30b05dabf0c53269ca5f",
       "b60cf8bb550fbdd5933c1b1c6d66b99e2bfd0eddb2e4ba2fa0e30098819523eb",
       "e6d1e476aed19bc49cadff1f42c085af5f9dc66bc6802500b3bd36ada49a4dca",
       "293894488b58264746ebfc81acbc7b0b5c41959ff92179d28cbc7749e95770a9",
       "bff158452e9dc4cd58d6454a50c7d842362073340aed75bca55044013de5aae9",
       "14ea58e7e20e57abdc1a974532296a033cf164d41275962faed8f7de4e347215",
       "2a5c39f5e817de06ab60a0db081cf15b662d1d27db43ec59f85317978f8bd91b",
       "b77a88bbdb45d2214f946f3dd48888450e21fca1ae28fdb0b44090b6485603d9",
       "8735dd10988319bd6bdc7620efb3972063a9de85950fe6abf903ec71f45e9502",
       "66cfc46186a13e40bcf9f1c41cccbb82f03539a1a6254c65b7cd8afbb03de616",
       "8b3806fb1edb36c887a8d40285cb7607e4c0938e22bdca49ea18c29c41dac08f",
       "60c535cb8c232ac93f9b250b1aa13a1d34b49c3c96b9bf6bb1006771f8df4d5a",
       "1b74312f2129daa61ab7eea75592531c4339c3a81c3966c1bfdf79885afafe05",
       "3a3b3a3029b242e08d76130aa0dbf8080f1ca2aa4da321987450495b6b67e7e1",
       "58dc2ac4a2849ba2d5c2149528e77ad425d55c6d03ab2a6baba97fdecc216ba2",
       "fa5eeea5104d15ef0f03f4eee10e5bbc7c1914fea932baee4c01a58dc3d1033f",
       "562f2ff69855768aee9098664e4a742b9b5ebca5528f0ec392f6bd9f8a1cadcd",
       "ed9383d2c66aff6123b6a59fa7f57c2dbcfed6238fbdc84ed6e15037a5c50182",
       "12ed9a3984a790e6e7f1a8a35239846b5fbebd33beaca50f50e870dac4eb30f4",
       "b6e1b489ff859e2cf7cb0722c254926110dc342e01d9c0ac02e7008a8bd4e489",
       "8e20ce73e863e0b1e7a455049b41e83d0b24f0d430ae656ba697cb627ea80ee9",
       "75dc33ed8ca1dc1de26e6c8d1ac4de678cdfba11caa1dc7e4bb51e559805edfa",
       "4b89872e4e99079b620209b0a34c8e717c59a55963a7ba75b14bad224a120b98",
       "3f8d6246f1cc15a47bdfdce0f82372b7dec1d0dc0477fe1ef36fc1c952632ab5",
       "9fe97b78b64d980dcfd85ca79440da9b4c7c7e584d478e14842a9dd21960cc63",
       "219774fba5f120759866e06ebc52f506ed872aaa904111cbfdfd75d606351186",
       "06bfd54570e132de4710eded7f186107c54f757067247ca63ec77e2efa61138c",
       "93731b8288203e60010f492b5ddbd1ff545f14967521d867e4fb7ea5ef59ca9c",
       "540dc54d973061172236a70c09914ffa707b8679378e7ca75a74f35d791f1ff4",
       "a1d8c69d0ba6f2c2392beeb6693e3749e9fdc36dc722d7ad46a45a1f440e3336",
       "35365306dd0fd98bc24534527ff04a3a672a6e639cd11ebc6694af79fd86dceb",
       "38971ef36e4546f2edbe231ab2da267b893926eece1e85bfea0159e2f64369d6",
       "34d7ada8bcadbfafa14a3a9fc320b9a6a24dc5cfcf3192e4b82f9e24c572e067",
       "9bb0e3aa33f1f992ceca772e724ad9d10d6c57350c1ef3e55cf9034917ca0693",
       "95edec0baa4b2772ddb7bdf80cb84728b57e12e88d049ea314d130a9994c596c",
       "1b69d6becce6c86f88fbad09f963c2f53f6210314377a10fdb470001e9dce697",
       "ebc7cc4dda6edabe025ecffb7aa1031324cb9dcb787a07a6a499e207a3fc836a",
       "b703a625f3c75d3115aaff36d81254d64893cc5e69da0e3167e45a280bade8a8",
       "d4c28994e7c57e5e7144a65aecef6ca59a722de68ae161c49b32824da415977f",
       "6537272933faa43d8d659d772a7b66adafa9c772cc3597faa854cf58904bc519",
       "fd27f8bcb82c2526ed5ea13070a4861680cbbb447a34a8c0722d9c646522de6a",
       "37747f4b66a8736d3dda38495172172ab883ee0466dcd8c344411237216cf6e4",
       "af3a73c1f441a2a46c29b9c0180ed87aeca0df8771a38442d794dfe7b3c557ca",
       "cb56adc11a22da4a6762be8d0f57ae5955f168d65e1b399e7b3977d1e30a9bc6",
       "0d949941f816b2de4e99df4723188fbf0873d91ebde9d28b7763c33fad38f31b",
       "1bb1e39d00bc4caf1422157ebad3ad6c10be774a2a38864d3f5e32b85541d558",
       "844fb520ee7cda896e5273fa31b8793ea2246bb7434e03b9437458b288f5d4cb",
       "5a6a9abfa8d512dcb8d1c3c8d1f045af3c35a1999ee9c6c1741978366943eeff",
       "7ec6e26b3acf7b51fcf2afe2a4e7013b0fa28a666b30682e62c74850e1fa6fdd",
       "e7bb22402b04220981fd813d11df6a304142b3353e912a8bf343085407d3cbe2",
       "2ec72766c805036750ebbb9bee5b09d3885dc99c1f82400513fff3a364adde13",
       "6b5f95b3616c47d104bdb9c715090eee59cc0cf8475211f53883453ec8b0d4ff",
       "41d0308d716d1b5ba844ee5610b8b8b5e9f7f1db64d53c912fd830596dbbb329",
       "04ebdc3b8deb4b0db6994e2bec831e47f4cb537aee727661a661d82511a0e385",
       "9d6866da2a4afb3f24dba4e716262420cb6a8fea3a810410353233c963a220bf",
       "22cf661d3c5a7e17b453fe501abffa89190047ea675aa5acd78c90a59a2c7a1c",
       "bdb007b828ca736c2d212a6f1294c83e1b02fbd74f20408ab06d71ff62e0158d",
       "5dfe6dab2bd10967a8ff429fcdef03ebfc055a391fc8695f1b47a63416d6576f",
       "851d796e89adac29819a0a4e48fc11c9609854cfe83fa3528bf75837a398c6d3",
       "870f224ca39f6623b47e0e0945489880b5585112ac5bc1b0e81799c39ed2ecdd",
       "2f80a658d6bdde2a5473221f2e4188a24c2453c9543ca7a326370cdd66b7bdb4",
       "6aa8e3f0e34a36a20dbd8524f0a41b6a879b68f4f29c5ff587d276e91aa9c872",
       "38502f74fe540673b82aac33e758a20f7e4b0b2f28f573803b6c272006fc8378",
       "f69cbaf9191c036236d49d5b31b206e438508620ef22b3653b96eb13f44e4729",
       "089a76632c5a9a9f65d7dfca45a772b829b955f16c2f492b85b92c2810bf967a",
       "7376425163621301f2ed4f62fd6f1cca826ab2a8d35265a902d01feb7eb8b155",
       "255a26790a94728524cd7297d2f10bd1d14ed5bf8f655904ed61a54eb0c09391",
       "903ac7866894630d496328c7997746a92fe7d8f811552f9099e49b291666a7c7",
       "c8403798abf1701530d5483b9efb6776c18160af71329ce118351e7dd4ff0985",
       "f64280fa18a2b8fb1132b6d6df2789bb64e68216ac3d8c501fc62e0793beff35",
       "3a5a97cef382f4c815fc0ac8908fffdeb069d65cb4c1713004e72ac137054bf3",
       "7adad54f401af5b9fb8f4494d835458a394e73ea375774e65192abf00f7c2f5c",
       "99a252635513d46905da037475e4a73559be9b3d489b598b6a3593511ee67778",
       "23d17f50466368bb7a0b2044bd833ea812776e41ebfa0f969c2925398b07a88f",
       "3698423fcc6efc79a1a6e8af9fee8bebe6f5cf3cf8c2a9e2eb23c320025617f6",
       "9ace40b986c01aca059b219c6ed8fd9e3cb056f44c4b20bd6a1f3f682bc39762",
       "7bbe7da87f87296e383925d427012519074a63d66ad12ae139911890f7e9e823",
       "0f9e81b13770ac476cf77ad168b26caa7bc54758161b53e60c3278ead1d1b3ea",
       "867ef3b5272ee63945326f60d3ab44dd04faf0d2eaa356070faca5f9b2cef413",
       "7126d0444eef004a39d0d23ee7c712b7a9dd2c5b956f35536bc5b92ea2001aa1",
       "a578b77a0a38a705395e3dcf8b1cce1638914e70a61c44a171c865d08304e270",
       "b4d4cd63fd08697af1287797d9204d18675c033b3fd694183fd0a9cfcc9f2a6d",
       "c36bda5e9b9ccf7dac8f3accb6bb797a784b3fd6da9366b290589838a3b90402",
       "7bbf0305c7827c2f10f9096fd35572435a9b6e2529477f51cfa59932544261fd",
       "f464c12b653b68a71039b844fb4a79b8825bc5bbcd3aa8647fa4a9a3e52e0b92",
       "821e0f9c375a8b35c95618a2debdf9f6731cc62214a120abc61028249f83582a",
       "020063181f7b3b3ffc17f77a545506086fdffb0f4d0b539e8aa7ab1c466d8054",
       "e31a48249bc604d626ee190a850aa5ee9f944e92696fc6f515a14ae5c1cf06a5",
       "845646c18c486bade3cc936c0831b78ed1f6bceefad0a887424a5cf4fda359ac",
       "0ce9fb07c0f85f0d8ff49191f82e092a71998a4d93ea52addc86a9847f51da82",
       "984ee5da0414bfa0fd02dab22e89d62cb1b0c3fc2f50bfa0ef6f4a39553df201",
       "053d91abf314d45a7bc4a8638d00790def3ef609cf7b557bf7e651aea27a4b55",
       "7c74d592b9b8aee2e2336fa5329f216a9c46b48bd463c86d2922df1838656572",
       "a11aed89ea137d716ddf3e38ed3391d64c8b807b7405a0383d96fa8e25e1ca83",
       "d481a5d0fcc6945da408d8e3b68eb57a352c733b827ac309c90fb4d0b59fa748",
       "ef2020ec358ee43d90418db53d0288d87555ccd9ceaa4ce9a149e08199cdc795",
       "4a4d7a22b68eac45fdd669924d06c2bdedae0c4acf924f953848cc6118b36388",
       "3cf7dcae97194a72d0f08bbc8d08459e8009af0d4fbae5126a6dde9e4de339f7",
       "a10db915c607b66b061afff2f7e82b5924393f70b5978eeab8228a2948d41aa0",
       "9629e8c302de13aa4857ba8dfef5fb8bb9464dcc82361dc764b9058b0b10e072",
       "23ad72b75cafb34628792ae78ac401b598695025f9e974b3aace30afb6caa4e0",
       "115300bb4142c4cf4702664f511c6b2d50895bfde0983161f3dbaa35ca54a6b3",
       "62aee9fdfd70ad156c6d3d84c12027df6ac4076ed2a8c94848f294a7abf15af1",
       "9226597e092ca0fa3b560585fb46e825a89289be7ad2d6a1ea28ad83ba9e00f5",
       "8c21e80668a13471a34ed6d79ce9d7a632988c129df388cd5dfc8a3a8b0a347e",
       "851032786d093adbde9a70f2e063c4cba191ed41798386301132b86368036f5d",
       "b8977874b388cae96f6afee4683a6191977bff177e878d2de61a2b501a88d0b5",
       "9025815ce72f9017a939db8102cd32dcb0e244ae151dc7c870f7c95ea6c627b6",
       "c34acaeafa8b68f4e46259b45ae3e7a8874eb4f55cbf35f1c5cf6d82a4cea4c9",
       "897d398fd133f12e3aedb66dea8a60cf893775d55946ab062c8b51d0cac0e8a3",
       "67e5d4381e8c088b0f78f1eda92bdf684baefdbc5b9751c5e386735a40f95f2a",
       "f84a6d88c16ee0c5ad2a4f124fa6cf8625d9f234d29d1442286ea266586787ae",
       "07413f0a8caa1893a5740b894a5672f23c8032fcc31c69cb92f7bea9a7193494",
       "877ab5e8e1701d2a6117239a453b6ef7ff9644e5c65a4e8e814a1e87e6f4274c",
       "581b7281307d8a51e4f67854ab2cec4192f59761cfb845b7957f0645eea668c6",
       "9a25c38c5cdc61645f26aed05f8f87d9dd403cf278037f609418a664861f3fca",
       "1ed0a1a55da3d54a8665bddb84800d1db2284f44961d1e47db4866e747d0c011",
       "8625861b0a286d5ecdd4eb1f4d987da9b8dbc268709c1cc5b1fb89a6dd64de24",
       "06a132a7decade62ac7f6e20098a42daaaa9b8969d89ad2b126b945a90faa3ce",
       "2aea8226bee2787a814f59d41d07492b8d81ceabcef9c4e5267f3f0d5ecc77eb",
       "48fad8803232afc31a7ccbf6ccc47d88a9f8d51da787458ffc770fc9531a93b5",
       "9624180373423a0de759fa55aff938dba289fcc6210c6df71939c7cf9e2dc7e7",
       "268f7a822fa0c6d70060963ee1a86f5ddd14135c13f79f4a952f24e83915e0eb",
       "3abe18cacd4c9278a5362448b613ee8ee924267cf6a8c3a12eec67b29de5b2a7",
       "6e90e0432b48ba8b137ac2fbef69de0eedfa7966e5744e137863f66b555e9867",
       "eed1e31c63b3137b94acb31f597a32f488ef8de3b0b361a8e7de6d1bd80c0c8b",
       "7cf34319df002263dd60cad70d9193a4af87af99c94d8b329f8d7776d9958181",
       "bf9a632d3787034bbf3612775f61a0a4d580d02abfcf21c61dae2a211d46cff8",
       "dccb695ac64998e1d63abf30b6610190e73844b1512449118f326b25dccc39f3",
       "f2c3e97bec9bd8ffca0a60227918d0fb5811ec171e2cdc6e5c21c4e1eb50c97b",
       "255b2d15135355734e9d71bbb1126b8e2b995df81e35c2e14be8fc37871a2fd7",
       "002b7caa06f0429f4cf02c1a9209f8b4e4fd23a300a2aa637ca6621f5a18c375",
       "20a2e6fc0ff5d84c1862145271af4d7500a7a12bf746db97c4aa346333fcae2e",
       "8fc75cca94787d0c998d3c8b2f7ea93590d356e34a86c4acf3f1d038337bc1ce",
       "f56afc241c15c17103eff3f1a014137fc49086587c96b43d0c7d1ea8dd842643",
       "937ca1c0bf523ddf5ad418aee0d4b37a7cf3a72545f9b45f935524f707714317",
       "b22bcc6ff032264ebdf1eb7691e6a4bf1e1bd94441b7b5467e6e98ab46fe56a6",
       "38f71dff15075ee00a99062dff425945afaa835b11ee09730a085a703ebc0065",
       "2e33504e0d2e0366a0ab0c2ab53a5a4b9b52e55f8ee08ea5401062a0d61d508a",
       "de7c8cf32f3b2f8d32c19ae3a5d19dad185b5df607c17137705dce61b553d29c",
       "45543cc7fc84772191993b52b58c6fbe8c792289db61901153acf8ce3e7942fd",
       "b0ee9fa919cd0b6864edc5e7dbe2c79d43b58deaa4833c9d25da8c5acfbfcceb",
       "778c58f9156b3088928c1fc6d0124a64b08124b6f2775496bab6d21702b00f9a",
       "39eb810f2f307fbb583faa6eed49e9ae92838c793c20cc7ec8faea29ec9f1dcf",
       "a47323eea87e3201111120edddfff916efdbe817d836f2183050b3eee3f9968a",
       "7945f4631116c8699d0329713935433b68f8108189f5f2eac3bdf6c544bddfb4",
       "65658a97f119ddf669750117c76b90f263f792fbb3b335d4396baf51d7761337",
       "9d2a1da6405245b4c5bebf3aba429f64d01d0cc14f48e37d6c0df5ce83230ba6",
       "b219f0b9fb8d6bf3a2009242f1f5c83ed794a092c1ee53e90a4d32194a220230",
       "1e95da7c2dc9880d97ae9f47bbc3aa9a31812e6b57318f31aebbb12123b73850",
       "dee2cf0363d718544c004726aad491fb9cca62b26ce5b794bcc183d407a6a5d6",
       "5acf27277c05e9f9a7d616287ed934363aa943be415685ba40b9c28b6d158709",
       "e5244b1dedbda077bfaeb4af21ff5e463dc109986e85b6bdd65b6755f747f31d",
       "a4df84d4c0126bb7668cff1654bad97b4a04c57bf9e7306887d6ed78068f77f0",
       "a6b104266a387da8612ecd972167720a7f6d2a24397a844152afff651b383427",
       "ba5c795dae557788560fdf94ae7b8f20e508443baf4ab7c39081cf2d1e81036e",
       "b520d99730a50824bcb4887006b8a87d6148c4f66122ac6bf50d982bafad72a5",
       "df830dcf05f3cb8c6a84f708dbb98531a025a217daff337081c4b71269f322d7",
       "13534e5a4f5454dc4a1ea831bba41288c15a27ea3af15006443c09c112444472",
       "5762858b0826ce313023bebee96dfb5a1c9fa8c6b4d338421dffb42694e833dc",
       "f343a194aaf246afa0622c1829f1c3a4c6f42fbbfd9f72d78544a2488d0dc7ed",
       "99fbbe1829851c44641a31fba27ca48f323e50a44a047993268211ead191947a",
       "8052b72ee4a447f7239ffdbc19b887f5425e138197bd249973212d3e4a202021",
       "b3fbed8852651212c1eb3a3953f12438b320544e3a0aff1664e3cb84cb97ad1d",
       "201d12ca293a489df4a3e4f2bbf2e3e9c3b84f698746249485b333828688ef49",
       "b488b94bd300bffab1b3a1280813ef329a4fb50a9f913c83b859f47f2f61b6a6",
       "baf1a0c5951a2a79b3e0b837d2ae040a22d8ba83efafd8c9f3ca34609f1d6ce8",
       "82a2b646b3bfc4856708c39239a30f3d356b5db301b594783225c94bde40a1a0",
       "3f99c70e0d1ee5924721be603301f8117526ae507d8c891b7be2be3369e10846",
       "25d5fda109d22d57af002b22e4fa3391870bfc6d4ca88b185aa25b247abb0a69",
       "ed32fdde0ee331ea8bde15584b682fbd1e430b3958693fc66379e5d5251a79eb",
       "b8748407f5b991643a15a0224c47a7e8b2bc29a99041b74308c910d852310f0a",
       "d7bed801047a83318f31901bac2c687182920a82b7cf14c6f711a7593c3194ad",
       "b5b0c4a1c3087c40ad58d19fe0238e84a1d6031ac8bd815f5adf30d406b2dc0d",
       "68b7b8a5d26a926d3fa27ac823cff12dbfdc592f264f66ae659ad976da7522e3",
       "9228a9159864c0d8a17be24dce6f1706a4bc87508a27ae5752489767a1a7aa40",
       "0644dd482aac97144d45cd9e614cacbb0796c60cbf9e1402eb3e4a9f0048de02",
       "1635887c3847db332bece7b2cfdea4c3e8a6576906e3a1ad8aa7075c56a1df55",
       "d4915b5a834d4943a97711d09b732a40791a534ead3f2c4f87ea68dd5985979a",
       "8da0b6a529f58f025dec2af3892b64c6bcc829962f9aafaeaa10a3adfaeb1368",
       "eda52ac062457735ff91fc6e69719c23bbc6b7f2c0e4f2151580c387b8e09439",
       "e9582bdfffbced6277c4f057875b67780081d0b65f02a451510fc0f733d59208",
       "0644902d0cdb88439dbc990959b4db953068530568557dc5dba5cb75fd5e497b",
       "454862b812b5bc5c08a9b6387fa3343cb7ca636cad7f8b23405252f7b9acbcd7",
       "896a050157e8147c4b2f62bab9c5f0ba35d304d39efb4f90d8cb37323baf9be0",
       "67377450043b801e9b1cfd2b525fc0978f51fd2183cf62555c350af4a9a0ed50",
       "e2505eabf4eda7a73bff303d66bda47ba3eb88dd4969a51bcd257ca4fb6b8a04",
       "77968a20cc9f2fe22ca91b6898249e3a8e958fd5482db26cf1d777847202a1c6",
       "77465c765a5bb6fb4c239142db3595f76b4fdecffc67f5ea5a34bd3ea6cb34ab",
       "b00041a00465e9fdfa072b739b4dd6df077791a0b40d6ac008dc4c8b5f78b59d",
       "18b7c8e8819a9f65f204559e49f396a9411f66d72cabdb406480d11bb79135f6",
       "5ab3d763d932eaac33e3599d8c1429a4053bfa5b73480fe23424287bd44d11b1",
       "acce0b8d7d81f3c77bf333d3ddb6a0f4c2eea2ed39ccde44f6cfa1f9002d5873",
       "dab89bdd52db83d88caefea81730d48b3fe5bb0e7af0008575895347ea177c55",
       "3f37adf62674f8bf956e53a65050965c5f4156cf04d5b773b8775c5af4e136ab",
       "ada6f4f02e9f8e022be142164707291b06a0e6ddb723f3e39b1febf3e7b31038",
       "93ba9740e83a786784c5cd97265a698152f1b783476e2e751ab9a2240202f6c9",
       "d12cbb7793972f4c688ece6fca99dc9b00d54e72708922334714a8e6e38f25dc",
       "073a689b2c0a0953b864ac988751c93e3d73befe7367119e57f6f58aa7e04346",
       "e92b5a5d249e2fa5497a0076d7860456ebccacb7113d7860f04d2e4a102b07af",
       "ac9090067689e9ab16c3971faf1d2306e0a8b3d1de4861f60e8779d1ec6a1ff6",
       "1e315d84ca976cf73bfb2b24f73bea259f5f993fac7ab04490c5c8a0ea275f0c",
       "b2113365adc08907a9c987addb432569a244b8572db71120d12d286eb3a47e86",
       "d664c353b02e41c36a6f7406ad103d6abff2c02144bc446fec557ce70e06d1a3",
       "bba6bbb2a1bd241ef93ddbf9f1d9fdcfe4b65d2e161738e063ddfa50c2774cf2",
       "4885724a356d58b4eb03866d1596af646710ec07b8cc5012e3530da92a59292e",
       "1329bd2ad6e0dca1a117c318885911fa835935e380b7fe31f090616d6fe4218c",
       "f297d33d4a83e0093f55435c131864392ce33fb7ee5798be7a7a4f95c52b5063",
       "503aeb505c223307d48c231296e15c24e7c2d3ebe3f2a6dacfb28dcf3a5ec78a",
       "5b3e9c81e7c43539b4c2c47c83c1d78aefa72287ab34cfc14beb2eed12b5ff1c",
       "2e07dcf9613074090eb76bc3258f53a6c8227b067b20429f202841bee7a8c67a",
       "a63951fdeabb61c58001653a5244bf3dbf3768bfbadb0ceabea7b398983a77d2",
       "8a7ffb73d57d2732a5017720993558ae4b77fbcac04e211e7d753caf867bdb01",
       "8aaee33f34c0681e96465df2d4c38181e1eead408a254b4ffe6753c43b241fbb",
       "4c9cb50f1e2cf3f6a85b76999149548143edcb97e4582d89a34bb2ad427dcdc0",
       "ff1e813639796cbf8ac983799244780b8f91f84b5af9ea36f8019c34d54a9599",
       "3a9ce07cff5ea15c18728cca0021d93d6e32a6fe08a5ec5dea1c227772330b66",
       "7584bf75927bac50f6dc82b8493592fde30a7f0054667396a47603f8008a8ba1",
       "34141790d164d30dd6a2bff8b82c072e36ddc1982f1f5aacc2e1b4fc621dac8f",
       "b2f7a22c43aa25b649c299a18ed019950c7fa164539299b5d0e8fa7488e2f247",
       "68b439a75c47ce35e8280acf7ae0f2ddf4084d9f1ebaa674d7200d68949550ef",
       "a6f3950e779ef472f5a86eb2ae45cf5ea8e2c4d44149f3827af77461cc810afd",
       "4defff65f8992ee834a78077f6c275bfe7f204659b4d5eba8ea19f8d89a983f4",
       "f297e22bae7774aae350157c701dcdaac73cb4663a49eafb4e6f7accce824dd1",
       "8826c0dfe770c38cd394f1d290a24c324fd505bfb22daadc26126b632e8d296a",
       "a701d824df746d5ff586908f7aec8eff838815df829db4fc5736a737075acc10",
       "bcf3f95b99f1ebb402344e36321130ce3a9c1168e8c04aa6a7abd6f0151ec2e7",
       "488bb6bbba44f9074c9f99a443cb2bd294ba3331d53adec28078109e5819b33a",
       "ef5785e17fea493a000e12fa95011878aff013e626a81b51ad8f4a9688251533",
       "c79d5f32947e9ef8d637bb6200bc34c9ff23c0ce6d306e9aa672bebe870518bd",
       "24c05b9e477ad2dcb40e0c375a5a6ef9802ba850320e5a199964fb63061dd9be",
       "1253217bc4db4cdc213db86c671091bdf8171cca7b0b01f9ca4c75bdb3bd3d1b",
       "cc195fb807486ad9a6fff3dd31bc05ab9c72caa4b9e7f956de7486f682548548",
       "6a6533d980c44265c5cc98c2cb6b6b486802640524db16c6bb17be82dc559898",
       "c6f0624fb591de79ee1d5f4983784c336aaac4564c983e4cf64f86e8c842fb14",
       "2e2da4c27cebf4c3aae18046a227634fc6b8d46c723a97bd1080a1a08764dbf8",
       "8f8312fee159a3356ab5aff5672230a5ce5e412b38bc74c6d07f73ed3c432ed6",
       "5ef01e3ad650a3a19d1df6c17194995914219d34ffc0dec825145c21ba880ef1",
       "d7cb911a401e96b8ad2c6ed197948b7c1783ff6f525949b3881a1c9cf43c7615",
       "a3cf93fadcc295de15d533b448ed9f8bd604ef918ef7ce1ecd43489d310cc32b",
       "56539cff99fdf7abc5c086063ae96cb34b4025632f3361535dd49b2e9dfbbeb1",
       "60c63eae3292749b62b1d967ad69068060109b9df4744c1056a26a18f572dd04",
       "0680c6067b1a5764309514971c1843fd620bd741afa2bfef0b1fd94e7e84d251",
       "64251400e786dae1d07ec9658f84a7a9f5ad4a42b470eaa4457c5fb91ba5fd21",
       "f9f2f8b4986164d60ca45a40b7b5fdec1c389d36a371bbe5a7029a2a8d6df3a0",
       "bd0afdc1a85dc2d9498284e3f84202905d1985ca5c1976de09c995bec38bb53b",
       "ac725faf68883e6145d89198b128136be6b296de3c16eb19994914e29b9d1a57",
       "bf3aca6d88dc8a6cbe8c7b894f3f5534213ad8149bdbdc2ace4c139bbb51fd52",
       "42dc532696d6c5f3f068f2b5cfd841dfb9906ad11212486c9838641c01996579",
       "c0e958a119055745539ca1059746509264169a06ee9b2320cb343f1293aaa43c",
       "3b62caeac7bd012c6af7e04911e16153fb8b05016c09e1fbdddf7db3bda41f89",
       "ae010c46398e38c51c5ec336700e5a446b4be893e1810ba2a97aea7775908974",
       "04de19771b9897bd16dabc7423c36633d0f2c93e9d2c8c0880796a5775277ca7",
       "c0647feaa721861d7384208387bc64b8b1aa9e0ca7b979d3ae57f4ed2b083f19",
       "9ef29b5ce349eb6a6b647b7b62b1726fa21904f4eba91b2dc418a04871c30b0f",
       "79b0662992b7f1e559769e9e4e73a2b37b7fd4ef3b17c3019e8be77e64845d28",
       "a247922e647a14b19ebab6d955dc4499910b3e834cbc6d64f1e1d5c333bf92e6",
       "d707ce314a14dfa0dcceba635bde5a79cea8a57598f4a551e45876cdebc345cb",
       "48a6e6a75340549d535c1ed41b66e411a416221b0849a51a0f9c4938aa54e31c",
       "9062adc8785c28583911dca13ca3add5cfef5a7e53e1abbb6234258f9f158436",
       "910f8e56ff724324fd0b58aeda8e25e286837d764b8c1a525beec521ad380ebe",
       "b83c9c7dd488585483e4c33e225cc64209f7df232790d16f1179e6245ab09da4",
       "57e6065ecc87119aecf88b882bf8efb02811f4768ab41d2d4e8a3063cfafe0fe",
       "b2d21654c31918e1de480cf45cedb363f0eed2684bbff88faec3c7ae00824032",
       "8dc3fd82c5a6b36b6e04838003193e4bcfe89d72411899f1a3fa7f68098bee57",
       "c05e03096a58ab37918f7f1b2c0f5756db68b9924bd43b333f46688622d886ab",
       "fe4b03700ea5d136c4bec626b0e9c20d59ad9bd72613b977f0b3a6624b1a9b6e",
       "040031478c1db8d9a5ec6cb2e2a62414520c1e29b4f3dc9d9d32981c400372fa",
       "2ae1a2f111f57d2ec95806dd441a0791d48b2ed17182540714c3105c6e3a1147",
       "52d05af97b91bf6120f919b374031b1503501ac563c9686182a423ea12488c51",
       "8d91e3e2e8348f359faa0b74dc7e16ef055e0e16e9e6eb9e5559a768957269af",
       "7857aed243364d526a65d95270c64b7e04c0553776b556121601413087bb6e1e",
       "37a1003cbcbb072da50db0bfa675acb8e14dded8514018f1ee672adcba009a6c",
       "e15df2552b0286bf2b2bdb2147a51120cf13d148f8ead3ab6658bdd7ff6ec4f8",
       "77a1ddb0384187e05631a9f08a4139af1b82961c45a59d1cbe547629fd02df23",
       "0b09723031ef7d4372137fb1ab1c38d29d59e721424816d62382d21898caf193",
       "8a8e93cba0ef66466fbca20cc4b5c2ce226ed89ce9b539ff69de550c8e022ed1",
       "99e489206d7d91227c696402af4592d1540fab81363e3f038ea0d15f1f91ce49",
       "a1368046db2a629c95adddf2a8ff1152fae63f666445a00bb346f76180ce26bf",
       "5a7efae754481c34785c6939d2f82c1c560687eb22f67e1e91b5eba90d2a7a03",
       "834d2f0dac3334efffcf634bc21073f619bd8120e5d7c7f086f62f8f5997d500",
       "d825beee691b55cf8f473eced027e1631bcbb2d39cae4e4e9e4d5491e1db07ca",
       "2a7c4e57ce454e3b6293b00d6b983ba9ff703d14ff8bacd35d06e34c2eb6fa78",
       "bd8f7669895bddbccb5145740a22e1110674c7dd8850ea87e87f575c17a912ba",
       "c9c87f3c24e5253cc5d86e6f183fcba6eafb360727ffce8b8bd43c80d6872680",
       "2171d2b92fd228ce34833d932dcca62a85f448549135b8831098c30290cc50b0",
       "14fa42582afc1e8898a358c766f57a475e28e920f28acb668a69875026925278",
       "e845ad7c7a919ea23b62aa1489dbfe18829414bb88c27e03318c286fd505895c",
       "c6373cf4df37379fa4fa4b105d1141c7eb60f19a9bcfbbc1f333f53226542563",
       "79290a30b12256a92789f498b240d40f9472332c383709941ca84e0d89efc613",
       "db85501d089e156a5fd9203be011bdfaba96d6a71e7e486b12c47ad894c3b9b1",
       "e1a7aa278bd553a71bdd34c0b3dcabe0d92a859ffa2f4510bbe868df71fe3e8d",
       "a662656538f17ba6af66fcbb0c38a554f7bf656ce331ff07bf82c87935f0b7a7",
       "4876d148ce64715885602fe001029883444aad836d50be70a2da05842c7521c7",
       "4acf84d87f41ccece6511748388faeca623ff75b6436ee30d8567852d29afcf5",
       "ce24ce3a5395290ffa3fb8ac58e7b750864ecb7f621c3d301b080d31867c12a5",
       "becaf0d6396047c4cb4486115220563877217a93b1606a2103b461a84b0d95b5",
       "fa86ea65968f04857b14bdb5eed6644259335a7398de686ceaff2081b1d24f74",
       "d43ce36356354b358289f92afe12b1c3d260e9fb8cb9661e7e644171ac8edabf",
       "481ba011903c876dc6b1131440f5616a375bc6db04cf62b33a9b90762ea6d8f9",
       "a24d05e8098bf2de05eca92bfb20a9a65a190f191458ee67414bff4dec93b697",
       "c7b8406edcf534dd69fa36cf312446c5593a3a9f1934e2c6cd6af5843e0f219b",
       "998e66c0a6db41786d3118f33f2fe55db500e44b63c0111c945364b0534577b6",
       "33f2229e4093716b307013529c1f20e36d0bc7ce699a9864ae4366992c7dd7d9",
       "d6f9a77a146224b685515d0477d858307159d6f9fae43301629f74210f4721f5",
       "1920d1ac1be3b5c32e0b79fea9da138f185b131932d71a27095bf6d98ee98c58",
       "c8d9e50346c503710f89acaf0180998db68bd68f5fcd9ac2481e751eb4cc5eac",
       "bd5e868a69a61b6f88253704a48f60c6dd44cc32ae93ee21d6a240380ad4537a",
       "df2c5081cac103b1df703de963a442ebd0568337392e39e2202142ca45a4d36f",
       "10a1f5d167a1e2c59dffef6e5e341bf763f4794c47bd8623e7d7e8e549ebcc10",
       "d52e70d52208b70ffabc9d4a56816bb8c47b58d199501006c79ac678fd0c69a7",
       "ab201c4ec68a6d177fad31e80ae797249b6f834d24e4019cff4fc0cceabb2549",
       "1661852417ad53535628944ebb68e4c16c84c2ed7ee5ae564faa087c0f3532e5",
       "79a733d995a6db328c98996552fb55b8bbb3e806b6ca2a30a70352c99c8e1d3c",
       "8365428cf14f975aa27ac83476a38fce213c26b7f92573971fb4544aba422755",
       "36b86dafa75c1ab7dd973d76c40ef79c084233532728b8fe0238d2aa2c15aad3",
       "261670e1596f216aaa1d1426ffb57fb0988c6b4e1a9e01c59c47825368fd4bc7",
       "0c0f2680e3de6b4a581af0e4a84781e9713d9636c3a228d38065a3e5c579a7f2",
       "1a1bf412b180e10f8461ece223ce9b13f19eaa78a01ab51ba57865f5141e733e",
       "dd37cd80bc4a038a3e5a5766219730d0ad5a522bb574e8d7358471999eb23095",
       "9315f9ab5c58b12c9122131664947c1003a8ae600d9c5f3a0541d0b164bb579e",
       "8319281a705b45c487353cc5ae95b49a445490715fcfec3db3c7f02e4096b20d",
       "1585a9897e1d50c380c01a3ae4772f5d827a937a2815de86ac52f9b786821abe",
       "ff2d8f7c72c8ab2c268f613358b9489020586c43d7f5d422287b605eb6b05338",
       "f50dfafd186f56d9dca16465b5e58b851cde91e90f5cbc545b1d4f2cc8e34b7f",
       "a8d17c07c5508f03efceee228b928280298358c3de81a1c6ddb8053024d7e017",
       "9a9e2b86a8d58fb4ae39dc56e25d34448b07f6326b0a8d0cc4956b71bef6ef2a",
       "2a21c144a90502dd5db092d764cf0e9b37b496f2abed080ed99d437ff217b244",
       "2f93026fc7b429b03505cf18d74958285b42db60cff3b6ab5cd5b29b16119d43",
       "874411ceb4886f8de8cf8956c152a398ae0c3c584ec4e4f473c70107bcfa43ee",
       "c1c34c3d6e533000a7dc68929c79a8922565ed5d07f67deef2ca598aa60919fd",
       "27dd330346c7050536c169797b31800853dfa2043f4ec5972ddf73020ca36cd2",
       "71cb36b3992ed041deb604be30fd6e3edbae2381db71ec4374f2861be722cdaa",
       "5ec2548f4e45a9433e62bcf3a766b0ae38585cb03679b9085f58e107d093b420",
       "632d263b544123f0f6ee226cdb3a275adbfbf0a7d68c543e8ae9a153def44c8d",
       "0fe7937ad3e0966c20289a023c46e5cbf5f80b1435d2525bf14f965fa44e28c0",
       "07f08ca54e2cb82953936d1c06e9c49065d2dd66379fcc62d5dcb8ad917a6b62",
       "1162c94e0ef62e9b200e5570a5ad2f692aa1e19ccac4e6f2d2ead42dec3a2b9c",
       "e54d9c182f6a3ac975051c822ccbd8b1fbf7aca8bc7297861c18800be28801aa",
       "85833b82f70d0fc8348d9098009e95e93074ffd9ad091ea9a66ca34c88073bd4",
       "27177a170f15d5812f07eae3fa05f35c09708107a8aec3384ce12423e81d8012",
       "068b9a592083d5f4171aa76b3fce1c2fd487bf5c6264b233da5a325ec69f640d",
       "b848a70dd502e89049b105c9f297dd5caf5b2b6f6861d55f29c142c79979af53",
       "5a97bb8cd75b8b86e0156d8938ee9969217d77c67911a6db93da1d01fa2fb57d",
       "a5eb14130597bba25ae1e7f17103cb8b8d403d658878e4d67b8b0b6f13088616",
       "353b8e047b6cba2ad43fba7b9b26f44ea77217b2a5a8321b8fdbe9edbf3e7f05",
       "bb020ac78fc2e64f3e681f722ebaa32fd26c77b31c1d11482a9810192f7b205b",
       "214351ef9b59700065dee0d9216ef9ac366f0ab075e5a727ac144daf8159ada5",
       "416c5a42e1fd2c5e441b682500fe5c8ddc708ab41791cd473b55033d4e2ec02e",
       "e9a82492a0cb63424c24f3f70c66e6b115188c23fd5db6ba63070d97488b2f90",
       "097ddf783241828ee7fa9263fc405fd5fe40e812ed54459e5ca4a6b047a58370",
       "bfa850d283828cf2315d5add7ac4d9c463ab88477b36e4798fb0094121bc9ff1",
       "e0ef45ab4bda86defb439c2c9318d2e6839514cfa2cfd4d595298ff406ac3fea",
       "46704b7ce175bb9d83367d7791496d1fda190e26052568ff0896f0196c455fb6",
       "ab67346d691d89c9fb233f1ba29b87e9a68dbc6b813af6c7cfb902825553bef2",
       "dd84b457106fbc21284bc3857bbf1bfbd7d8eb0566f4c2232bbbfb8ca8a3a8e6",
       "de40d2259512740cb4ea5ecda17566d4d4e7b35792f99269daf58b9fae969acf",
       "c43b358384fbb92f4c2022975045c5a441fe6394485c4de7286bea8caefb9250",
       "3c736b93f6ae6b81d62a6b2ce20e28fe30d3905a1915c17a0bca8fa7eadbd045",
       "303102b726e23ce79e1c9dcb4f96add4cc1a8817980bb271672df666237ddee6",
       "cebeb06a71346f1043a854670817b6f6b527beadd79afa020d7a7020ad549d68",
       "80ae38cf319abd0cac47fc55e413447dff156d7e06bc141f53f0b92c8ea0f8c4",
       "fea75f1f2792f6e328cdfbd005bdb507a171fd0756890c2df0cb04b52f41368e",
       "0cfd1e9ce82b868aba575b29d4f3c9c04a2a968ee8162412173291ca426ef99d",
       "5f7aac68ba62efe81b27aa42e357213b0519c9735cb8361c48e12383cabf7921",
       "8533ee2acd713cfb105409b84ddba302fcd90ab4e4ffe07b2e0c4f6a41e554f4",
       "69c7935c3fd7343d8f38408ec07c89c2d124124e0b1a00d508a71590b44875d0",
       "d5dfdf59544f0b6a5070ed98a46e6205b280c3b1bcc7d4a1383b4d6fe38675da",
       "8918d8eca40ec0bac6e545b9c3cf864abbb551b61c558fe7512ae86f4291801e",
       "ed1a9f7a0887fee5b43ca764ab5187fa8d074a608e689c4ddf69f843ef76f858",
       "02b634b7a44bbfc9ffae32a3eee4e7d0da246ebf4eed39479ac2af04e75df835",
       "6488335d52aa6dcf6bddcbd31d6b2b7ab9a354ba4b00d96df1fcb61f83c9b6da",
       "7a5aca83214f6f4fdd248851c9da2e55a79e36b79ee30a0eab0fc6194a8e2ee9",
       "4c9054dd2706e7f4a316462cd96e8ab26f1d09fb2270a2cc970a70c2db9a61eb",
       "bb5dacfa3581f441f67023ab50647c538662f5f5cd64a2c1e5e220155a6010a2",
       "9d1aa70f513af99a06085f646c14758d6ce5d16c5705266d55284c7fff55ae7c",
       "6502836dc5f6036691bdbd21ef2ea5e5e0eee234ff6f21c99e7ffd72467ecfc7",
       "6c5a2e1a95cb0ba025511cc712f957ad7130e7543e6a2e1596ae90fd0c6df252",
       "0bd39e502232da76b49fbd64b90d769c6e58b586db867c06a36b10188a58d83a",
       "ed3485222ba703da55f19151502539e0876b335787fc7776d4d2689eee6f4045",
       "a2a118950a7644a93576f6042eecefee6bd67fe8ec702ebfe7c00d52e5664981",
       "d5606d35b9ada5d64840b2a170249c4aad31f90d308375b95be372b9177dac85",
       "289732f84f46e19269bf4c5b97cd676084bb3cc647366e5d3c95b92bb9e0467c",
       "c97a57e0297381778c2095d8f7bcc9a8838c197c723e40a2edbc2b3fc80ab5a2",
       "22939a263dce2f0315a33cf88313e8c654103b2d8495e7cc580222748ec07ca1",
       "15523eceb261af8d7c0667b879fae0877ce5fbe566cb2cbeb0143e1deec315dc",
       "5397cbe36b1f002da8909a1c4eb90b8b5469dace998273578d9a7a11571caa65",
       "22483002ae0ef3d8ed6c006b124dc96aaa96cf2e5dbdd08587102a49804e7d86",
       "dfa97d39f840bb1dcaa9bc2fc85c4611c4969aad22b2f69335ae2371b8dc8415",
       "ce276c24ee914ab0b74e79a77dfc203f6e7ce30c040aa5e68ce1d0afcaba1595",
       "00404f976a32cc77862829d53f1058ae3f3352b90fd514ecae062cc85f27b1fc",
       "e22b0e5f697f10c97c9cdf2b3d8322584e9a787ccc34687c6f0e62e3016e9bbf",
       "bcb0a31e38d651f59cf750b9ee634105334307334916ea97f404edfcf260833a",
       "4d799f6b5fc8d3aea874d9fa15a5768dd4da6436b1f96c286e8d2e802a6c4185",
       "f73fd70b19533a33bdc6d09471f66420f758a5e2f434828cc2a418002f16f119",
       "1028203b31f7d0be48952448bbff5c25245fd0b4c43ea2104c6b26fcc20b5ace",
       "a14a985d93b3ee2f401b7cdcb749573f5569579ef6d9b2b3cf718718c322ab75",
       "503a98420dc333e41efec1baea2405b581108c94ea3e4fd095989da9a64356e3",
       "bc077a65a5ed8de8439f5f0b046c3353da9b5d8a380710b06dcebdae8a0b0503",
       "097f461ec850f043a87928f50c410c4b1a73d9760a86a8d237da5d7299f03b08",
       "170ca40b311b2cc5fc42c7dd0803460b19ac9a54ba67cc7753e06f18171fa30b",
       "c68899d73df13abb09f95f40656f5bff9393aaf799e0bdaab0b819a3327f03da",
       "e933b8822694502b06ad10b9a79737a15b10075986d33968a692ecd1238c61c7",
       "6f5d263f74d448b88c45e0df9240db0ea5273dc9c8225bfd0ca082d90c5ce179",
       "01730a3ddf4d9a7e16034e081baab3cacd1eca4e9910168da6342801bf2894c1",
       "9884005650434b14a6517acdac9bcee47ddca4fd5e0fe7da031da608d7cdb8ad",
       "eb674f96e0c5f4b48d280cc5b25c38a2e0c476eae42a7e4bf175ca8d934c79ea",
       "4c43fa8b788eedf80ee33ee22b97d9121193c37cee168eba0b931b34b94c2f5c",
       "6ede2cb454f828cb2a07b30f82cb499f5fa201961a15ffb5209b20235cf91ec6",
       "ebe224bf199e9f4211e96242ef45ff48611b76a53b9ee927c61ddbb72767749b",
       "778fcef615a22a469570b06e5bf52d8566df986ffe97206865f8328b0200ccf5",
       "1ec1df6b2833bb6fefafbfd0345821a63768ec3a4f373df2808e87b41ae7860a",
       "af3d900c75158f99eeb33c026d620ce1cddaafedc78de0250319097b01d0be05",
       "c4d4ba0a4877630c0e905e80bfdf529241ae0136204841cf7cb85322560a4eeb",
       "4bbc53448c8ba8074dca412f47d895b5696ae3734fd5c128c2a1d904dac42d35",
       "5f2bcf06af1b31229adef8deae42f144a22a17450d88cd8c416ddb1a54ccc623",
       "a2b26ae15719817c30c690d91fa530eb71d1b76bbd1ae8a5b9aec1cb4f62a7f9",
       "1cffc343af1f1367a0b283696be63ebd49be09ef26d5e23c80dcd3b282138724",
       "d8dd1f6e146063f2674e0dde6a6c7e77e0dbfb42852d62194a24384db9074474",
       "ad761c8bc8463e7ea540d3299be7277b9dd23a6d37f09fcdfd8230de9597d3fe",
       "704beefaff99b8a130fe76b6b9d66629895b2d181901071fc8ea43d35647b93b",
       "c6fdc755aee3de8b206ae36f310ad955bc018c0077fef047f697215a4b3cbc2f",
       "be18f087e1ebc4968cf8be173791f030500308b9626e92b3b2209ec07e49d5e6",
       "9354f9876bb2dabfe4d19ac71a830a22bb2c8a708d355b83ea8aa6efc600c2e8",
       "09f14f6076259b384cc5c0eaf16cdf1f3d56d2625f0b2ec9f5e4aa5b2b187a83",
       "9f14f549eed35558ec56c1dc5c5de8c7cfd41844b9bf78aacaf58651edc6aa00",
       "516677d1f3bedfa81b50cda4a2554832e8f5d5d82d68a7dab3825d28d02e6261",
       "fb3e4c04eb97a1f284bfc1c66de53e32c72920790e8855c876d56f7781874dc8",
       "189b16f7ef5e33e8897e706031f12082cc7ff24463180eda8346e5f7a0e2299b",
       "0080f5d5913fcac2662121866203d220a418ea4d7dc42118d597fd0097e4aa5e",
       "229826e9d31bbe3ad154088f55984ce255d93ea7961d6b721add22ec68f7580a",
       "946c61458f28bcaf6ddc405629ee6beaaad2bb071d71701c70d06a5b9a3d6d41",
       "b48bc95e6f7216591e8cdd0484e6db43affd5b460816d8214edb16a683880c78",
       "26d3f2ddb1abb095817a2ce9ef15142ce124b9238a2caf05cc38c5bb564ea1cb",
       "d1c7144b318e6b8702fbb9478d5d10a588704a475911b39ff3bdbee8d6da1c28",
       "703e8e0602b8aaf0931a83b0546070e240617bf114b308a1230655232087fb30",
       "e38d9df617fefce29b966c4e555772aeec3cd5a68f261c62f0ef276c4c156607",
       "a6756b5b997e9bb4d102ca4bb07e4e1b10ba3094b69ad74155547f6f95fbdbe4",
       "54c2dc48b746a884d9455502a42d8bef675c30efda53f1beef5cdc21cdfc9b80",
       "f12258b12b45529a6ace289bfebb82414217abcf4f0f58a10c17349773aabf58",
       "ef7baf77d1f2e37da5a653474a981491ba5fc3eea9494e0a4a43f5949f0458f2",
       "891bde3cc893722ad02812ca21bbcb30f6f22082c86436c5049a98fdca43141b",
       "32bfec185a480d483a0463bf6f78d3ac568ad2382379ea92686642a7b563efcd",
       "7889018f520b62cb1a4edbfb4aa2d1e78d995258fa5eb7a3aaae4c769363d4bd",
       "77660288fd91c664387a9f1cacdb7b5354152b98ab5ee5cf5878699c57bdbf71",
       "5e372e6f539b5c53855cd581f2569e5c9220d2f182882f4aa19507c75fe12e4f",
       "dcfdfc9351f72396b8456d88458660efbc7e584dad074a7097daa55b0687432e",
       "6df4a8ef542d52708400b901ec94083dfdc0c03fdd9fc5c8e7b8741147c7f7d8",
       "c4e9d9343ba6934f565993519db4291ffbae2134076448638adfb3a86f3646a9",
       "62c11d101121c0bfc44c920b581202ebadc9f834408effa69ee8e48c0265f9cf",
       "d94fc72af239fda13343a1dc695ba99e4ea5b31539f698837d942f18f9485b5d",
       "940d6455b7cc98ec1604850ef98fb046c9e9d818911e6005395a0f90afc9da93",
       "76dc3589f7406d8f593ab55896a64e6b3f970aad7fa992130037b701dd65be1d",
       "8a602700f905aa973676668df331eb2e3cb47f8867d236577f18bc8cee809593",
       "5eb061b109bfe092f2359f681eea72a721f00d2c83356c0976bf4f8ad599e814",
       "0121143b3f45ab119175232c0d77d6ae49324f4520b6b3a9beb1066109e3722b",
       "ead396dcf32b92b0aafc10c84dc14f006dfd8d102e05de7ac910dc3b97ee64a0",
       "62a2d8fad63090da54e7c6693b6377d774800409ff266ab8d7ec6221ac2613b7",
       "1d8cd40f8dbf4e35cdcb2a053c146a799aa7220042602b6a203bdb8abc4ac6f7",
       "fb1cbd006749d164aeb7b7f666019548d80e242ef3048e829d31d5d532bcac85",
       "51cdb60097086c2e69b71bef5d94d103f239aec04a0dc4757f579b4901b93f5d",
       "df4c57078aca6ac606f8bdaee351575f87efe21e9c23f81d137c35e676987955",
       "23d74b0992719a0f1ba6a3da63b237f97de3aefc3989ac94a01200fe6780595a",
       "99741b4279dcaef6f4c2b6f3eac4539401e8be2620683e1eb000606b8bbd977d",
       "8253b23ae121072d53703e236331b115e4988c834aeda668181f844c01407fe3",
       "c028890800c3d3286c83d7bbabfe4c03ac238d45c528cb02b03a0ed51075c5a2",
       "17c3e9fb4625aa9671fcf11d7536a3dfd9834dcbf26990316cd9292e7138bf10",
       "b4faaac22ec7501cef7360da317d526ba0e639861a955b6d2d0ac1d50d48b170",
       "d91ee42979e25cd92a781d79034f1376f94ead05ca7d5a3d6a1b73dd9efd6425",
       "330cef5ddddc2f17acd305ef941914b3b0af5161ca2b5d95419d8bc7e0ca6fb5",
       "a10662042117b223e576cd66deb6c39fdeb3455ea8a67aaec746f703ce9a9caf",
       "3802a222f56814a7c687a3cce3bcc0ab74676c1c72a25f7f9965fe6f4ef1aecb",
       "406256fe34f7ebe963b05cfda927bc37fbf0667607ad14331d00b74f06bef06c",
       "ee1605cfed043c05ebc9a00c09daefa125eedb6f2747f850cf98baa8c12f41c1",
       "b93582dc9a00e221cd8b7edfcdf3ff6ee2861fc2a5258f0f64b0c098bee29f43",
       "8547adcc084c9dc0a3b1fbdbc96e9455056615775674335321d1923cec9f3f41",
       "db2b87ceadef2c225c5d0aef910c4d2a311002171ee7e1a57e23efec3a1d0938",
       "190eb0879a8a035543eb84644c2d060553123214de13bbe1a175b2c87c0e8b1d",
       "18dfbf01222eccbd3598ace9120ad5a656d14ad475151fa4209ce932db56c939",
       "1d37ebcacce3e820a0fd0fa7196f45dff1d379fb74be20f764ab900f12f00038",
       "1d836ce812bd51bb249e66ed6aed231e1b0cd024d09432a7e867c2106df9e421",
       "65ce36926748280720e4fffe0ef7e01404ead2927b3d83aac5401cc0144d2bcd",
       "d72dc877b8740393cf2e3d922271747b7ee43a55fe2d754eda38f9c9e92b5572",
       "72b931ea03e548fec343a17eb94e52bb83f1fd2b2fddff94de9ad2b6e9b57867",
       "11f066153637777f2a34dd93829b657024c474263cd556d983dc40ee22eb7a40",
       "a5f7d70832aa60be87880f53c0e66d33ab7b8cfba8baaa8aa1c051996b8e5971",
       "ff06a9b8dec9f0a46e14dd7da80d8c0b1b2b2d2af02f19533fa578831e2baa39",
       "776bf5617091ff2005407aa4403e6421782abd082a468207a25c53e8eb169643",
       "9c2220f34115db96a45491eafc0fe356515a7c548f7735f45a2364f714e8b29e",
       "7c2dac92fb7e8f7c525d48a5f8f5a3639f5890dbd603a3661488eca49ed46e31",
       "8e0e78d551324ab56b263812459cc679e42534143c475e0d358d1bdb6c6d412f",
       "cb589f017bc5b825d5100fa634d697664459aca4d46f4e1933f0f4700d5034d3",
       "616bfd91e109d2eaf1eb4505f62c12d9f9274e58b39b825153f3b36dcd69287b",
       "f597de9786ae017a4b6937009482bbf084580f2848c9972c55860b39e474080d",
       "99b7f187affa7522e65fddbe2568c17c5ded0ff66f1bf02ceb0e43077f7097a4",
       "247da3ef6d143f54d0b60a0f158853b5fa58fc5b2595393f93364e319c9c4d50",
       "2b0485c0ab3acade2574753a9158c662ebb67eb3af67eb337413ae1e3b3abee5",
       "6d21ec775d288554c78d9624c7106340c21d43735968d787831e6e623d841942",
       "8a44adac491b406c0122ed4d1823f3154372c8d04c164021e6ef02f74c3556f0",
       "9cd0e51c8c6b2c03133ffa0165adc15b5d30665781a31e94269394de93d068ff",
       "b181cd01832f06f34a28c65148d97e2c44eebe3a9d76567493b439ee6aa7136c",
       "765a9cc441eaa0acaeb35adfb4df82e3414708059035c84027f868b248086565",
       "751973b7fbe3887df85ca767369a949ef7449c228179b4283a25bafc125df68d",
       "b36e48e8f2b4ff0809aa9ac0030913bf5a807148cb697b6ae26452f3400c9d1f",
       "280d7a16a5e192c9e03dd5d1d028f9a90e17689c2660863286935cfac264fc40",
       "9d4793607d13f737d23b50e2a532f346577cd05b99b8da8fd06a0c93ef99ea72",
       "643d2d2715ef3f89e34b3308eb89dd63b9f37e45b8e85c090eb31251d76b3eda",
       "b79794a8ed1606074fb7acabfd8514c9d326db644a88b6f97187dd8c57d4a289",
       "192f1cfd6ef8cdc4b17d69dd23ce0219f19fdfd913e7786bf25610cca338251d",
       "15fcc1d8b1bff356bd791706e03ffe79b95383e71771033ffef623a57181b25f",
       "54c7485d5c35b71eea701b4edaf0497fa87878ed760496d5f8d5405db07ec1f2",
       "4eefd339b02a69f6ae6e51b4eab2754a763f55a154d905fccd24ff7ee5858612",
       "0a2b72c6f32f500f6409e1da5ae4172b1bb70f68b07b56646d7b028a2ea7f7c6",
       "56cf82cc0bbf69012c370b05516b048df582e6fb8585b2d0993218016618c428",
       "a30fb64fb4aa7d398a6d95b981b9bf52d0f7cd893ea482c9b28de75f16a335a9",
       "7f2107c88cdb25c8366cc71e1887d9c2b0f0b02eb153ea66e337fcba54590478",
       "a085f1a1afe473722a9794e8e833e962fccb892745ebe4cc6ab1f7d7928db53a",
       "27f4344b602fe525419f07c6ce6b9e189aeded723235990badac32a374578efa",
       "8cd3f01e216f01ad3b37768036b7c1ef2bbf63c93726d4cf88267b2da643ef21",
       "a055ce53e471febed9d4653505185c00f852be025d4ce091fa4d38cc46e57417",
       "e8215ae1cccfdb10a2ce085143ba061f8ecbb82a572cd73217d76608d5ebb002",
       "0db0e0610197a8634cf7ce49faecdcd5ddb155c1d539f85d3e78eae2b171ed39",
       "5e9bbdebf4e108dd8640efda7ae9efa258b6fc009d4341ce70f45b2c33a00e23",
       "9e0aa2f1dbf004675bd50c62d470b5160d9fe98e92b6cd820e7a88f6227ca022",
       "656abfa89b5354c89eb6c52b25ea09af457de29d3b260cc229000f81538bc255",
       "21f6153ca8466fe4f9eb33c5765aac4f83457de9f74f0290002d37be2038bddd",
       "88a3543d476162e5bf68ff77cad1f4aa5d4399bdefd4823e898396e0ba14bae0",
       "ffff318218c7e2dba9dbff70715c10bccaab6c6d255381bc3ef336750ced7708",
       "4acd2574c84be4d1ebde02a5371119ea8f67f37a7d78f29489af40aaad1e744e",
       "d31fa3d6e8ce5c43aef8c14c808ae877a962549adbc9c88196d70c32052b6b14",
       "d0853970d303c1a980084a4c2183e4d167158f969c95fb32ac51b7bc604d4ee2",
       "5139125f5dd30267378344b74f6f141e581398ee63d92198313191ff4464c09e",
       "0b433533eeb124d6120e8f1f67669ed4cd2dd1f9adc226a922bc453f4b0fb12b",
       "63f06332b9407d5b3056dc992808b1caaa362b597c86353952b60fa62b7293e4",
       "cb91781d9da6b536e81ac01401980212a63c99621ba210ef8f24a0b137caf6a0",
       "ed1c2915c161468eb1af7b1e11631d86fb37544e2cae04643f41a36214062b10",
       "b1bf7a3d195ac0e985041e4e79e6191745ed3510316bc81d6edf3cd8bddb94c0",
       "4d64de8ce6800130aec67e9201add0592bbfd3228583503ba433ff5fdb1f9e71",
       "ef58ce62c73a30868f808a179f0e01f48167e74270c4cb3e284af51cb6772579",
       "44b6ad7785889d7632ef9a62b45f1fcfee4ae01a290284aaaa82ccf02efea785",
       "47107d6f05d6829e17f0c0918f7682621db9330ffc9ffdac90530a786564a8a8",
       "77e02a5fa39dd21486593b35ce9d1b96e24567b64a5aee7e4061740a545ebd8a",
       "08902e13ec23a1a793e2e787a08bcaa7d7c19c0ff66ddb71797f1aeb3e76468e",
       "79ddc8ae9cfa7ed27dcd8e405a9c7e969cadd502aa5552ec6769df6bb4c0c6f3",
       "afdeca23befb8b6ae3b7e6303e5aba37eb4133bbff276f77ef4aa52500d0f2e8",
       "7792a622b922c8e8964ce42aadac6d5086f4d63906e56c3b6a2842ac649c9d88",
       "165d1e8bc3827239b836ec470531a790c6fc9b9434b39f2f8d589ff348f2bdf0",
       "690db3631ae65dd713da68150ce981e453b9daeeb7b3ae288b63f6c72da093e7",
       "f0a29ac9b30307d017dd936ce866fa31ac1d12017fb7cb1536f281c808114593",
       "6489e5b2c48a5c9d1ad49392ffc64cbdbc3676e8485f6e84c1a37a6509cb3832",
       "27416503ec62effc3bf049e2be3fa4b391c1aaf5d03aadd673894589c1117943",
       "36db6c5c64c52b8c89b7fdfc3b4e62810268408570264556b10008430bc5c384",
       "afbf72f216974373443a6b14015403a44509002450249392b3768af49a4d149d",
       "ca5342957f2bd105cb93a41aaf2dd659a1e7c3bfb36708ce605ac798e9a6e4d2",
       "0b321e1f30bbd4164b614ebe614e239b858d3fe7ada9e6d096fc22ab58a86a87",
       "8e15d4ce75fa808e42c4a9ed9bd0d137752e9ecd0e7a73a28f47d5b8a8871bc8",
       "1ba0c3390d3c066c22bd6c0d7e7ba78b7562e48ee677f0371d1957af5d690c84",
       "176d7836b53dbabc22cadb6efed15d3728311719123b0d484494869a6084c11b",
       "b93a30cab2072b71a7f846320cc46f856572fd763a32a16d08269e68ef2e273e",
       "1079dd9b3d13f3cb01f057af0cd5cbaf54492e5616fb9c1201535a2b3a035f43",
       "9624675383653eb405e63fdc7025c9ba780d787ab4b95909c747f7fa6dd21e35",
       "00696dbdcd5b356b547850e70cfb6c834029cf7e89298795a8c65a80542f3adb",
       "210132478bf0613f45ec373666263864f9f2a0efde386719d81c23027713c191",
       "1f0225a7e7420173927200dd644c830550402f33c5f1648d68005dcd2c49bb8d",
       "7fb41c4b4b19821c658a120bfae9a50622c86124ac9a9c8f0dc4a55a6eef5cbd",
       "a6e0fff29225c77f0055c129a7b6c7f5a5a630167e0b3a4719030e684cf2bd41",
       "a0078df98dd714de46d70c1a48ceef47b4c73fc80a7c2ebd78954f212c6a9c2e",
       "b7f262425cf9bce7b6e317a163bcdde2c3a4003eb1f355ccc1585f9f13c14d11",
       "11923b573adcb8ffb4a772a3be63f8b38a70d53bc6005445ee090e1f0ea39af9",
       "7cf065011e47192b032d380a29b7a9c9b948f03131c3b04249533889a06ff5d8",
       "ce3094d5284b77327f175c919b4733ddb206bee31bb0a2e8f3cbd28ca624cb4b",
       "6c233532653c16ccd7ae80187823a6395a0acd9cd80f4237b74b99132f0c0c02",
       "238c2ce96239c6d18f312447cc97d2704592d985b4b996f33389ad08b9a8b751",
       "edcb07e656096b30c9887f6db27da356c721801137587a6b2734ead8eede5c52",
       "3c5cf59178f2689faec3304d1f788a18eb8feb1259d2b03b2d320aa57358e76c",
       "9f24960a2dcbffe6aa82a0a055f042e801bad3356d3f12f676395a58c58f3d90",
       "520374ba2fa72d4164855f57478efdd920a93dc714cb3c6db4a3437a6f6b8ad2",
       "1cb0e2a15883449849c1b03ee60c322bd550168039d68e456db1fb58558c97dd",
       "bd38ba4695001ccb03dc7ef7a50d5109c397d1b780e29ba74af1fcef6d018526",
       "a4fe2f99757f2215b87fd471bb1e56a28bfd6e0ca02baa1de432cfd1bf544500",
       "b8fd8f247634f4154ac76ac708c43c79d3870fdeb5aa112cf47453bc1bbb8ec5",
       "26989fe8b0fbfdf04719c48483e95db370c52a6542ffb976c60f2365eea78896",
       "1286948aac9ebd3210464a1aef28d2b845931e1a8399aa2972040992eefbdaac",
       "26d807dd64d86b4d15d59e6804654f7af28177be837ee13801604ea75220d84f",
       "71c203d5e9398bd864a4710df83ee30254ae923e8263d04630b5122b3dbe097c",
       "988a292c83aedff98c3cb49000d3db194f2360805f77810495a8891cac8265ab",
       "45d9e04ce39dd666c151efeeaa5f8685a949fe0dc374e6a1cbf9f4a823252e4d",
       "e572d52e95ba8e5ee9ff56b42f737043bedc0574a8422b4cc285a4f4863d424b",
       "58c03f3434efa730a24cb6212eb6901256618e90477201cc2f003369ffa751a9",
       "e0f64cfa5f1a397f05081fdb523545fb16f6ce3d93effacf6dacc0f17c7352aa",
       "35923bce222d075a5647936f50bf98db7a34fa2d7bf9ee69baeaae3fd0b379ef",
       "6d170971ec166cf14179b684862707a1467baeacd0827e046217a34eaae69523",
       "01c41019f90cf19f0a46e54b9338082b23e4859feef2602823d91527802e3ba7",
       "d2981c8ccb002417a0eb946849a70843a795fad8c2e54da0bc66c1401172e367",
       "a81f5ba8c6fce2191f84652cd86cd74ad6036c8cedba7ca8db6f1da159c360e7",
       "5afa4965e228b534193103ee08c939ab62574d26c434c18c17a77fc3918f6d8f",
       "39be0db3114d019b51a2c9eaf1545a92a97e809c95a663b9c5e20910401877a9",
       "3503fafddd57a09b7d93bba29e4b3654b2540a78ef9ec10f8d50edd2015eda05",
       "96d5f81601ad1c8654dfcdbe39f5f7ae0671257a76820bdd8c017e11da50034b",
       "c1b5bcc8f73a3ad572e57b651a24ef7ded9ca8d570a9fd171bffa475d00f77ac",
       "609c628e6a5f11f55635b6f9fc39a65e61529b7851b2c4c0072b6a86c8067939",
       "4d3ba0fcc7e8c05166e949505b3626ec1dbc0070e271f155b2edee2f65868bc9",
       "81472c0a89cac9460c69e89348a8604b6703eae2cb92b2e4986437175a59fc80",
       "69b1d3e1b94843fd9fa4de0b9514228819f822da02f3c5c0dae1f5c269257c9d",
       "45efb13f79db4ca6b93748e209e2c3996c701e1c4051e9f18c7ccf9cf056a574",
       "f62e623d8f4d5a9f6e3a083797aaaa51eaf66205ba42d532ab7751f70cea3583",
       "4afcf819164f988560abbefe50c35ee1a522703950b44e5d0d45768124f5b7f6",
       "17674d4151c35813957a1093c65fd9f5f3a9787206996931e5abd0e62594faae",
       "69a487e83292a4bd0d8939abb7b48615e35d399380f8c91653b0d054c6ee42d4",
       "634ff6f585d3569f9e8e0f41e1183ea8b7abd5e96f5368dfa5bdad8f92f710f2",
       "4344a7c5632e781843786354ec8c1261d91927ee93044ca5e810bda84ea88700",
       "eb3d041cbeb11f146be35a8e311f626ca91b57f16d5863f208119df412fad4dd",
       "823baf291c0ceb234ec307a827d0e6cb93b0fa8fb0c0bf6d332cc4e1d16d0a04",
       "3274aa9abfbaf062e93646ccf1cf89e199e09071bc36d059bb218ca60a443376",
       "df804e60b5f67039c26623b7600df37f54f66262380ee11df186c19289cd1911",
       "f910e47725b8aa4edd5e447d92c4e196b66e5646988c0584301b6881ce18e5eb",
       "1e45db9990dd7f8bf9ccfc37a582ba7542e12abb167a8d3bf2a9a461bd8717bf",
       "c8aff4daf64fbc7be70e7eb76b2c4cfc8944ff5a9dfe7323b11b84b575f62767",
       "66ba9e3b943f859d1c6f4a65ee0e5bdfdbc7cfe3bcc8213e3afbfdbc68d7df45",
       "00fc57fa366944e1e29210cbeea4c421c5275899205123374163483c894bb87f",
       "8b55867fd876aa00ea44d0dff01a684315945bf10832aa02e3008dd4a58400f4",
       "d9d71be50df42e7093881a0b7aba296a1800ec385d7fa351fcb654f3150b2738",
       "bc27012c293b9c71ae6c5992dda692ab7e55b99c4289b9a2e8c3435a357546ce",
       "9f6303f7c389690d1234e9911335d2134896bcbbfd94f30f6b215864b2fdd7c5",
       "72ad6075beccb1ebda05f17099d3b1889682a34a01f1abeb95898242e8693896",
       "8ee65e8d8d8d532cce40f4c357e9ac9205bdebf96b2d6b71a8323b7040b0c7dc",
       "108ab2d6122e43f82700945b5fa93ee496bc91abb4f626b9e6e16e671bccdf60",
       "f4023f70263ab1eb7c603e386524f044230892ee71e1e954bad6e0291b8a2dba",
       "8c9e13d363e78ef6148b9473681faae293804550da81b00846f2edf09e8be885",
       "128d90fb678dd778bf9b93d4e9ab009de4d59dfa40c21001a341fb009ef093ad",
       "b2d6aecbd7e61813b41f21e1e58a592894595e15950ad684c9bd67b30a83f273",
       "14bd783ff23da33194e53e48a0f47adaeaf70f7858909ad58c920fd828b7a8b9",
       "9848484468399efc13c1d5aecc5764fd64d0b18d200d31915033b16fa1ba9a7a",
       "3b01b6872302e1a494587d2a5e8d76cdbefd0428b79a2f6ad3f66d67dc26b63f",
       "c531424521260fb407b27afabbe26b7bd62b2d153f8c27131ca3781713948858",
       "a860d1147ac9f95eb71d769ba9c5749718a1fa56798f5c6cae7749a3233f5a50",
       "d597e999b86570367a4dc8170731beaac3ccaade347c3cedefa3659d081377fe",
       "da61d2f61df3d0236ddc2a869af4072cd3dc0b05d967e354f0ea5cc04e51e382",
       "faa080ef0ea0968c101a848f9114fe4337f6a12144652c5decd07a36f4520aaa",
       "6c2cf142fbb0893fe1ab6186df417abc3f30ab4ca70d123826ac67d95567db5b",
       "7d806688708b6aa54b2ff2550140adc2272cad8bed1aaaf802ecec5c25898706",
       "f42caeb9cce963d4a138cd78b8db946698102e8486d7d9cc572f4bd21d70d629",
       "eff9d9e99d203616284849826dc08fdd3ba5245e7de4acf6b39138f7caa396bc",
       "8d8130f0f72195d67e9e4db9649c4b9a5cce84d3c735dba00dcbe907bcb7fa55",
       "1cafc5dfdb15e4a670c6d4d0ba980d1fa3a52084cfaddfc292fa14f4b68f54af",
       "8df46cdd993cd621fd7746660a56157cb13bd82ad4f5573b3bc446f4501b81d0",
       "09ed44ecc92495c50ce64d7fe4f74a94ff65dea4a1bd68395951aa24c26d59be",
       "9946fb64b9ad25a8eb0ec9569a14a700249d82cb5c4f1c082b2b2e107aa9d6f4",
       "b61d40f44f2584362e3ba82bb65cb92ea0b82d4038d3e8a2fc06fa1e82a42c46",
       "f6b994ec8c0318debca08fd59b6bc09531a5e5a08948d1272c5f032a93fd22cf",
       "005dc073e884247dbc5c99f5409e1bf76bc5e5d30f9e6ceec949130d75e3f739",
       "f0b03fd24079d51ddac8408eb93f661daa9f85e6a27a80ff3fbb060d31f64025",
       "458268b5207a3616b2165ca9bc4a8bfd665b679ea9621820094bd70481359f34",
       "a4ab8f8669a4644e1d703621dd45f6624ac5fbd1422c20bf815b2f56b5089bda",
       "248bd59fcc35c728cbc8223e3fe4fa4d8de3dfddf2c571577547eaeefabfe7c9",
       "377f9bc67b90358f59ef6aec54ab98f9f9745aa41b75297faf03dfefe42a6725",
       "32a4a22f2ad301fa6f47a091eb48faef1c64303ef6f26c758f689c4467edf989",
       "b4e11170dcc941c5bec13fe3b9b6bee1a9f8b555a9dd06eae88fbc898e473249",
       "ba62e8b084c3d58219580d0dc5059a84341bd6c1e1ff519cb57b1f467e626544",
       "d1f3ddb599b6c4e51864567db0896f1cadc2483841ecceaa3a586aacd96feef5",
       "9f37fa67856f1b5231c0338e991381184d8997bbda3bb0474752c8d9130cbfa8",
       "bf81f5758c1d294117caeb9dfbdee36c2ca7231d9ec82ef405e3bfe2bd2fbae6",
       "861ec193ea0ac547308539708ae73cc49cac125131dc7a09baebf43f5a3ef3b9",
       "942bfbf4c3710831801d0833cd97f3beb0621670ff1a8b2043207f0ade66cb50",
       "8813bdfc2147004fc80776151ef826c25e8198580b197c1e638f104429d6ae52",
       "3a5c6494626d8fcc2cba6a94c4c6c66885cdaa5b5e9e4a1b023335691ff3d0a7",
       "0b703d274849af1c08b7dbded84093227c269ec87c27646f1346a5704293060d",
       "6260a2bf78adcc035495e52e2918c1927f7afbf770dbd967164e34ebb027a825",
       "1862812669b52c3127ae979c79ce71de242a30d6cfb3d2940294a30fc44e296d",
       "4c57abd5ef5814c03cff7199451a1d1b117d0f10064038a4a11b2680f7aa69e0",
       "b50ea7765e7876a0df24d83dea79160b99efc01e8ae29113bf30494a07c18dc6",
       "001deae705e415b3228770ace5fc65bcc1cedce3c4180efa3870d1a08c1db1cb",
       "f016d86aedcc8e819d8852d4d9fd4478ad8c2c90bd70401161a6a76ca830fa0a",
       "ac904d817932b204e47c631ef2d8b0a144aa4b5fee65fe5fd8134d090c49128e",
       "6de9a161e7146db67846b3819cc7e19615f55f6adc7f712064f3ff7660d511a2",
       "aa229e4dd0775811ea335e08903cacf3fee117cc0e0787c0436a0051e2a51c1a",
       "a0495dcf10459b381b3cc6d9225f84e8b8d21fbc08402d594289c74381c62f06",
       "f13fb0d0169e35e3a080175dce27cbf04fff3263ad385ad745de76da8a2fd7dc",
       "6ec48b459dec01d699f2d42c29788cb640bf8a1d7f899f7308668341f280b74d",
       "10c38a14fe77997e32be8bdcf262731434101666a443d25e14907df3ea19228b",
       "c6389a16452b9b304fd4782d082346b694b96c4d48999b720e94344dcca66d40",
       "598f909bb43951b600f81ead3b91c18a83d48a4e300f199ad753142e6a2e3a1e",
       "67aef8de8a1409f521dfab370d93f608141e12402655ce0a3a1db01293853846",
       "371a9e4991289ec7f0fa50206c29292841deba8c6e69338aa380f7312879be14",
       "fa6c37e600819cf0035de16cea9e62aaa1547386e671c8f9664eb02df19c6e52",
       "a559c29ddf23f8b27e12796f07a7df84fdf0156107fafc1f07986ac763ac357d",
       "d25ced23ad223dd39bd242e5aa5a811fc927645fd74e2819146ae68483a98432",
       "99e2a985c69f57ca264e8fa15a9e37762104001f37da1aecd77b11562fbddaae",
       "0bdfe84e85aa7923f2db8efbdea650b15b4507de41be1f41a8a8499a3ae6380b",
       "2eb437d5fafd353537acfef9a11750fe01cbe39e0214c3aec95179d9ad0f8a6f",
       "b61d4f74125aca567266c85ea6c5ad4def532470ba4372e5935fcd8a723bb7ad",
       "6140eec5b4e689c2ce4928b53a6736e01f81c14e82cd4ff298ee99d0efc82a15",
       "64106e95d9183e827c7768ef10ff840201385111c580d316416c25c4c4852f06",
       "9f02c11c3df9ce9468dbf9a69a32e1a92bf2ecb0fb188df8b30757820afdf33f",
       "febc11c8589b1a6f3a4efbb213ff3c779d5f2d2f727a6ae1d850425c230288d0",
       "e0a76aa0eac04a8418eca88e7262e7542d91318d021e605d7af5f405bf7771d8",
       "30919b4d3feab7aa211c1c937c0b5974ab00b52dd7f0763e1001458177d401b1",
       "960728b20ee49187604b2b2e4e4f5ce30df66aeab2369f29f0baf90b779e7a25",
       "139b2703d59bab66652eb1cad62e8fab82ab5316b41714bbcfbd1aceae024dc1",
       "7721e919bf2708de35096af3dec3a6856fa7ef7c6f48b7b583d114d5450882ab",
       "5fa76984ae5fab501a9df69b03063825dd4d12462f6d6f84ffdb31d86049d436",
       "251031c21de6c9bd64cc4f2ebce99b85e2e674667a3bab3af46c65c2ce3c7ed7",
       "e394848f43572fe08962578c2396fc893917361e44548e7beb7d35181fceedfb",
       "8b688d97d4dfce157b526530d30e69a713a7bd127a4875f96ab8c6d62826671d",
       "5d2f3bc6870bbce65b6fed669edd4e9743eb1be9e6f32b1ba8109ea1a7fa6b44",
       "fb1af21eaa32dc39eed4fc4d3c59aad2fd45f1d500e894d9f8161c93bcf6ddda",
       "c11d4f0b1c0db63d7b5dd2cf23ffb541262abfdd686b5d7ce8e15aee0fb8a0ae",
       "5d26fc9b4e068fcdd2c5793ddb370d8813902cd0690129a48d96e6e6235b69a5",
       "218f61dfba57395ce955c7e908a72852e235dea8a9daf07d77a0e6c8ed37cedb",
       "7fb263db9c31d49252116b74503120879975ba6a759d4bc398618c160e691934",
       "66955738f8be4d19a54130e768b7806281486a72a405dc9aa568e3870e6c82d2",
       "323cab2815c62d11021fe7ae954d304f4c77923078b2c13147abb9a0ec876d07",
       "762a13ac1c67af7d245ba4df84ca67b0485f3a485d7f75cb2c59157d0bae4b26",
       "b718ecb3e2d6ec23f9ac1aeba39e7e79b78909a47ff16c8ef20ed0a38606bbc6",
       "2b302ee2f44fed5b726badf5a7461a9e33ca107abff0b13d04c57e6adce9caea",
       "fb2477c237763a9fe91db335eb9bacc27f39faa3a84dc5959db0543f2046a998",
       "056483c3a6de30792b024c45d479b6dcbaf5cf19155255821745e99e36900c08",
       "500026b0a7955d1ac407b3ba94a26773c6e69f47a7b307c7312cad113831c584",
       "95b4fe04f8a761a304e8cfe5422184cf9c4a96498bbd4fcad4186246d5e8bdf1",
       "97e86a34aa22952d12b5d0a9e97f255273cc285aaab10ac0a2b575b5e905d64e",
       "ee8d19a869e6a6b7dfd4aae8f7554a1e021907856a64f9f59891733a9388f218",
       "94201a2d79549e14c0fe8108eb7c8235bdc772fda76ce3293d5e7f98c9884663",
       "305e64ba05c3ee4e6d8b8da6275e765f590479f3f5b057976c276f26c2281908",
       "63660de908621c640638d5070de7da3c8e92f50e676ad5490779c37f28d5d863",
       "0c73be5c3bc8b22b077e992302d82ffd0cff650cc43ed8601a404983e156f9c5",
       "659a8088bda3be85d6068c59ff9002dcec3f49dbce1563c1c57a8cee3a7cba2a",
       "d9670fb54625fc7b2b1ebe16b19432a396a4fc0dd7e2ef8c12aba0d9e1b47842",
       "38d105d1e17a31cba87ac8f921ab151caa6dd5cc791b5ff1a802e4410a6ed34a",
       "4f041d9400b822aa5667e05768da0bb94952b1d0c3cd4dc81b6efdf26257a22a",
       "064d5c751982f7375a3224cf481f2ee4183ee23cebae86253630ea88192b970b",
       "8089707b6be8194c28a10299afdd7e2ee6e7f12d4b2e7473e2e6d62e83413d8d",
       "688d3f0f91e5a30dcd6f166c3b7739824f7c311f7ad13b0c8774eba98538701e",
       "e00a83be9775851ec84029d218d8e6d24a7086ff099d9d82a08c2210b80f7a5c",
       "d3c269a43a3f8a9ab42c6dd590f29da4216d9764257bc854e1a895d3c0d96967",
       "ba545697ca377edc94df78b4fd50359e2d78ced50f6d96bafe126d2139d5ae9a",
       "62b5a033db29f52e4ba1981d721db611fc8db1d2067e419cdfd97b4806337d62",
       "33b3a6772db38faa63fd05ca901e0079843e12ce9407ca27ac7e74a947140230",
       "602fed42cbc8d1dbbf1c0d3a37ee6b8f8b01a091e20d8367115253dbb1403c63",
       "4d2f1685e3c331f4b0565c53317377d35f8f7ce56bd56906097201d89022d4e8",
       "ae0421474c7c8fa60e70ca498db23ad0037030f0db8e95135d011e5036b1b117",
       "e1cd54776dab1b50fac06058673188c16add3ebe2a2ea849be7e179d8e017d4e",
       "864da64b7a71c889288687c37ff7905d7c601f8674d9f3769a3976129fccc081",
       "735e82f7eca8c4f800d946c0197035b9725501aa7a31d7d2e5ac0435db7cdeb2",
       "aeba58d3f424984a8482dd1a8f52a0f92732a7a670486b73df99a85885d70fbf",
       "55c84ef51bec8b29c341bc16bf5f986a3fc69995dc927ed58218f4fc8485b9f8",
       "67e2d738bf3de0236fe71ebc187c91c797ccde018861a02be155ebce6d81dc78",
       "02b09a894372787d7fd988573ea2f7d04071108ca229a1af714f29a53cf44d0d",
       "3292765892cedef72cd2d471a1a85a89b34d352abc1c3444544bbe0b47e74b85",
       "23b7ecb79f9eb5fe453453a2b273fbcf6af736286e760001de6295da7a79f078",
       "876f8ece45ed28fb9608242c04803a78b9fca5e9d39546e78cc4a5ff3c1befb0",
       "256412b78ee3ed125f3323f87eb62adcba16b8cfe47c85d851a0657318e5bbfc",
       "ae3c530a286b05d474eb64b42915768805e46aa6397bd493d1f7ff91ccc953e9",
       "f4e2333da66ea79f0cb06fd3cd498c82a986d9550d88345d551786c6b2b01f63",
       "24c6def8e05302f93486be2a508a1842bd062ebc28e2a2f914b2b727033b678e",
       "3e14dec45281b1153b5e58c027737b4b3484109d7d318ee597ad2cfbdc283df9",
       "a35c29519b06e2d651f98c61782f25c275e403e2d02c2620859aab7b6c4f3977",
       "4c9df898937b9cba4f988eccf3e5e0dac2605efe4bc9aa1413a746c3e945d80d",
       "0acd9504a9d497d9e477bdff0ebd5763a7df8beede3b93405fa03eb6d0b081ff",
       "7385b34ae4af220bae80689a31430946ee758841379bd0a55d0609f0298b9d51",
       "492de2eb3ab116bff3e6c905592c60878efd6368d434a4cd9e51dbe37d042634",
       "5e72b6229caa232efb21e2c5dfde5d65441df90cf57b7b33969269ad1672023d",
       "3bf9ad08559380b97404362ced31813d64edffa6b96a7077830ef8db525f99a5",
       "5332431662f44e9a1a4fd369fe880606c2e4c1bda3c6c9aa66700a095e2e2ef0",
       "4d69cf0d8845a70423669a94c312d64a5913131169c20d8a65384067f08217ef",
       "8d5d3107706a2e7a2d1ea9a312e34d76232483472d4004ae4ebd835d32648909",
       "35103116f4595160758c9a6988521fd318f5dad7299c946add508f08ff33da42",
       "2cea74b1bf5be293d06bb6469c926a14e8c09ed10b6af5e7e1f0151a9e8065cf",
       "fbf60bd6a7d308195b2f594dfc68449d7d61c05ac3d58e43e092debf5c2c93e3",
       "1b8e8b38613c07c240c272b0b4b17365e0b690e1860e40acdec836ec0231e855",
       "95ca51c867deb8eeb1e17161aceb8be24dd68c69dd59fdf6d6cfecf6bdb05b06",
       "7c0af3c204962aa096f8515b300d5edf7a07d53831854f7bf528ff983280c9a9",
       "a3dcab0242766a6eaab5d107fee746e11c7c1515ff65d53077efb994315f23a3",
       "03c1ee4e1b8126c9eb7abdd8c9653e4ac2243845e714f8ba9a210ed1fd76fa2d",
       "f6cdf455b25bf802b37eca6f6d77bf8ea5420f12bb05f063d57e774024a91fa0",
       "e0dd3d24164983942a7b3491293595e628f899dd5b90410c0ad8afa70d783717",
       "09363a3f7c627d93a42ecd0aac2939bf8a3af311707d7d09121f9476302a0134",
       "5aafe9f1edf46875857cc4b5f9ade377cb1a979a89a804626b77af440a0fd8f8",
       "0b8c721d77ad8b4eadf41efa224d6ac09679cec1cfcc29179f8536581c1d57df",
       "a47acd414ca326a4509d001705facb2df23f2005c3fdfe4a49ece5edf1820802",
       "6a6ba5ef40c3e20b0f3b6bb36953dd1fe080a8cf3a7999788bb786ceac906803",
       "bb9182da7aa6e9ded1a8564e4ad15e722e71b4d18aee93b17e9812489ee421d9",
       "7e4f3d86a179e58562f355fae1e2ec6b5962e76deb9891a09ebc93dbca409477",
       "1126cbf42b3ca76ac137793c30f75bdc18fb6623d843662012586bc53635f45a",
       "b4d2633955588bc8c48ad9d29bd7427f644f5e4b0c8e95df019b8eda97bd484b",
       "eae3ac00fb5cde9d7a6fef242289407db4922e02942743d39df460e2d91a1ce9",
       "ea6c8fd4ce095bf38cb2ce37c17689ac850f0775eac43db1a7a0d8e8d75c8d40",
       "fc10600ce034883848af55dce655d508aa7704b0786827c98ddd0a1680e2c775",
       "6b189611c92298d7d5f39cee6da7d97f7e465151a993a87f976bd5a554a53739",
       "250072fe18d8509d2e42b9799d3b8799658da40bede0e48e83bbc9e2a4e3deb8",
       "c18f7270f6b3150e4f6dca74eab6391af07fd680455e883116ca4ebeaa944a1e",
       "b94589c68b897a0e01cbadfbe302cd5d7873eff747beb1f3e265af19be947283",
       "c17c4b93087ad3a2952bfed3eb7dfad9eb234c98d3bec5b8c1a28d5a8fc671d9",
       "3a42614e3f48320da7e81b9fb064d79a70609744344522451cdc91aeb6ad37c2",
       "6f7d845e2364dd8818c4dcf1b8d36b89dcba359a1573ebfa3c868cb55ac41783",
       "90969b7aa031878e1927543bd5ea7297dc688852cd1eb340aef33ab4e237b2d9",
       "eb449ee6ab89a47b3841458d3078ee0015968791463d090f834b5204c2a30484",
       "c820a7acb28698dbd69c7097c021772ce83c55c78b8c1493a9373b0129591b67",
       "b3486d5d41b151c0c1737ec90e99c3706008227aadce1d93dcec6592b146f168",
       "b2a871cb0b67f97c7ffb78e0578ecc217d5ea5c00b5bd10f4b3a2d274663294b",
       "81dc9049537bf0ddb78d30e53285bc0ac67e3556c304afc66db971735e6a17c1",
       "d0e8e294fce9431ab0869acb3bc41bba0293b29155fab19cbc933810f2ec04e8",
       "ce13d221effa6ef9152a5441ded418ed04b8caa5fdefde2eab2f7823c0bbdb78",
       "626c064741f288770160d7d2e665651ca8e786320b9b19c184ce8a03f08c99a3",
       "076c58bfbec6e2a99a777972dc23bb43ddfadb91eceb868c9ad83cfc2dab1505",
       "2872483a19d1c00eb8040ac0bf4eb7c00832b1ed9ea0d00d486e461b8e35a61b",
       "d78dc92989ef2baf710840b382b585a1bae332ce6256fd3ec338e49ddb7699fd",
       "2f3f018a1bdc96cb62436b32fb06f662e0340466d78e332047af1ca7bc2cbd72",
       "b2dfb162fce24149c5d03e1b1e8e8a0eaf858639c15033ad0792c65b4711afb0",
       "1648ce7f8acebde60dac321cacc2919a738c759822a2538b067929b0e0aa2191",
       "016fceac8f85de87dbc7ef75816f87eccdd62cc6667d704e88037996485ae903",
       "c1e371999d9f390be994b6afe93bd79cccb4cbe6d466b38d6dafe48ae93eb13b",
       "eb9be9b26eb990b4061d74c8fb8f2f39acbe9791fe0c29891b42478d615a7127",
       "e3e765bf97a97d35e95b19e0a866eecf4550d68900b98aa075e0d41986f3b43a",
       "f69b1e9384b85d13423dd13c88b58c58ab74fb1cc9fff73418b44419933fdbec",
       "4f3fb93ec9d424963afbb9d149302d735cf4f0d0c8c0c6af239ea8a23c5a2dc4",
       "130901c184056c6923600f3a65467f1c935c77f47692f1836c22d4b5e13b3c2e",
       "b105420d5c58f6aab7b60a1130cc306ec6c8535f4b8f9d43e80a424639ddf5a3",
       "3fec51d830749d30dc6885f87e8b13a359133d8a07ee9947c770a264ce094694",
       "d3b5ccf3a74ac855c8d7d408eab37c4b470bf99b188dbe2212164ad7e65733f9",
       "00f1104415e6ab9408f7a2035b5b36e010924a700c524fc128855a58a57f5564",
       "e8b2ef2f2e40fd8d5e42ad5c4ef1b380903f8c59584c380809f1baf6c5a0598a",
       "7340267cf21d83177d2944fb7d5db11cc2b375ac6e7ff39289d35b342de29af7",
       "8b712d8ef5d9057d5801ddbe8f3af81448a3cb7894a8769e617109a836099b15",
       "504bdc87d4de3da3e0b29d10a7f5f90de2f0144bdcfe0d1e8a1787e1100f5597",
       "ee2f226d44ceb1bede9b968e3578848476cc8500728ec41fad66e8848fb59ea6",
       "7c34b38a2fb64ff69d231000c161bdfa8c826ca03cf906cf5129f6fabb9a3e12",
       "ea3069fcd7667a78e8dab830d9714128c1eb3071cd520fc8a8478425b1f45070",
       "9c60bf90f0affde98d4339dff36b9ddf34b6e45a870367341cc116fe35c1a43e",
       "a24f9b4157c79c723a8bd2f64bcaef03189961d5e974336fe7dd9afbbbcc2485",
       "33475b3fe2884df0c5ea010ad17fd85298911925edcf8b2b0d4c572fd0677bee",
       "91a542ab510d85115d5e6c39378af9d8f2f11def9c2600830e8cebf8b326825b",
       "12332da831a6f12dbb475c56c84128344f966bc706a46fe791c1c4fd01226eca",
       "44299dfb365aa3646f893947abbb547bff25e2cc2e7f26c84b25f3cf9adae5c8",
       "3610dc5694475be29bb15f22e0b2c7bb26f1d31f9871648fcf8c584cc0e8de00",
       "957925ed9c7e5529a2db0ff613f5d8192dde6781d589942da5e911746ce6afdc",
       "cc3d8df400bcc830162a6a4bc6cd9b64cbc132dd10cb66cbff5ef7a8277e08f8",
       "5a1c326486bf50fa29f51e2581251550046bd7d76a52f311d14f51b5717483c1",
       "56ada4470af70674f845a8288fabc62cc1879e0fb7baa9b1f6488dc9bbb471af",
       "c449312546988c0f371b093ead67ed1431ac2909c83523a208f14b7da4de3ade",
       "21478920d326238f71b17f1c554b28d47aecff48f7fe10e14f3c168d5c212ae4",
       "b6f3e5d51c7aefd6d33d2b6cf7f550df65c8735a04e134e0158468099c26711a",
       "d1cecdd028895033d59c368fa8f720c3c4f3c8085133fbc552d84c6415182ea3",
       "5aac96855b864d3944526457b88ec1f21a5924350592c32ac0fec985dfd0d357",
       "1cfce685625b8a9b07fd1473a3e53388ec062419d8d04852933e6753f0435277",
       "8bb797558ab94a46b10cc4c97393d0eda14669e8cea5bcf4c1c1241b31eb39ca",
       "bd32543ab537ae57419d1195d6eb0e9000e703902c11258b3299ff8d2d2e48cc",
       "1e837c712079f963f4712a0645269a395612000f1c902cc4e7cd0467c3cbce50",
       "3d6fb3bfa777ef59eca753d4c69053356a28cf8879d27d1eefcde2f1aba64cd4",
       "4a32e1bf82be1b4843576b82897563abe46bbbec9641d839469d323d3f250812",
       "1877d5e52d7cbb5c3b954e83bca66c2130b98b2bf5acf3208eed6946f47e3bb0",
       "268323fe924ae70588e170263f491dee0d8b46e76ca80d8d89fef72771f52e9c",
       "445e01a23dc982e2dc0ce93c6c64a009591b7d81e946d202eba6c025fa1e46fd",
       "3c7566dd86d028053f8335c014d6b1003255f4e74d07ddee6ac52b871b2cdb45",
       "eb56514c7ded44a08545decdb4220c52bef592c1e1b6b2ef3dfbe887880829b7",
       "72f9f6b483ea08e984a410c8b4f8ed015e7961efd65baf301068eb74b29f0609",
       "e983c2ddc663d1a1caf5953b299377cf1ca53545e0d0feaaa07b0d9ec30bbea7",
       "3ea8bdd4c6e4ee150c8c0954d7f3b4de7327ad79d2b08c161cf9f0be560dfcfb",
       "bd291bbae32933737c2f98b009b096ee74905db8f38725bdc6a6369ddc57a591",
       "54f363bc5ac4bf226c01c3f1af7a008456aecefdd51ea3cb648e35391586175b",
       "65e5fcdd23975cefae9935ff29e4a882fde5ec329f2a01532c606ee4b35d8cc2",
       "8e9f2fd4c866ec2c3f7a55785b68c87126ddb401e9028606309be577639766c9",
       "85edf4744104cd0d7dccb561fbddd9dfd467028bdd4d41e40214e50071615307",
       "71a3efcfae2aac36b4aaa2ee9384acaef7d04a08d4910386aa9444733c4de46d",
       "84d8658b891331f4df82e7702564385227d39771d0ee111f03ead18a5ccbded6",
       "74cf5c2284486ff2da28576fc06b2ffd93e61efafb6051b3f0a27136b987a456",
       "20b388c40115e205c3b293e4b17e942fb3c66c116067717a328aca2f5fd355fe",
       "771e88102a57e4161602b59eaf9217aa91aaddb6fe8edc3d9448a03b44580a49",
       "903fd9a995daa09d49cb8a372bdead1e86e065e4502da0e525e72027fea46f99",
       "cec4f4f34170eeeb4c47a866d9c480d022e0decf113b953831659e31575bdc72",
       "d94b955bb124bccd315b972a7208d4276d931679d378eafeaa0ac0f5b9a4f9d2",
       "2092be0d24f232b222967a5a73c4ed3e931aeb45d85330bafe4f6444c4ea6da2",
       "0bdc6b894da6ac6ce83c0ed50a746a1497d23e2516443d219d97af1e9da7a7bd",
       "93a165fd868b673acb76cbc307b8c3d799a2e1b544265328a1fd6028408109f3",
       "318a3a08df32d7a581fbbca12463ba1b8b1d113d2ebc4c338879a34b68056140",
       "196a413b69e02b7de825e54263965f94a808c85ceb0c176e3c610f9edcffbe67",
       "48700338741c8f39bb9519c4bb6112c94ac4fd1360866fa74c769d469b1b7704",
       "d77db9dee79c65f83893668859738227423d560edc2c9fdb7e66dce14b893c29",
       "ecfe7af3d99e8c069df0984724b303e9f516968a0aeb3c959875773ff4edf608",
       "ac9636bc7c841e2fd72ef822cefd6116623df355f4fcfae277a2f0cc247eeb16",
       "9f594cd5528ca34754a6e36bf43040585d689d514746abcec55f5f5ba0d9a83a",
       "6ad1eabaa0a6e7afc277ba6f0dedb6529e0b7e0c54fae5bf487be2837ea926d0",
       "3b12f74b58e59c90b23c912840b43e38dbe2dfdc194247ef566ea89ec33be404",
       "753b90dce865abebc19f027bd48c0572eb0946187106752b996522a4615a099e",
       "2f528dc6caf018cae12af501b0058356fa3f65c44266e415405916b98880e28c",
       "edd6928cfe08165bde5a708e31bd279989de586373eb6a975fd657af89cf373f",
       "72f4a80f1bcc5d1f729815020d4c988463a8365e3652366d45e5f9c7004d740a",
       "a910c72740a6d573855ee049b99dba3624a9914a4af9a5e1be0fc7dea764efb2",
       "3237c6513e177f086126341d68fce682f793ebd8b89eea2934a3b4bd60adf785",
       "e9baa0e09fbb11e0065a0e3074d86fd93b35bd8867ac10b47b5681d57ae6f3fa",
       "1463cf3e353596aad3e83fcd691aeb286d72d27197a982e9f852a563978a0d0a",
       "0a2fabf83e9591d07473045834695d511d94d763f4b5e9051edd1fa2422328f5",
       "bb41b5bf6bdccf5734f2cc6b55e5eeee8b07d55ed73c3af533c3d0ebce1ab270",
       "dbbfd445b618b9665640c88aa29f1c956d49df281de06a03d7c41b5f0fc0ab58",
       "5cd01f602602a9ed9d90ec9ecbd7a327d63f09786fa32a72a0d460103758b63f",
       "8b0ea0e1a63d16b54e48bab68d087f06d16bf4a59997353051fa3622bfb0cca7",
       "bf039f9c7a5e4da846d0c7114312876ec7a805f752db15afe70f039b4dade08a",
       "9ae90fdf9a313bb40f0af65367e366af587026f56c37f13ed22e7e10004eba97",
       "8c9c7df87727a9c065c2d0e23bebfc085db0649a2d4fabc218994c6f624e7bb9",
       "485888f8c43d090fa2c22b58fc5bf834a38dec78663b4cab4cfc19320da0a722",
       "9f24158d959232a460fde1005147a659e477792d518e9142c213bd6399bdbc15",
       "86d56b934e273f9af3fa4d60bc61905e88ef08d086827605419bd8a72a759c05",
       "3fbebd52f53cafe164fb5ca43743a5cc3a362c7979d7b5970f26980fe296ab5b",
       "e3330fdfd362a2d6cd4329e9f160c55aeb3bcdfe61e030d2707404cac4e95935",
       "3176be2620c41acf86cbd0aedc1b61313223a0c76594e46079c10259b45b1be9",
       "b207791f9844304369f1c86e2c3e68689eca7989fb16704b9b3461adfdf394fc",
       "8b6c9878aa5506340e3db6cac8afec3c90c9ca92c9e53d0329e09f266e2e3500",
       "901ec4147ad39f38babcf2c879c919dd1840d54788c42f85ef893b3f6fbb5564",
       "0fba95fa3d9eb7b5b301055a0cf6b852745b8d9485ca01a2ca27ee4a2658fa01",
       "e306fccc4a2433ae28e30f08e45969ca97684c255c7c52dbc5c5c40f87a2d5ff",
       "708d1f0c884d3b55f365a5fe8267c21dfeb3c0981e7b2df3d9dc1b7dfe6307ba",
       "56886cd13d924ac1d81997cf6578d2029868469d30d4e71893bace2bf4c64371",
       "027ef6484e2f62bcfc2fe2c3a3a3c3ebc424dd93bd30e003aebcf61b55c9f955",
       "5ae55dbd8f281c53f54eba8de83a2f011ea99f96b9ad949efd45731cf7dc2e02",
       "45640f062209863ccbb5b3ae30bb8849948eb9874423dab52234df2233d6e089",
       "e380d4e12fae00c443363ced6442d2bde4a82458d923ee4b1acdd745b451e0c5",
       "f33d5cdb844199692cce400180a9842fc645ba89d28a32ada828c15b88639c82",
       "6c90a987d8c299c3b7ea019e8123e74e27f3730773471224bcda6d5ed9e14e9e",
       "82772fdd0d2fb904b97aabc8887d84a3db7d8f3a1a7bd48f89b94827f64eb617",
       "c3919de56d373cd216f025b4c0f353b8547ed10cdeff7ed598fa58f8aec2f710",
       "3728ccdcd9fa6d36b804c8dfcd17babfb71128e3c58c43d841e5b2887e801c2f",
       "b7b61a007d81247f9a068032c097018cbdef6e8372e571b522811df2fa4d4d0b",
       "a991dd447e632439238dbc651628df199ead5b240e56950175027b42433f7877",
       "5800b137a8a7d28d93ecfa2a12883e15beea534c79e0775b1cf3129c2cd66fa5",
       "5e4022565425132ba1f65c756e744a4881715994e25ce1a49c3f1c17e49f16c6",
       "fadb08bd3eccc6bdfcbb4518772a5590f5ca3fe5a8c4d9686b688674942ac3aa",
       "a9a9fa36c361fdd333d23fa13c29f4895a2cbc460d6cffa8cbe2766763056590",
       "6e9029115c4ed08ed6e0ac4df1c58895df3a7722396f61ec6dd79d7cc1ad389d",
       "588d01f4c1de2a844dbd440638aa8bfdcdc45c65f6366e31e9d6d9c06f18b73f",
       "5623ba34d8f607a8a1243be9b61f65f916131a0072a3899fa6e6d394feee2875",
       "99f8b6623da6a748a7d7b9fac91e028a94a2926558d4efa71569a4124d9535e4",
       "3b8e738d858dee947722f3077474330c22727bb0a3ef76ee494eb096420f6b53",
       "7eac00b9f1dbbdf8ba583fb914e0d5b9b28407d987aa9f1c0a72e6c83a659247",
       "c0d535fa6b1eb7195fdbc8f3ea34038c6bb8467edbb11f8dac41646a4f9ebdcd",
       "b707147315ebb1f0582189e31bee44106432485e640318c2429b9d61e29631bc",
       "32eeed1f92e12f9b56e9d883a29ed79b52659aa18b6d05dae1f81b81ec213f85",
       "a84790f5421ab676c27ffdcf334c39beb56d2ddb9d7bcf1334b63efed90946d4",
       "05f6277325e297b07084991c407852ec60669d02981aa5413d51a8d29da056a3",
       "f7d2eaf77c5cc924b6c79da8e0dea79bca1802bc8c8fe69d3f589560b9959847",
       "c527bd46d51cd08b3d12a3fc8c0227da1c7fbe3b8a2fda9646c8366e784300c5",
       "d1a70079f96b8f8498e87b3f6adb08c0f4764b7447595495c9efdc33cb900388",
       "1898dd94a5703e8225366a2c2ce13e6a6df7c86ed46491e9b0258ffe00140945",
       "4c2f6140edafa489b124259e5890b5e1b7db8b8b54cc962f9db1082391ea4cdd",
       "3d74096235a923890d493d4cdd856b3e883f77ca0178e3cff7cff1535caa578d",
       "e24737f342192ec6f179f0a2d1938f3cee0917ff2474003b400e0b0add8f479f",
       "d35af5d8d2c9ba03a4a968227c410d8d4c7ea7fbd8f414c748ee5226a509f123",
       "a4c8a3644d8f80802763a10a89b4f1db2f81ff453a03ce91d5f20fa7d2966b55",
       "f275fde61bec07692185a4c02d021ccb855e5f1977698644ed6dc22a2d9d092b",
       "36e0b7980368057b048bbf0f421553396a914169e0576b01fd2cd739d66d3cf4",
       "2952c1d5f4cc1d6c3823888798ba0def61231124b0220fb68710e9348f8e3ea1",
       "36ebe5fd20fb54439bc2721199c60b8206c91bacc65082785980fa2e9d0e3483",
       "613b9bd774d3aab6d230d9307baae488036d9a870eb5d49f7997f0c5cfd1f887",
       "ebe5b598e1b9118ca19955776bdd94f49cff14d52f02d7ad4dceb6ff5da249ce",
       "9dc82169e99b168b9bc7f91e3733f6e8a6645088159126d2ba7eceefd630a842",
       "b1401ea0118bf224857dccc905190af20f9529c371a7e5e5e173267f687fe643",
       "c755b108cbef76eb39a38c8749555df573b03df8a44c94245191906a85e910e8",
       "e61912cc8f6d452e69063007ecbb936a4cf93724884a45f6ddddf2f6eef7729a",
       "a14260fa484a23c9cc80851d8ce65615c320103932b4fdd60824158fb1838851",
       "8069a9793b8b470f4610c453353a572f95e94fb8d2c43ac799958b99d677837d",
       "741fda0c68803a610b1e78067761203c20876914f2c6953f8a54c699fd4ae7d0",
       "e484b84503da5e832cc0d4793330c94d7324570b74903ac1bef0dda5be4f7e2a",
       "8809571ac6d4ad856c5232d84d83347523c567f9f42be6aa224c6077897458ad",
       "daf26a21b9241ab8895ae00e6d35cb9a7c4c0be07317662d15019e3eaa792a41",
       "45f53da679a444d8062085a39ae5ce7bef58c57178d35baa58c6fef2bbeb4d51",
       "894976ded9237a4738e554be4549d35bfe0faea2ae2edff9d292bd721214051a",
       "13b14b4372154a6e2e47805bd39eb0d4ec660cfa601ef67512d2d57af358f921",
       "a967f51d7cb9fa358e6aa8f57023831439d5eb088669ca1fbf0626b014a66391",
       "3a3edf3e9f423e7a0fd54a4020bc076b0cb11f7fcf5ad2ac9e2b4f7d926fd326",
       "e9156a809ec764667f42847116abd2c153866c37729a1bebf71f01dae92590ec",
       "ec07d0264b785868732c6aa77a17c99e1bbd29fcc37ca339a7800d3188f900a2",
       "7faed10a4fd95b7a598868d872f643c96782d2bfa8135147880c37631e66e039",
       "09cf08718560b575fa5bb9d8c0916e1e2ecc8e82a1be6a9d11cc7ec3f43676a9",
       "fd4132715bb37a5efc39e157fa5956a55825c91f4163a3eff7f713d3bb947a71",
       "1a586bb1bdc8443b0f5ae44d3ce90ae322f0fb90d2ddc71fd6356af46595acc1",
       "745845566070bb203a64787b8369892d3087001b3831e1d8dcf7deb231ce9971",
       "bf0600d49ed03b4d3557f177fdd448fbd6fc08c2e3cfa85add57d2a639b95afb",
       "666c284fee6f8935114e33d076e14e40b1b574238bf41b62c944e9a32deeeeec",
       "007e6ec218362d7e7c75c42f73bd68a10de2b65636816bb6b7010d767815cdd4",
       "ed9deeb330c4610eaeb3471bb765f950009017f95fe84e5b8ac5deeed4676910",
       "b8d11bf85e602450d00e5f856b2f5c6c4559d47b09e6d230b70f3860b419628b",
       "c54c279e2570c7f82123dd54c94c3f332253537cc9815b47a680a246407454da",
       "e71429f30f96728878246351309c934edd4a27cde43455aa52cd6cd34c88a6bc",
       "0f0dbd51a121bf428a8d6ce6ebf8070dd31f8d83dd45436bc34b8aaa24996eee",
       "7250b6fde64cd21d72f5e841f05d938556709986d5673eee21fb8d05ee0f5f2b",
       "e189dbc18184a37a7ef75882b236432f12d8905763fb3462775e8745ee00b785",
       "19305bac32aba1990711c99d2840546159e2322a9402f3a5503918e2716e3fd2",
       "de6d540db68cfe7c882861eabcb9ce75b846e03170246acfc4fa16b3bf2a5fe4",
       "1fd5ec9171c65f7dcbb60195234324d78079162779a7fce3f460c3c068a22feb",
       "2880b537bcd2a7bad30261429ea8a100030d90411428c2beba443b0163ba6707",
       "8db546b06c8539746ca13dc7d3a40a5d55f67198db47d6182cf8662108ffe68e",
       "efbbd00bfe0b0047acef27aff03bd7c9b3b9e09aa7338f2fc13d4d4a29eb3683",
       "e4bd4bfe74db4bd98289f09593218553e797b9f63e605e2657038d44f31e1f3f",
       "75d2e5c0957f42c599fda9304adb971f320fc18c5b20af06f484ed5a16360642",
       "7642bda01df8adf32134382c40812f613c602f60629b36a40d8be956e9dce35c",
       "547b9b7095e948077dada594d1b4bac7155c73859f12634c4bd0b8b891aacce5",
       "417fb39df8e1dbf18f3274967d3d75541b8762211f7c07961748d89da80e109e",
       "061f875e8c5e079674dee52e01133cff2bcece29208a58e1ff7ab5573b74cfb3",
       "6e7b0f2440ab238c9432f315cbfd9d038ab2c6f07958b0ccf60c1653dd9ba82a",
       "92281769c86cf0687b7f067b3fe30d991e0a90a09c08ec5a85129c69c820f96d",
       "1e6d70acda9fe6c0d0b9d639f4779c06bba57ba70bf68c2693fa82b22066241e",
       "29f8723e61e8fa685af5b75c8fbb67bda9c19fd4e1cdb8ff27229b4af16c5ce6",
       "5ca87d4a14fa43fc8360ed49b8e2753920e9ea0384e05dd534e9060e175a8c04",
       "8628b69928eb6d9fc19add2843a43f169646ff715f3fa1d889c48e33f4d2f4da",
       "a72cbfd6e86d52fecd6c20f74b396e36b7a574ac7b1ee24085975432c5ec0ac4",
       "4d195a0db200a23ca85f8547a6d90a891c56425a3ca99197fcff6fa67ab058c1",
       "0f8cc6f2251bf9fefe14dbdae9ab077d5e25a796264e2f12b85d2becb1bb80c9",
       "71345e1d1405e5ff075403c447e0981dfeb4b204b26d3b711ec4b709245e2228",
       "50d6021d8db5c90f50afc44ad0f3c95add653923eac418d7e250721b65fcc2ab",
       "1b231a0f485d46548969a176c8991e36b19f4a00af538ca843f13667444221fc",
       "6620e67d7fcef83d3421238c096da5d66f165d23d4948ef65d0aac5c55524581",
       "72aa61da100e5b91bd63926ee2768d71e3ae54f9efb79675f4b3f7fbe8443723",
       "cbeb6edaa1ee51d2c601d8cb8878443aab465e9dc21e671e5d56a35b91078ac7",
       "e3c3bf917d69beec4008983508801f5ab0dbbdb8b8e0ba13753f9bf03d929a8a",
       "246de896727ba46d81f921447d669838d35d138faf2409452adf0e7b3643829a",
       "7c589cceb386f0cf84ca09e40d16b24ce359b5d12793ac558a8cb6b91be8abee",
       "6ecdc93474cff49564963003c3a02edf0fc113a7149f6d46d58af942ebc46c90",
       "72e5f9f5aca77053a3591b7452cd78e27862c5129c7bca143574e359fcf05370",
       "c347f7638418ef19f63c7951150b5938cdcb01a71dc969a5a1e7af9bed03bce9",
       "cc6d9080622417a330e1039c219347d7a88b7b5e10d0ee0d5c7c71485e86432c",
       "62f82297f5be1d59f4129e5dcea59e501e1cfbf9a322bd061b89b6585114b5e0",
       "67e53a169dd83ee8d4f6814f3b1683ecf1b3164426a6a17a0e856d6ed42dc6d4",
       "1ee0733ab5878975b60b944b46951a26e2e860ffae8500a7062000c895bcb8c1",
       "17d9c4ce360fc5530dbb47712fe2cfaa0fec6de538404154488714b0c8fd26f6",
       "6a7486970294f1dab9e8f8f58c7768b9e2d6e54a7c3f2c5a2bbc45d0712148ea",
       "cbcf9bbc15edd3998686ea16104f455f7d0a8bb0e0185613173508c205030fba",
       "b1cc1d8eb8c7b976c32652f1de0209af3d1205a7129242408f36f5a1c98f40c9",
       "40c2b9df751f023930bb8c14cb3529b76e66c445631c47bea40964536259e7b6",
       "af3e5edba85709e8f7bd5ef1fbb348fd0aaf147ceed7f45d339bf791301a9a5d",
       "8ddd426203ebbda2446c8aa89adb390d89e55e13e14cf58e6fe245629f1b8755",
       "28ede0dac47251959e7c3381dcf4d516bada8cb0e818535f39ad043c395963da",
       "b2a75152a82c242fc70869342cac366c00cefaf4f868b86ba82e3d5fb364f982",
       "2f14d2f4971d2e3c7f2f52107f54802e20affc1ec883490da0f9a528b4e8123a",
       "0cda461ff6b90138c940202f347d2f6481050d28fb35cfb6c6ee346a81fcb8c1",
       "7e6eee64ab32f6a0d6622b517c521251a7a37ea1d82d6f1f08fe98017b435d3e",
       "fdbddbb7c7c96626d300a04e1031e490966f1d4fd04cba85fa7736fd1a8cf072",
       "7f6cb6b74a88b8e524e92600f5394bab774afdb713a8dc9f161a57caa5a27ea5",
       "ef06213794cc1e63095fcab438a39b027b87d17902459b2a565fe37834228113",
       "915d0ac48fbd993a0f7f01dc0677d6854879a099f202e412599581891bf21a20",
       "9a376bb9d22211e2a49007e397fb60ddbeea10102608e06bc09336fbb65ca01e",
       "65a70044de5bd5402d34bce7845ff8d036d3ed462d0703da009bd06d776d9d1a",
       "f1cc2f36ada82f218f559bed2f5db37670ee499ae590904df37f7f93075f8a02",
       "75251a4f73bce10b0d9acca9375c4686a06ce90483a1939d3b8f58590fc3f3ce",
       "dbcb1331350cb136bb6d2c9fecc364e8eef76f030075daa60c2b842ef0b728cb",
       "4a982dc41280a0409168749a713f0f3572e93a607a273dc203aec4e213e7c088",
       "d9044d4497b8564745bf61e2d4059b29ca43a96a612719db08d3868ff203c309",
       "4e675bd210dcb01f755873b61fc8cc46664b0af97b0cc56320cf51ed3208f292",
       "7738f4669bfacf8712e1af11d6f7d03cdf1ba570e3e89b93ae751cdba5abdcef",
       "30d03f55f3f26e154d1d2cd53e5a8c72300c23e267fff769637d9fc5dc2efff6",
       "78e134b947a15c85e86457bfc1540b48514be2d05fb8d02bf9bfd05bb73b6199",
       "60db95c7a1bc49c10b054d01618044c0d4c216a7a8d1bbe84ac01b72395c3c99",
       "189f0abae1b8a265c69c9c6f228007888e056f0e689df5e3a9b7693e69630052",
       "b685a2db78e44ad026dc95d48ee38c010182a5f4bf9c4aca38f039020b067428",
       "bb24d4e1d936ee379abf86c2c1629ca685a21d259ca4fdf14f004bc95e3c8f7d",
       "cd6e1c54a1cd19ada64909a5b8162c4caf3ca4068b89750c337b2a3c100871db",
       "1ab91b99e65de668e1864f67e6cf4b00f92bdcc1354c85672ab522032f6265b2",
       "cf55720d1fb71ec733108f656055a3bd49767498fdb24402eda76f2792c409cb",
       "065e981edf42c465a90f9de343e90f3cd0adab6b6aab80d93b5334f68469cfd9",
       "14f837641f36691b4fa026b7733d831060ac7775e09672f3eb8432cb3e408c5e",
       "bb6d5f16a367e84bdff31a9f89934b1fdb4e6c60a16ca4650f4a8ea0fba792f4",
       "24647c37bef5a806425b3f2df3e199b2a0552ae8b21467fa60fad97ce3d916f0",
       "837cf09531b4fb3e41eff36511fb2b9b6a56e981662287f6053826d9bca04779",
       "2bd0fe490596abc54e0af044e922ceea4f23dd8458340fdf94dcac2a6f974fd0",
       "bfbc1b05da239d19a0ee9ed0126c0a1e6676016f32e08054b2d513ccc5a2c0d3",
       "e0b538435337e91cd955af41f8b520376c09806a0c337c243d964fabcc91b69a",
       "ed4889c87ab83b790fcae522223dca394d59863ab85c411b345afe31e139a7a6",
       "eb37d20041f45a5d1802f4bf918e5b9deb2d38d10073d735416547400ecb3f09",
       "8aeb81236290c9db74a3d13b6241672057a923378c0c5cad90e61ecdfac31cf0",
       "59b4773cf3edde12ddcc9c0706b76c4cf4142dba297efc70433bc65a9539f1e7",
       "221e577cdaaff58fce6776b94f51985f4b99f97706c050adecd6bec377ebbb86",
       "400dd666b5a7e36e32181fd7c592988dcc435cef83f1ba8dd945d105ada49430",
       "e312fea916377fa0df19b55ea0fd79e02284e4fa1af73804a0f77c6c9307d219",
       "093f35a596086a7851fc4cc24288bdfad24d947e13c7483c046df5c30786fb95",
       "1f2e7f06a7fe16d46569be210e1c03e55c543a0d259a86a32e88cc480b9f9613",
       "cb8589b0937044dc4ae98eb31858dcc37f46fe110a39e7fa4c4129fd1d971cd4",
       "60d8faafd9dc1b7b452f40baf8a59e7e9b3bacf89189c5410a72a9abc49689a8",
       "95722c916a90750af4bd9169dfd3ef3b28ad67a7a86e7b6599cad9d498d89ac0",
       "5cbc83ec26c8a60219787d6548b373fa30f2cd11bfbb05cd9f48ae8f19a7e8f2",
       "23f6204742d865961fcb11680b340ba4a0243245d77431b457c7befd5be8d2e8",
       "22df9c7ecd2f535d1146c8fb8cab5def2554e7ff4a317304bc1169a4be5fa8ab",
       "74e18afad91baebc80ad84beaa41c6e0278019bb2479745c74dcaa18715d0ce3",
       "1d8b81a64a8f60e6c27a303513b4c593840411441c9e49a6847fb95e91789b9e",
       "901acbe88300b517bab06b836e7227921d2a9ffa202f034790b4291de5a5bccf",
       "9b152e9dba5819519e35e884485688a553b905879c833355f6e77d68da367892",
       "806d38a3338d1adec4a265473eec7fc248e67763399db9d841d0f2b1bf34157a",
       "281d6509b3c812c1c42b9d016f3f16f7a407509a701d8dddfd5a1f64b1efc624",
       "b0f9a116aaeb6ea77b39a906f0cbd48386dec8a02aa9e20cbd2ddfb2f4d43095",
       "25effc5b3c0eecb577e74946da5853d148451ad8c1eae7e6e49a7493fb59d9de",
       "f548f93943035ce05822e595cdfa651c02e398b0f95c824014b350d26e6de840",
       "a466f137031ab43c3b6c5b737886fb9421b7f160d03711f6317bbb2377389003",
       "8a9e7713cb27495537aeed80b1ef9a5309c533a6e4c35c04b4935caafee2f987",
       "b9f0f511283223bb3d66832bea933a13b89ce7165e7490f208d61f4d8146e713",
       "f1fa2665290938e56a894508cdf4835a5f68d1025e15063389d64a51785dda98",
       "9eb800025744e0452800fc75ba49df6c9c01abfec1944fecbd176341fcfad7fc",
       "ef8b3b4685ea258220d17a610351ef2ba9e61c76a86b3739b528513e47b48b7a",
       "de011993df15a1738c15744e52d2f1f2e9ac415b037e090343046bc359d80f64",
       "e5d7c522cf9e3feb2ff3c993c471fe19133b12c0e5de5cb92e7f5c3bf74bfaf5",
       "f012299c1589a8b0f914baefb970c0b4e49614a8ce8c27796ea0eaf06cae6f6e",
       "c9c0cf2a0c9d90cacf831e5eaa00b1bb74ba4b220af5c1a0da9b2fae3f79a6a0",
       "119c6b8aea37a0e438d491931bd7d0cf27cbcfaba5cce90952d5ab08e6a8b152",
       "0e000fae879df798520ed007313ac1bd2ff1168ddf45449a3ce3f6cb94248396",
       "f7354da757fd61e5cafb55d521101367c2f62cb7b7c784674732f7c93efa1a02",
       "c9b497b1a1a2469833961667b2f85b8da35e645d3acefec7e77844a9ac2c84ae",
       "ccabfcce4d104cd47a09aa0647d9dfb3a426b9b3545516a2e3aa720b526946de",
       "1766fc8b8b33093f61c8279753b0ee7138d0f0b719cf01561f36ee8898af93b9",
       "a29ed81bfe8026726c79555abcfe0a93bfe37b0fdc0de32fd30bc2f14bcb6c24",
       "cddf6fed1f4243ae118544467a2778ca708fda1e756abf85a36bd158b8a7919f",
       "09aafe037600fbe4a89a54322af840cd8233aef89d4bfe0e66488db33334d103",
       "de19d4ddea2018173b1eb17be17c305b5aa148f498992d64e7f4c423d22c756a",
       "b0fe4255bc381ceafddd1be9e12113ee6ae31b9a249733a718e9ef2795e521cb",
       "b3d04f5f73392557ceca468c0c727686e27c87606c740345bd6ff7285037dc74",
       "13d8558e0770f4e72aebd7b5a37bfba85914b1dcf437e8418b1fcccbb211f172",
       "9f7fe5e82a4a779664ca7a6136b4c3903a8e93032ea9415f7395044a88f3d23e",
       "482e42169f31dd5c2084bb91724ec71caf91d57acd715d464b544dbbee1f9694",
       "97414b8e59eaae159d2b491a0e2aab07a7c1e46343719a867b4bbdc82fa993e7",
       "c83b9dcc39afec5f5262cb8638f29305bfcce66e28cdadb2637a20c309e66d21",
       "cbdc5448a28f528bcc4f6b7e524bc8383e054ac0057faed51c057b79243bf344",
       "50f1473bc651e674b10a0224b3013db93ba2f6854c18db8e8e31acc8935d0551",
       "4b0b3a0e67fe39e48ddad079a23f03a0711de366301ff27c27eca164cba69566",
       "a8a79657556ae9f678399c9455b904cd3fa8ee642b2bb2e266c5bdac17db0e4e",
       "ece65ed3fd819fce3081572ebacd18e35f432446d09050129d5edc7d5c35901b",
       "04cff33f02ea4514a8afb7126b124c0185855011192f2fe0b5487d1c2ea9c0c5",
       "b33834a9f6730b984130d9655b2c2dc7a19f967f62976322d094c7b25a6954ef",
       "4f803f5d14ef2320081cc431f5cbfc33de78f318bf7924db4081662d78cde240",
       "31a85bccf7c2aae4bfef9c6da17e0a31999b015d86c936262784417753029fc0",
       "74b1e7059f03c79aa93fb8ab473c4388653cd5c870256631759785df31c2a3d2",
       "64b6aa558e0aa4f17277661cd56a59efa25c93c3dc04ffe0ddc237af8e0e865d",
       "51934ead9063902887ab09c8feebf7865557d6204888f0f84867f70bad2143b9",
       "f74b3cc0900752288a1d430bbc906093c5588fbf3e77fb954aa06d8264efb29f",
       "7620876244121f32a6ab2633ea159b642157876926819b97e44365d29504d596",
       "46b680295e7bafafc90136486630189f881c56ff17869cdadec1fc3478ca14c7",
       "8390104b73ab401af161585bec9c55b4eb19022db662fd75e9b03f174feab2b1",
       "9380228bce3f3774ed606c4164e243a84150288e5c90e9cb137063a291d87def",
       "8afde54ac75c05c5467d4b0cfde01e31b3efbc60ee133e3d14583ab7e3cea5ab",
       "e2a79149a1f4d6dfc6482f4c8b37c3782182bb932813f93521b812d586aa56f1",
       "4a866b9cd4afb0031755e776bdc5c9d8942d3f7fc870f79630a1a19e7dfb26d2",
       "b160aa8d2c96df2d71066c959d4d0ed5b3835fd34c2667a53620756317946734",
       "0ebc66b2fd47f21091a6d7fabeee0e036a5680db867530d213f87286a9361172",
       "7d84b1b06a373bb67b04de759e462bd29f08181a6dba1f7f9e2ce4114b20723a",
       "9261d519d987e61ed0e0e3f8c2a1a374233edaeab2409a1b1da197db44b476cb",
       "298d7905ae54d1405c5184078f1cbec6af631dc3141561e9f861bd5c8805b7d2",
       "d5dc6760b93b0be7200994f7cc7830c263642423946889019480b8cfe8705d63",
       "c4668c8b08c37060089df2b692ee4658266e124842579a6ff65c61abdec2eaad",
       "138a811033251b35cb4a5350319d6a27576f5084ce59b0105c77dfdcd71f54b1",
       "0a596b230fa5b2913853dc19798fb3a014204ddc2d3cff284a2d75e34a953dbc",
       "1f3bea7732e7603c2083bfed733d6ee1c40d8ceb795a7065742119f3e91bdcd7",
       "cced77591a8e47548522ce99808d2a4dfb2fde0cca57bbf6a80ac3ecbe11d001",
       "20d062cd4fac5f9ed2bb09f18de4314e3aa894d39f563281bac801f630fb784d",
       "5b3ebc4b85ca30c0b178b166690374ed717da6cdfaacc479a9266d58886e7f6d",
       "f6011b9b3f307b675a2401b1bbf50a7237c7ced1c0c98686b03e1444b8954e84",
       "d2544b419ba2e4838443953c3a9cd566c58447e0ce675f449432c0178254ddb3",
       "fe92b75b4e9066508521e8f7e9d06499ea203f0cd6e1f8109b4c4d6cb3f20683",
       "2d513a6652db6af7b63d14020e8aa102dbe650c927c38b98395e3bd6ce20f8af",
       "f81b656bd468e686944ddb42b5881ab891a54250d28b5abbc05dea26a8c7aa5c",
       "d44aa8d757dbf0199191c7132c75c5338c9b07652e69de525c2c9042e880b869",
       "445c8afa4a031f0e160a8321c8a5eac60a483beb74a80243094278ed9343e13a",
       "90e65b6862a896352e19cee42e5d1fbd55616f12d4f117ab0de4421392aa4e94",
       "ab5a879f4edd3a99d50d3078e4692edac6d06cb344b413dae685f899fcdaa9ac",
       "099f0bb35ca1bfb48ced554592298ec2e05801617a5aefd4500c67b83408ca15",
       "494d56d218f8377e8b23ae56fd243022b9c74f3a12cc53dfa96aadf82cb5affa",
       "70e444f98c473ecf79814892b3e31a4e1f3670a82f2218a62b982252876d0212",
       "5a0f64ff03c128dd46900e2ad5533939ea43f28870b5f3ba89b13ade97168d73",
       "6b0a1bfacacdfb6c1579e25441c6a7c44b3a3be276784d6687f6731eb0900a89",
       "f77c8907c86e51df91b6adf03213659e8d74bd447c6ac91dae9fec4364c7400c",
       "6fac59330d951ebda6015d741475fd3deade6380fb971178570001db30cf208f",
       "771b091c360356032ef942b0b6f479e9595dc42dcae7fca534fcfd7a102dc2c2",
       "6dd5753b5457c489e9cd00c5a53b339276fcb1c63225e4345d68449306579769",
       "458217bc6e9404e4421bbbcc65dd2489166e66527bf3df28748267dfd73774cc",
       "77923ffe7b649ba18d6e2120cb26a5a8e253b274b283303b7386a1fe07536bfb",
       "2d7b0959fa55e96068be1f1759d8110c5d96007d3860d7aac55259f63be11266",
       "8044cdedcd2df23453cbc8011be184859bab89f46577cadd48e6199d163d724e",
       "743f3bedbda5268481bd5004cab93efa012e067fdd62089de9cfddf39fd6043a",
       "70a3371f4d1b07ffc769c9be0c053e069873ebeb934c3a5779aa64a4db4c5efe",
       "974742091d23bf1243d358b1dcab3eeec46dcbf7247f874bbe84bb98e3322e62",
       "8830b3986837812dbac085637472d714b9f54a07270c70ebeb108a01a812f61b",
       "91a266470ea3f18e0b2b9f75e6037471447b9c53e44d312f72d6bbfe12f32dc4",
       "fcc68eb8eb41088ffed58cf02c6cd5cc85fac8b306498ce13dca09116425cd9b",
       "6291e246573d79a89429e91f5c87ac2a32273183374a93187864052adcafedbf",
       "f1560e7da866e4ab76c03de862a48ec3f65dc45e4e3e3447688262bc5e915c4e",
       "e3041e5fccb49e4c0f2273c581e65e9169425a7d8370b6be4785529be8a73125",
       "05f58a7deec2dc69b19b7a05771f7405e3689f38dd343bfa8d9bf175e3f019ab",
       "4239cd8d9d8eace7eded35207467aeb1da716221fb289a9505dae311f397f26c",
       "fa5017603a33224e69fd28f7471d3eee9defbf0196b136fa8a281f1d42435f02",
       "c7702b360b2b840fc750bb586ec57595ee0671e4a8dcc7f76469682a4f269835",
       "32f414fca66828692b15439fa0fe043fcaa149acd0f7ad94c7af9b818d208917",
       "236e01a035e49b434385e894b98cbb2d3f69209a56770e5ef855ed1b19e43b10",
       "9f4db06c7e4b2314552c357eceb92e6d318c7c84f287927a90bd61dea1ed7f70",
       "d69dd45e9e282468ffe50cb33951080d5ee62e40ad15df595228c8178483f636",
       "f2f0cd1b0cc397c5160cd72f1bdefc742fdc4bb7f3fe4586cf3caee4443dea62",
       "27c4c07b11ac771ee05dacdbe9efcb00e08e8c04b771b416deca12888ecde272",
       "f873c0a880942d24b0d90b84ec27e6adc9e84d9817867c5f1bba65a1e0fa88c1",
       "5b15bfeeb14609c4035c4baad8945c8519991ea47429396443b6a305c1dbc2b8",
       "cedba5e95c8e243ab31198b5480b8d94f7bacc6241702c7f9dafcd00f0145e29",
       "5b90bd75aed0e5d0d607e2beb59db0c3e82b8c089c7da13c12a25a29d531b57a",
       "449ab46f661034edf2e28c60a0a9a0db36c0976e5452727a5d2ef75b4a465770",
       "630e082f6baf6745a9f78f4b601c43f24c45bcb3e98dd1b99d1212dd46c44012",
       "245ad3f257706d1c806448e9dfff6edd7d0f30e6f0f1d53373c74ece0367090c",
       "282661803bca0ee455acf4d82f97af5576a54f0d11f2bc11ef310adb93703cfc",
       "b2597c4cb64b50e2138894d39f3982623009b85a8df68e976084448f3ba7ad7f",
       "c34f783da03c24c8eeaec591f88e591285b3ae3cad79785cc578d66470c4026c",
       "4343c78efb4f68befd374bbd6e346db8a30169402c3b873bb42771fd24b54b09",
       "aaa105fed27129c49768fda67ffd7a100917343de8b2ac77b61effb9ce4ea28a",
       "d51b16ee22bccabda7796fb2e93d7ecedba69cb8b94e28d4562eab87760586f7",
       "164f15d78c2a23851cd6b026e19dfd0c27c857dcab0ac3854e92d656a54f5fd3",
       "dbe8a333359bdd40570acb20f92a4b77cf7ebe1effcf55068fd4ebcbea3f58b8",
       "2a6f0a8f89e268462cf36d459f7821e865f952f4bc59a7a2dba79a17fd93029a",
       "bc8d9c81afb8f5de417fe338d40229abb9e625f37c8c1b55fa8a76a99b01422c",
       "33fc245dfe1f2536602867272282a8aca0ba696db3b0ba190ea73f95d0023093",
       "b590cd1336ceeafa6b3d992143406337796c3bd975a3747a57d00977e458007d",
       "3d89760aa62154943b8fad75ecf6c3a565ed715bde8144640802bfd421489a75",
       "8419635eefa1609f26ab6a93684f1e75adff3193370335fc5696505469efae4c",
       "fc628f2145ab89bb289d9b857cc3b7a28ebc892662e0c7f2e18a1291110f45ba",
       "c12838c3d18cd0b8cdec3de49648db550b6f5998c46d8f71fc00114ea16ff947",
       "2ef563e8c7f45d1705b7c9ca841cadcb0653b562e55d29d19ac355d408c80f15",
       "27eeeca4855f7ddc2f4972b52561f24cc2ff52bd2eed664ce8211c1ee9d1925a",
       "8384455aed1e400498301200fc29e0eea6dcac2d85bf7accd0e77b8c2a0bc92d",
       "543456136ed737d25b66417cccd908e01163d28f9aebe9fbb269fcf3a86cb117",
       "b0747e68497aeb5648da6924e1a59180f4f550b2207a75dec9efb8a26ed29b67",
       "ae2ba124b0318923425b59dd3a954e0dea86c54a79b1b114022f92485a7a5ba2",
       "9cda5b514221367fb0587ab23adb5ceb1986e1bc6a0c0aa58d3f8e1d2ceed0a5",
       "28176b646784f7f3b0d87c05300a3f01cb0dd6489e37297f8c314b0e3e05eefe",
       "599e896a7300e9e373bf66fae403a237fc16532aa163d86ff16f2fbabd49a8b8",
       "fc4db4efe26b34fc5d3717c00633e467f9ac84bd9ad2e4defadd8274be8d2fdf",
       "1be10f09c94b6e9cd40dc6b2301a6608410cb0cfd343fa964030256e94cecb07",
       "beb4f12e051eb625c648e97751200655f2f8e4eee31c15637499bca063b1970b",
       "3f1a9f29cdb1c3e1e85d56f200d462787d9153ec3623b43dc6d7f69a54f1f039",
       "34861aeeb8266ba4b75a680bfd9414173d10e79843d0ea9a2aabb70a37d62e81",
       "5ba3b6e76b4d8883ce8b0abb785b8089a861e045f696cee3399d29dfa668ef52",
       "5629510399cbd70274a2e4787b284dc549719e5895c842a143dd805371390baf",
       "6216d6b6c4ede3f129132fda4b0b556d29d20346cd0b595daf6f871b5a777728",
       "945bf4be79a908a55b432436b8743bf7f3a1e754ab253b9573a0226baf27c5aa",
       "50e30b6a422d345f0276004f6e4260d1fe05195506de577da6d7fb0a92135047",
       "8914ab8dc045ac64e33b83be319cf560cba012750623ddd0ce3ca105167b2720",
       "4d6f5cca90a1e1ab682558455952c43f2501716aa02239e4072028f3816b054c",
       "69db63147dc98a3fed76f140edde9e827462f64387321530483b18fb885f82a1",
       "c4ab64a224db26a50a8a95496e0dbd623306ac2de9f2b9cce3f14650ec4843ed",
       "d3a99a4a5bf4fa3deb1841d0ec633639eaa3411137e35c705e8c03593e804271",
       "54cc6b6507fc17b9469a94d1b988c9be91d9c419f986731c82a4789ece02a194",
       "542e2432e46360d25548174826c6c0c2b7865174b6163aa0c2841484241d9230",
       "2681e0452b88bbee12bf76b7edb111168edd0f345210e118bf1660cb659fa86d",
       "4854c5d3867235791b91fc68a871d250e7b469c31a78a9fac3c55c7971dbf1ac",
       "b9e8e4944794de135e94987ed0cbd7bbbaba564b940c565dd68a7a6ea8c5c6cc",
       "e72b67fa16703b47aa7d8f2fb88ca71a76431f7d3475a4679d07b59ced1e7302",
       "c3c19aa7fafff590555fb9459c849007944eaf94ccb7747330ee3917e2d6c11c",
       "2e00da1a99a96e0f709defa9f792d735923ebcefeebdd417fc5c91fc75f46709",
       "7f171d59f51048a1b533ef1f0409e9250820ccb81f5bc953e553413fc17e7a79",
       "1613de25e87edc60aae56542a2b4da6beb631171996ab46aa9634c49ef94222c",
       "a8941322c5ac2e9e1644cce9acadb95f973f14d43981ed2a278336f4e4781a89",
       "cabfff86fc638ae3c2a4c2f692dc742168aced01cf4d80bdf2e6061312346609",
       "a96d61d166500eb5e7c66c01f714977ffe0203d9cd1a0ac68ca60f6cb0ffdb84",
       "5bdb6ce036b038302f8543ade169437b5589e7f3b28a5852ec38592ebcfcf8c0",
       "b57c5416b2973ba1facc814846d7988600030884ae7ed039f3a5450c247d5d2b",
       "520db8aa5d148dc938789f51dcf993061bbb0e1207a3d8e91cbcb4bacfc94ee8",
       "0175998c152b83f96afc99606726c47cf5a343db2da90464a84c61a2384c23e5",
       "20086d296d1753a868d3383bfff7e85e3f718cc4b0563c91f32ecc57f569a81d",
       "53097088f2903bb57d9b84d61256f412f3958fd9a9c3b1ebeea296912a5e6e7d",
       "883aa6acc5a980a2cfb02b793945a9da9f74018404b53dbb6219263c1ccc0203",
       "6909de88ebf86eba677a9e485bb6f060ba2b053c62eefcd0a448277be6a9024b",
       "07953a339f7ec65edb0f85d7b4e06fe46b55ea3fffaed07e4b78ee0b420bc04b",
       "d0865b6786b95986a4c11879f545a1ea43baccbb69b771f5355706fb9549ae25",
       "860b09c90a13efbcabe23bacd2a7cbe12ca10640e71f094cf84ee7e75e77bacb",
       "f8f2b7c3c52acd55b90cf6995f3232da7bad6476452ec4f038ae5a97b596e78b",
       "5aa4d73db2974fda62553db7717302310ac195b313b4c81fc1226a105245e7ad",
       "d87bc1846ebb6ece4ff1142ef5a24788770815148803c1e41b58072577c22ffa",
       "560c0a6433e3c5aab9842ecc4bf415a0403072299ebb4819be4081c802943344",
       "9cb4f58329c41f3fbbe806ea48303d40337f38ab464d05d0da2fd0ad55528606",
       "1905b503daa8417821f73bdf513d289798e28d9407e0ca51578ebf230883db59",
       "d7a5c78dc3135ce165bf5c7bea7824c7eaa0fc486e51a0ed1245b603517a6091",
       "124f16107299e21b311253a41d9199f9c48908f13bed5fa08bbc4667119f6840",
       "d346e8b0d409fe747e021e30c8af65ad0ec248cb15d75f07ca48651e64062e7d",
       "e78dda001de55b3d8f7b8e46f303da8538d1f1ff894fbdec684069fc30f24820",
       "0b1c536d14a05598c13ada10359add927b383d4f0a4d4675142ac21499fcc913",
       "d2d8d181bb25edc8702145dcf9fc4bf03de98c1bb7dfc5c6b78310bb362f814f",
       "bfc309cb4227545cb0ad2fff5e0e50fa5d198e286a90356113d96ce0faa0ef7c",
       "97f23247be6dab6419d7932a5fdd2ec2db5541cd920c2b24a4d30d12410e6bf7",
       "0ab0c2fc90cf9a2ed01043f927960566e1d2e7daae25ed1425cf80a771c4038f",
       "ea1b382f45e7148adea8cd3cd5bd009b91e54c6e6f227c692a8671e49c56146e",
       "e49daa6326a243ac65dea3390d033cd9e4180e3196ee31f39f7d8a6f9a4cf44d",
       "89fe514ef6f4a4be6543a3dada8ea7f2b3f707826c6785a2d48c95c61a0ddcdd",
       "cbfde835796f1f423851c0d516ec64e96196841be1117374c9b8d6f05bcb97b0",
       "fb842f7a0fbf50f4e73ab60c25eeb9b58984e2e56c324add11b6e4e5c1bb3bec",
       "0401d4d4a7ace159e381ee5618bd7cc71dda761de2e2d0dfdb355f19da225251",
       "388d8380fb8ae7c0b37abbd55dcf4c238ade4194436b59c637cb48cb84d3b47b",
       "74fa98936653baa18e1c653174abe1d2af3dbfa58b4661e1203be7d3448630b9",
       "de9477fa82da0d521b2f22c064d19842768491abac2d5933ace4a6b83c738d4e",
       "d25fafaf18bbb0dce6a6bf3152f68487d16b90d340a80c2771e0c9c391e0f8e3",
       "789a7a36bdb28a3898477b2bd0e976bbe3ba54f687d2369f7df530cdc64d20f0",
       "b84f23dfd8e1f672ce8e57e9557abc68f6c16642f774593ab2ddeb7a108e2f51",
       "ae34f4cf179263047f4aa71e860c66054ec9620ba0850f8aa9a45a9f8e38fed8",
       "bc300e50b0d40b24635fad7571400b2d2515022136df9ad95c510d768acdf1e3",
       "d76dc1b34a0751104f09fa8fb6e80233526afe6ccad343339555eda6c780b1d8",
       "f4d7a17bfd8f77c4ed31d775c0b75611fb5db6bdbef3908ad484415bf7482c43",
       "32d9611ead7e15876d62eea4ae3b5f894b309f6aafd3270523d0f85c105afd9e",
       "4f3ce9e59b53c05d4fa5a4145ba1efebdf1446ddb93ca0145b4b69aa6be6e038",
       "63383438da829d1c4ed7f5dee133150167672e3bc91ba8350bbcac9efddb1da9",
       "f42ff9d364bb08479dbfad210295d920a7b718477e2fff6a1074d77008ebb36a",
       "4ecbb838694aedd667dc340219c0188254ee20341f873d834cd5437b91e252ad",
       "a10a7ccb414295bb1cbcef772b9c500978bfcfd27bae33b3aef0f21aca6e15c7",
       "274d8f508ec7c0036401af23cb482f98f45f1b0657b2e184491586fa88a86e93",
       "f23bb48de11caeff3295f9b2ec07f622a1e7be0340d8d9fc73b3039cbd93ba11",
       "3e1940287a282a94fd2b3a73b7557d4b4e1d08af86572de0f27ebda41015d58b",
       "aeb1f0fc82cd5618db8b035665531f8f05d085d75f54228d149f131d288bab04",
       "87fb95359f50bf9a026e43bad3833e944439528aa809b10e94817a490a3e4b53",
       "e423c6f2fa88a56a6437576f0c8edd90bde69448a4c31d1c4d6481cb05f80782",
       "d14b8a54fd6143bad3b760f0eff6941d1944e00f2cbd4706c21bbdee75dc5310",
       "01dd242e8c68a2de37bc9ccd13f2498560085b01e3dac243734af85d9d2898e2",
       "bfb86d97bdd2839ef3b7366d1f4c142f8686dea75b4ad3467bf835c14f891075",
       "ae3e2fcbad3d315106eed905bb804c626e5372b255fe9e4b55feb73520d5d72f",
       "312ae81b0e8a4dd3795921cfc01784f7dd5c4167b00506cebdc0eb28787316a3",
       "97fae4da6b7b7c480754c0643dd6576a9ea75a3a10fe32f3063b2e78d8892317",
       "a656729a51a7e38ff9634bfa1493f2f2b2036a2cfbb13ec5c2865e575a46339b",
       "47c80988bc254f9c5f0b058f86642aecd578261419c66d6439467b24ca1ce7b9",
       "e32d3111af633f73a5371f92382fdd5bd75475ac0e63840b334b498a70709520",
       "f301620b526dacfcdd551849024a82b82567675475cad959c8ac50798fcd5a1a",
       "03532ddbb1f81ea4c5e39773f49c0a22f18f780fbae03c8b4bed66beecc68278",
       "4ff791e31949772df84365c9581f0e744cb4a949293e4ec40f6561d10db845c0",
       "b88be2c0ad17dcde1158cc73f7db37f39eaa23299f9e00b8320c869c83d892b5",
       "d3f43a8e29cf05ed39c06091c553e38c7b4d11144e83b6e560b00ff42dc2b536",
       "21102b0da078b3525c0f2178866f58b3ccf0015b39c14d9783368578ac43b19b",
       "3bbef4d116bf4bd296f46c715c2a611715bbc84b3a548abfe45f9378f0631af2",
       "94551911957fffed5b3c65e183a5f5b5a510789a866d9cd7feafae0be81d85d7",
       "2456ed3692dd11284f35354f194a2aacaa89041196753b7c3d841bbdaaa6cc16",
       "8042c95165c3bbcf8bd8c31da9a10973bd55e619c845053b3ecf1ade6a1da9b6",
       "91e9ed8cf6d57c0f69b3df54e08b83902e66ba1bbd68f4a8ae85363d7571b4d2",
       "6e32f4ff502cec0ec05ddc61a0a28e40aec96ebe46b2a4cff570fd139852b56d",
       "9c3f65f7a115374072cf6a342e01963b85ad67102b386eada9526362afcbea70",
       "dfe4d4e705feb13de2209dd0759ea4d7077b9f4550980171beaf04d4fb528b75",
       "0531e84719e091aabf137e094b6113378248d63b50a65ccceb361ed82d596f41",
       "81e992b01bbb82458aad3b171e6a2494e6efe36521cc504b649c274599ab9c0f",
       "9292246e4b9957c192106646b539bf3cd58b2346268ddab548ba2926d4f9d67b",
       "5242fd2b2adff37149539668ec54538b31b7d34a132b174df02ca88eb82d285c",
       "9897db75c36c744639c3db749708daea92018961ec8eed3ca72fa676d8c2c1ed",
       "2f93cf2ccf60db623162984d9c6f77431d47c6dc1023b79ea7c4890cf23d3f13",
       "56be935a71be5d2083cab67cc0efaa0f43f42fa929ac4ab1b3cb286f7701e56b",
       "7c56262a9f57070339d7f4df45c8ee7f7e8577ddc3e67f3e269e2d25a7611448",
       "0f610ef07d4d044437b9d84732f8dd3e6a8c1865e7a5b3877808da3cb8a6dd1d",
       "58b0c58624d45a1240df03a50d90eb0b9901979050b129bd925d40946b34c01d",
       "c4845e7d093bb8301e80f63a1954e35d02710341e19b68d122fe15cc8ad8f66d",
       "0e997b5ff28ae3232982429fdc842c2e2855cbf9cce8c1dc900a52991608ad03",
       "afea0c52f400087444631271097916c5de859577b4f1757f27c297c8a5e5a529",
       "875aea4b05009b2a0a0cae114dde0d8b9f3fb2339df17ed7cd5860dc2ceaa021",
       "a7d67a3cc0f7dd81c8f3bc05cb6001795b39f3191de89c7950bf9e58c4c2eb80",
       "674efd6df3a5a99aa69c45144979fe18a789f5703670b68ff558a1a5f4a012de",
       "55b7de1ef8eec359dac75abe12639b8b3f28847c2487ef8f5c6ba5cc848b67b9",
       "fa05d8f05c15a4ea3b8a2204bc7da3243ff359521e484287aef157482de8e41e",
       "a637a2ce05920dab53b3cd2f728d400cb433f51834c422956de01144693e47a0",
       "d93206fa8effe97d794fc8465f256101797e7a88cb6da0dd249f67344c2b1684",
       "35267fb21e4a85ffe112ba1d7e0960673bada8eaa1c33e0494ec962518b766a5",
       "5fa7d88ddc7db6fd53157be88e820386b64e8bf95a8200dfa6374b7d6aba6433",
       "08f5ba8e536b2c6bfefc9c59d25ee1b7b5f7fe99ea0a876572bb44bf972ed655",
       "b6015c25bbe2c6a2316435e28f608ecf5cecba69f03d1af8686617c46a526a94",
       "2bb296a3dd1e70e3e1eeec3421d0b1f3826cc9a687d3630aec1f5606ef19ccaf",
       "134a0137beb3c2d67ad3aae389cafd2467ee45dd36d2b9397b27aa1dbd76ee35",
       "a942ac9b19818e9cc370e91fabbacb6cc4decf3138c2df9e8d33434f6f860e48",
       "5c7df1d5ce1174bb51421b96864f9c452c4fc0f8325685e97207f8f8be6bfff8",
       "3307b1ec09ba337755eec03729c447ae991569568aad97bd6c65fae1faf1d7ba",
       "d76384c1f812dd13589854c49e7399117788a78c61f4dbc03b97644427571b04",
       "56f67b8804f27d17a59460da578a7e0db61006e1fae86b21efdf95be9409812c",
       "c1f5b65a60d4eebc6c3898f90dbe2ea0133b953ac53adbad75091bd7a59125fe",
       "11d1716127d2eec6594a0f23a8ba20f0d612222d611747f795c9a059a3f440e5",
       "a3311428c7094467e50714ff120b9b250e463f34665ab4716a5a58e848e19a17",
       "91e1f73dee7a411f866d3e71623b559be96d76be389d999295cd361c58820d19",
       "16c8d36b26412eba24de0f22dfb2e4f91f8d766cc11d4d6bac4f3ddf12420ae5",
       "67b1ca71a7b9e519347b56837bdac06dc64b7fc988fe56b8122aa7134a955599",
       "9b58bdde9f195d707f5574e1a345cf803a456a843406279a03f698d2fc3d6b3a",
       "f4939d4fae72033905d46ee94047428ba869a71d20904ca785f0daf9d2098d5a",
       "7bdcad44b7a15e1e2ee7caa19d85d60a4e0a5abfa2ffa5183208dab0ce298914",
       "f9ad246b984510cb5e279807bfa6ee0e07c340eba22289d3ac02999e369e79ee",
       "610b16c035418701b4f6996d0a3881f15a36e925f7f0e4c8ddd2af2095482b3d",
       "cc2e5a8c5e8961ac74fa58459a731d3007188c50f7301a7a840acd17b0c647a4",
       "d13c7ba79f613788183f0fe8ed6ca46c024480b65f3c1ea349e04c37cd10e621",
       "9463ac1693fa020c2d1188b55ae503573382747d782c101a3ceea072edeeb1f3",
       "62a6e4b004e316b555c569f241e6aefeb482b90f054932d0079a3a293d9a110e",
       "a26f572392440e61a65af14dc5429ab0eb523be1b86409f7ea6e9f1d0561c746",
       "994ab085616a7c1ca698e85d6ef8257d9c752476ebbc741d4618d4322ffa7b42",
       "6bcbd006ef74b73532b3fd3ab94b4b1bdcc93647b765c9bf211028c417e6fce2",
       "417335485bacec2217667887c1df38f79112a38af19b7f040ced0f1a17ac75a2",
       "03407db535bec467d313afb3eb31f97321419af283863851ebe672e380c1c301",
       "47a330bb90a7b249c5f7e3e80df8e9ffe5039fd31aa4948d07e4840dc9d587e6",
       "917ac1f75029302bebd18ea7daeff5d810f8c85cc74c4223b06f65fa5848791f",
       "7e3bf3fe7d14b7c0abbc3046e501611d85b1b35b9b7f6099338548b4666286c0",
       "30e369c9799c31d3e0bb4cd834d238e6ca26fa248e6f161989c392d2931b6543",
       "81cc1db7c53bf5f3c9591897e0af8f4dfd2859c5ab27294bb8596b1ca1dbc593",
       "976c75f3b697de178ea1bc270d3ebb04ff9b843f6ff2438263c37f90f0065ba1",
       "0e62bd3d31bb33eb6bdca10b39027aab80196f60c1355be3b407c2b781c76d23",
       "e6bf43ad488e3f960d5b26ff6a9f393b6719585b524b6ca497afbce4c4f95a44",
       "99ab6faeb9dce4dd770a3550ffc2ee6645ab2af1a8260fde42135c5e6f4859ac",
       "a838095b972f3edb0fae94df336cad275c15c057042ac670512832f96af6e5f2",
       "44d38a72ab062a68b8d60da42958c0c5b726766d97f750c5120030bb7e921628",
       "4ddf8f588656a5be38b9f94cb6b0b702a4f82e4a4d44cd7f5cc0eff76a7c68d2",
       "c6bed64eb44bb8517851a0d55ff19024122965cce1d55c7b449ccc6ec53fdc67",
       "8a02cc961601fa68e0c441b813f8e339653645073eee5fb284d782313effaee4",
       "7cf30b014b30b595db28d4e5bc45576ac254bf9972aa8310dac7398010114255",
       "e8713180105722790b1bcb01df418fb31f4fcee32b3cf269d4f8319258325acd",
       "d2a8c7a49bb30528970a32f3f9f562ba220ffd0a0cc04fcde2a6ae375533d757",
       "b3fd5c6832a350fc1c606303ba389f46293bbba266c802d07117d38599dce9fa",
       "24a3aa2f45c9982d342985fd3c06b07e41be268a3c56042c4aa8d55d172122ea",
       "d4dc13231a524f969b9b5198ecfd39f72a693447f2b92e308f6d0b61a56f5e57",
       "76de4d69e1fff57a3c91c72cd8328003e20d5ce305ee5deac449be21217a85d4",
       "563f8b44c631428e5ed9fbbca2878e79dbea1303159b7719a39fc245be074f7a",
       "bdfd4bea59720b81438811a1aa0595190a793d668179de1144b4dfe4c4d0ba9c",
       "8d28402435b69f81afccad19bffad293a6049c71164430a109bca391922cd352",
       "9f5d011447e9cddf6b18a20edf731750d9a999087b507bd5ce2fef0334cfe688",
       "6c42373cdb88cd1d1f6d19b76aa4c296b70daa201bcb09b0056e6f79e76af32a",
       "77a3181f8bbffd934575d83ba7453fef0c942a12e0e475e0618ab3bda7bb9ac1",
       "3510bc240daf012c717161f3fa467a67b5819710f26c1c18427aad06b15d6761",
       "a426e4a1f56a28b87885bce6587045a8031e0dd1fa53ffe3d804c02a74d253bb",
       "3bd7b50cf379ba03cecf00bc1a03a432a683a249956d149cec540152ea4236c7",
       "ac1c6adc4a4a7025c2e7a308e80f65cfe07af37d258b20e1ba50703f43b599b1",
       "e6a92eafca8a91a235dfe23d8ab402ea81fd14ea47cb2b105477df81e77468f1",
       "f3c3a13b9c41a38788f6dacc41959746311d9b01c2d5454207e422dfc599fb18",
       "0b4627557cc9e5b790746e266184ed02199523cf5f263d4ea049436ee0b16ff6",
       "dff788abf4ae4d7689d7411418db5e9068b8576eba05330a6873d3feb13273dc",
       "ffb03f73af73b13a6fa3ac26562d2eb6ad90f520cfa7fdcd523498489ef3bd2d",
       "50b123c8cfbbfdbca923d51d9a2cfd2fadf6ae63a7f53375eae51b0fcd4cdb2d",
       "cf2a5dd430ab9f949b161f4ee37bdbdec81f72f8383ec01e509f1c345c288a05",
       "5c73aa910c422ad4e4ab0d0dc255b8eadb4b4cd7784546f040aa50e4f3a3c4da",
       "6dcf311dac4cf17a00fbaada849c0384946995d117ae3f22f966ef5c2986dfa6",
       "a6a76cf23bf01588acd1fd1798dd562c800fca53a6ab53e995971d288ebdef14",
       "a4b83c9040a11db2afd39b2793c3477e476467f4390d9e003998d8212448c001",
       "9d0314baf0eb8d87c900763ad5ea6b89642a277e28e262c8b9db98e19371ba7b",
       "b743187637a8e001a0f2c45bbfb863474df3ab73dc0480d6167412dc49e6794d",
       "a963617d264ec727730da49c5ac9dde23d28772c2d5d064c1d7ccc6181411ea9",
       "0f9d3aa9523a53a51a2391fe727dfb1a024dfdb6b960f662515f9207fc548df9",
       "8e253ff317dd137bf71a6c71ce826a29c745e6fc26dcb572f9ae5eab80a3e809",
       "284748090e667a784a55ca592b8294c53a082724244d70a506083de8b8c90729",
       "e99deb2a19437fc5517ee6deebae1c0cc42a24fdaef6f1e3c3c7f06b66c2bf09",
       "669c0799c7e37cc4c47cce61c42c566464c2171cd022c2fdcd15e7a93a984c76",
       "54bd2155654154ba736ae3cdbbc53c580da01a9457105b5f7e18b71427eb8517",
       "4a7f15b7f00f90f1e682bdb61636f3583c2886ece624f6e1c690dafd555ff6a6",
       "fda8adfeb777157dc6d7f6c928819b4af33d4ab5551bd85e1018f6982d503b61",
       "d9ec50da33970d171d5b2238c16605cbb2d8b8f5c7cfc68cdac576f88a9a381e",
       "ff2cf571bc60fad5b51b69723c417a7b3c866e58b3cc4059dbee2fbecd2d3dca",
       "f1140ad3a21560054c8fb98869b26bf9a144eb0215dc6ac58fc6144c1686c472",
       "c6318ead74237cbea178e5ce8026e4f83f7727609e3543cecabb21dcf7944c50",
       "1ed955a9250898c3a281c57225b36e2ed95d18a8b449e62053b72278b00122f6",
       "f900d2d99ba3c7b41627519bf36ea3383a9a217ca4db8b29f7977580a1831e79",
       "f61e36b70a1e6edb62f55594b68c0ac0056b807e4b28103e93d925f4a26df8e5",
       "1b732260c25dd1bd05942f8b3637b1921d00858a38322665daf0fd5c84447056",
       "c8ab7edbe03150af1cd75fe181a610228cb5d261bb38fb25f70852df21873fbb",
       "9604db3b291e8f25fff1d92272b0a1711bb8fd5fdba94b921572240cd737bcf9",
       "7ef2adee1874cff906e0bc3fc6bd3525b3e237ed65e83681e77d89fdca08e625",
       "3991af94e611cf571a08b2bb8c9e0535f9da218107805b04b756ae1e1dae9c12",
       "484102b97337a5ed261e496d8154ee2a934665a41111657d3bf55fc6618d529a",
       "12c7ccaa88a8a6466536e405b746a25a789965784148fd4d7c01586e9a5f04c8",
       "2d416b1234ab182f696ec66d5d997afbf3834943a4c651a34e1b32cf19ec9b6f",
       "22fa2fad0b28847591a8a2e915672691f76821f7ad8a2495e9664345cdc0711d",
       "c2c5d6b8bec46d140508055ba6bc8bbae555f819c06bf69b0bc1c860aac490b6",
       "65208cbd020e2f9eab9a0ac8655dd5dad22a754d71eb03775511178a215e56ba",
       "c25a932c21fd86e8db73992e700445baa8e2289ebfc1448bba3b21d9b6f129d8",
       "f71e8ec3870db5bd39d6c76268b7b3612a8469e2bbce0ab4f3713191c3ecb8b3",
       "b8335f11c808a9372a344a7826dfef88b65986d970f4bf687b03409778545803",
       "26b3a934d246d11c1f469610dcee3a3dcd3cfb6f790de7e7516d8572d46888bc",
       "435fb21d09c2abc6db7c0fa1e9fe5f1dea560ba3c86bb703661820cf0e2d502e",
       "b0748514b759309e07820b6b6fddf99227349001db28fa584776026991045a73",
       "42b59be5e57f5c0c76eb9eb7c2d10c213a6a9f90dff8d2385d43da826a937e2b",
       "c0d003b2b4c3fa89ab80b0e5d7081742928265ffe137f4cdcc862775bce82606",
       "9a9134ae92bc9f67c58848ff10bb9694bd5471cb8e804ef11d21c96e893e05fe",
       "cf35b2a5366295c6b55c8d2ec36f7872b7328630c0171a1acbc43385ae80c294",
       "fd45f7245fe513dd03a047940086705a94809bbf78bac33aff98929a6c30472b",
       "afa7b98a8de105f87a6076b8096be9fbbc291d1545f81637b61bb8d3a68d8d1c",
       "17000431018dcb96872dbd975db8934756cb985f3561a104676db68e1e9c0581",
       "ffae910392d807d417240f0a7dae84b311061cd1168e317c324d6ffa350c2dcb",
       "a70e5e61d9f3326f736781f0e305b2fe2d709ca70b9265f68db4944e74c2a08f",
       "55a20a9d53ac57662154ec7a04e445d0d57eb554371bcc73989b994a7279ed5f",
       "648594329693dd20fbc9d9f9ccbc51b25a3c4d9f1cc1ce073f0256ef597c57e8",
       "c8c364d689df4ed4595863cc7fde9c4eaeefa6ef5eb6514312465145fcc981aa",
       "94041f0aa5352d9cddc62821e976bb50f67550978836fb0d026bf3179cd3a5b5",
       "83821cbe290cf8dcd2ff290ff89d48688226cfa4deb1b55891328395a644e87c",
       "10ed9a28c0e2b96d4cce863f318cc53f664c9368c0e124e0e3fd89f8fa0bbf2c",
       "5d9d64b4c4a3199a693bd0a0446824b2c5662fba45944788242dac69cbae471e",
       "d5bbdcaa8a510c478753a2324553331267226639406593641513f0887766b862",
       "0b576480c1566d8dbfe74c05781340421c30ed44b0c13bcbc8310a60b536810c",
       "99e45883edf174240e13c03e6f8b04ac9c1ddfd2649c26f6b05d15e2b3c75b63",
       "3563442f63b55bef8e2e57fcf6226f14a19d3ed250e0333c1db90b50afb37394",
       "693bd6a5b5428631d54ff0105b18f2b3b415c4fd11f8f08c4f16a8d0c57cedea",
       "a8037ae0dae313850645e2a49bf84d304b7211ff20549118e0aec357b73a89c0",
       "5f18c3903a5e8f51e56c7447b07bcef9bb4ec6bcb1ae6eace3f5c45835a6b6ee",
       "debb533c231c90b81392573891f766b868f9bb97eb8b9993a96c35a65f775024",
       "e365635b4e4aa29f909d0bc68c45415c7b34f3267f80b709ce18dc9c38c0ae38",
       "23a8407b0cd0cd25513b4f825d550bcca20da1c3ddd9b925466a1ed9d35267c3",
       "15be8f59c2d3af2b93c9f4cc08e26ab8b5487fb0bb996d65b9f89536b9e9f796",
       "a8413e46b059fdc7485e6ccb94fb7f61280d652063b4931ba8e8c618aa70ec71",
       "5b847622eac2306ddc99d93ed5818f405d165326225060bd81b6056d33a8c41b",
       "9e9b4927f98b547e1b6f61776f4339fa8aba82a6849032e1eae2033b841f0348",
       "16355a3d2ee22e5cff3a7999464d0cbbe37ed5bc99e9b892b34f3772e2d97bc1",
       "a7e83c97c044576945bd9831140dcdeaaa106cd47d3d88ad1191895efcc1a8fc",
       "bbdb75cf115de0b98fcb96d094e07f3a4280224878467bcd3333d7ceae92bf1b",
       "a623f9c6864593c0bed0426ffc0508876e83376cc9265484eaaadcd5c2ec6e70",
       "f03d3dd81e9d7b87205e303da5bdc80d037217b8b2a838d7b373b48e5e134e92",
       "dee8c0dcca001b43d4c69d9cf336e9bf5af0b2aeda20b12d8f4657e6e43a05bd",
       "b43900e500b4d849d78c160ad38c2207167b77997d7ffcae4f132f2f1fabf927",
       "0190b7555e7d2855ede65be8376a53319d39ea0d069d1e956fe84c27b828bdfe",
       "d42d677b0199260eeb72ccba871a7adf69700b3286294b4d5b08ea112412efe3",
       "711b99dd3a8d5e59e6127206597691db5bbae5f6a48182d93b99225b67d0be4d",
       "881ec3101cc249d4f595cd0c0c32abda313d8c10d7f1d080cc0d0bb4ca3fda7c",
       "fab389b7f9e074ea33d6301ee824392bd5fa017d25f3e15bc1d8a0ec64f7af7b",
       "e8f5b36dd838652ee60665e1e6bc83150c0f491d79dd26246f4197ea29a95a63",
       "581dd1ed4bc2f7c7de2811d0a68ab32e1b633d009a9a7500fb14b6f91f4ec41d",
       "8ab9a56e31bf510101a8ddc1d525ea169c0bbc4ec6587efc83392ed5ef52b46a",
       "749f25f8a69e2738a6ffd515730d1891fae8036efff1049c9ee0d28134f7e992",
       "88fe59893f611dc5c0479714bc86c1adf1e4f85dd1a3587775c923e7e3925533",
       "9b9d683ac648e98e425e99ff3c62a7abc98e91abff8ff450ba46becd1cd5c015",
       "ec1f4e0a9b9eb6781e1b42ee6b5edf07077853a2d427c584c2bd29d79a6ac40c",
       "156f1122a455b279c63537ddf386824f9c145d5c03887ab3b9b98d32d15c0767",
       "4135f5fe8dc6b78bbd428ab6da61dfe2e968019a85a578c113b731512cf2dca0",
       "5805aeb53a54734dc28eadc3728e7d68b506151ff88aa3175ba1b0642982e8f8",
       "4b4dd0f57e6ddbd298c6e4443d07dcf38cb5275cdfe1e3c824f4b6e087d38ef2",
       "a0ac54a816a92a047ddd459a3651f2b93065e5c1a08eb4905e0f82efb31d20a9",
       "9cb3d0d36b4c0be332f169b29485e29883c0b1e696bf543ea3e224b36cfdbbbf",
       "5d7860d52831b006e5c51e8df60588b12392922bb85d8df2865cce7e5d612866",
       "9a54b64d7f87480f88d6291d19f2bfb181f9945493b64c9d550f613eb8609cb7",
       "4907b6eb97c85b31616b03d34347444f26ed0054fbbebdb5628b12fb7a5d141f",
       "07ca297e7f1d71ff85b05a04498191dd5dd7d60e2c1e42bc672b9d051d69efeb",
       "20a7bfad5e278a7206114de835161296e81bf655e65da7dbe65f591f17250ca2",
       "a2f2aa08d24a4f4c29461be8998addd7d124646555147bc77cbb16c7652b422b",
       "d196f9c11df6a0a6646c08211d5184e006508488567fe92e808a9bbdead27766",
       "2addac005dad07ee056e39634c2765bf44411d631f7f6895e4298ad72e9e60a4",
       "ade2a26dab0b1592720bcc3dcdd7177631adab4d0b157ff94cedfff3a2f29ee4",
       "bde6edecd931e78b08c56db1bb3275608733c460ec463a44d4983d1fe0c56da7",
       "cef3aa87cc87b72ce7017a1fe51b6b8eb09149ff233df42459fd65a150ee65f0",
       "1d730577ec82c76f28b0aff4717582679c6ac7383600c62d5b084a218c5b39c2",
       "da8e7160bccb49a2dd3bf43f88ef8484504957e88cfe6d12fae2c622bc5eb9fe",
       "0288a51c243ac67a98a373dac2afe3b8b29ecfd87e7aedc4b721c1259be38a89",
       "c74cb6ea817dcf074ba4a6c86535e30daaeda9c7f909c7145defd00a6f208c1e",
       "85a5254052b21f12b3c3751aa3faa6724da0fad241db163a6217bde62dbab86d",
       "d934e4b2b8121cf2bb10293a04b750d65e20944d3fb7f12f20db8be06d42c5d6",
       "c537b4d55265f38960c8aa8f7279b7842fd136fb550655d7cf8662a102ac552d",
       "6bb03f0d3c03585af3082b870d2b7f35c2519f17cb462e36b7665c197edf4721",
       "9243cb947463b1d899f90d591def5839d5687c910144def6f5cd803c5a5a052a",
       "8e678410cd1714c9c6824bdae6654ef62350b4e6943dcd2b716918a309d7a929",
       "16f453c633753631b2af5032701211734626f2b22b5c1cc2efba9e5b23e79818",
       "0fb348666c885bee7c17ea2dafe9f1bc6e4a6cc27587a77a6201d7c4e9aa005a",
       "fa3c681735a9104855890e7c853a9c304582a311e119dcfab6a01f035bed9376",
       "c0b1a21ca6356fc3323043c18737ab2c902c8e78a3cebdc4156bebd8eb6f362f",
       "3e9e46b3e0e31d20fbf9b52ee1dbabe4c5a3ea45249f20058439972541cd3b15",
       "8f2ce1b37a50efad8c6db36cfe0289fb7ed2a67bcf9a728e5c9c40052e49a087",
       "17ff8c57cf6c01e70d36db3e9687f0c7cf16ee78e96f035c37d404c4d2adff86",
       "55e15956a2ba023bccd410f85b69e274f551caff4571396d7fd0bfa65e679de7",
       "a268f45a6933506d165e53966720440c2c0e247badc404514cc0386b38b84c41",
       "fe9ff5cb938feed588f444f4bb326abaf61abd244b741e1557c1f3f126f9c7a0",
       "d3bc91199e5af3d46cf09aee39a448107785a0cca3d808bcdb6fe7f5a593da36",
       "4cc52ebf369aa276182e13c3799e5eed75e02f966b59204b3a9b469b5aef3045",
       "ed7a9c93e89cda4b99b3c2539485a9dd9fbe3de9a1a39e18283524d7ecde6160",
       "c6fc4f96ac3cc5a11ccd704630eb4b2d5616da8b9b8bdda9641da9e2d353023e",
       "2d70329a540109cb98df37e91984ecac832682799c4a5723e99d860e30e268a9",
       "4a7c9a73711eeb754f4aa6c8098cd6a1692e9b8d1bb5bdfa3ca659dc00c3964e",
       "f95025fcf0b92376f3ad6306b563e34e625db49efa2b77b017d11721810bcf5f",
       "681d4cb3febd8f935fabb20af6494bb25259b6b376a584960eae47281f66011c",
       "563592bb963d4a2de20abe5072300b5146e2dbfc143232ba178709a82666f379",
       "803baffaf87a69c9f9cec2a416957406e075ffc2bff11de26117849117ad1606",
       "1c05b2ba4dddc18e7087aed3f4ed3218d615e493f4e061e49068cccc2e6f83e0",
       "186e4c873d3da7c024b3d8dea288ded5f32ca9cf71e3948c959a7d4bffda484a",
       "a492b17091d45e62210bfa291f9123488f2ab5982ea2846eec2bf0a32fa1ee0b",
       "184cd2f54bb7b84b867e8c9a73cc82fd83ee69d494d53e81cf7e74201ad84667",
       "583846288c16bb007d8950a1931836d2016aada1a32f9dac476313ad36141e41",
       "02d6012c9a755b6b5a16198eb3d3d8742c477c245d371bc3aa12234eb8409896",
       "0a2aef334b7a81d7c1af5be066b3e5c60e14cf84618a3aae36f333511cb5fcca",
       "6ccbf1dd0b4c975ca1cd0ee2b9d69fb765718423c5dc92369058f25487d0d8ba",
       "b5d835557c37d8e8f42b411c5f40694b219d76db551dda6e2a7062881b8ea89b",
       "04f21488aa5d4c65588e9f20b51cb9456763ddce02c4eba4cb087129a73b584d",
       "5080f408c762c331ce9ecd64deed983b0674b0253f5e5e3ae0c12dec0d523ae4",
       "d1814e8dba36ae493c6ae7c51b195c06aabcf363a821a874c0c776abf2e820ed",
       "6c2b7b63ecaed90dd131cf8a0b9af044afd505fb5e2b2eb14d71a79a4798f30e",
       "43fa13fa3c4c5a78888f317bb336048a7ec6fd1aa300583ebb29401ffac54b34",
       "b54441914d79f07d121dd9de86c7a02b3bb42bdea4cba6558bf07de291398110",
       "a1cc2671c899a90e9092429e3b6a0f3e54f6fc52933c57c2d40c85e1f6cba528",
       "8f860ed5e8bebd1838d5818315fd0ffa97c8b073bf25e3b426489957919dec2c",
       "5a861f023f403692f907c47448489e7b306d4a0ec8bfd90544d167c27a71efc5",
       "45b4c17da8a00b88014ebd52f100b206f272a02129e9ab726b23a73190c87f3e",
       "d521261f5bc60319256b8dcbb540df8959535d18596cca6f717ecce345864e43",
       "733d6ebd2b3bd8384584ade5566cc9028cc0cef3dbaefeff56aa08610f16cb15",
       "17b1353b0493413883d2837bea2f4b115cc8d5d1018d6e224c1dae025bcc8367",
       "ee66820749e756be66a4c5d10ea014c72f5e0fbb1ca69acf1e3f6bddd0510192",
       "bbba92b09eb51c5b4002e889a957850ec38caf049a393d6cab8241e78a504d74",
       "5c6f749fbec649022534857966a6955d3236947c2fb30ffe399384da6d1320c0",
       "0f01b755c9d49da41e250a9f3fcfff808d4160c02eb5320549a85439934261d9",
       "abe6c0916863504eb4fb0f73160d5b37b09364dabfe82b8317c87fc6f15adc3b",
       "a450459efe970a5248ab9d44d33aa2d0a7efe19d989ee08da23b54bceccb7ce5",
       "ce4a8ad03b418e95eb3999793a99a093d99ecd6a6123a14a6312e9d71043ef18",
       "bd41b7d112f1fac1fd957f4faee2370a3c48200b5e7785a67c5278b29adbabf0",
       "4e70f5bbd2ffb6025bc2a3ae2cf1e55aff66ca7339c4342b357087ac4ea23bdf",
       "6f3dab94bcb9520207b9aec8b92c07ed860eca161ac5a5eed01622f4c3e476ed",
       "f084b8b68caf906e3e647dfbcd5a867ef0c3df070b01b8b09e666d7315ddf667",
       "5e5bc8816ed06387d3abb6e02ac72316a66dc5142ce58d85871336fa9da8c18e",
       "1d556c9a419a5846be05f6e000bb832fe97f3d7f9fc17408132b777e3350d8e2",
       "3a20c5e25ab61fc634ddf5fcd16b5272f4d2b6bba98a2be8a6348ebb877652e1",
       "215614f967c5ebfc3f28c80709277e61102aa48d42db72b588bfdbc78a3e4f89",
       "9d4ec7a48dace76d9feb93b120905412961b149388d1252eea406be7a5ce60ad",
       "6724a6b83cd127b85a5527076a39703870a7657b68784224d4e4e1c4ca86b5b6",
       "3832109466195e5e57a610f9bbdf587fb75040087efdf29f6ccda1f79261ddc2",
       "3bf1c78bd9ac4ee160c49c94fe7e4a8032551b7f489710c523b6d2535178a2cb",
       "f386328f3d9e8a6ce612ce448fbb358c7e40e076379614a2a83f58ea0de986df",
       "c8690dc4311d38d05cf7cfc218c8fb449a980470193d7387f397ba80332289e4",
       "30764ad9102514a49d3b7d73e780006ab7f4446b6e7a4d7cb834190e7e3b064c",
       "b7fc7dee5fa29ee7d260de29cb3b1ee4c165b5a324dbda9490310f9eb940269d",
       "fac8db7e15e9780ad678bec83611e2abd1208e89e3145ba4e0ce8b7875ad380d",
       "0d7b2724ba5a68f00fac7fab8bc2b848af918e4b6a6bb9544fdfa5c226b7aa83",
       "6a1ec1962607c699d6b913fcac8cde78a147b133a075c28e7ff337545b98e4e8",
       "227f7ace796f50cb0a69a0dc8426064c59116aa2184e3c4da7948bcb493ba7e5",
       "d91d61285c00e263c1a8812eaf810e8a2a16fd9689be25ac07eb20748f74d3d1",
       "c630a6d351b67b094b798f8228c0bd091188cf783ccca29d6c1f6712e57855bf",
       "a339bd5b790ba34d69ce3db82c08f850bf448804e6683ad1276ba94c8d837dbd",
       "d0cb93d726e80d47626f307abe92d36ac13c9411a1a341f64f44e6b64b4c0fdf",
       "cdd65c7296779d2d020c4234145572c73ff22c6e4e99a4ac491dac3f583447d8",
       "9e0f382deef7276cd5ef1d1dfe6995b48f61da995922b6fc387dbd4c8efa67a5",
       "8b84e7267a73670d832f83ae52ec6a01b529434c39c04fb164f16db4d0bc1ef9",
       "b8588c8368735547c0ae0f636f51e25cb8b9f1158f13e4ac1a1a67558eb26104",
       "d1965c159d04bc61db9a64b625c4d878b440fbd580ced721a46a6821b2631f6a",
       "0df239ebe837889d3a8a009c868798a9f862c4da645d2a8f61c09f1972bd5302",
       "4aa4c1ae6f7ce3a73015b14d83a9569b4513ff037883070330e113510db20c01",
       "edb2b45225b21795ddb4817f2b11143136a443e93376b8429059c9f4262f58b3",
       "a14a90835d600d9db711dadfa467e581c3683f4f52ca7297f9e51e3d3c60ec58",
       "8a99b120d3fb38a6e169e29cc09a67a185d0e5d58f0a19bc3d0ff8d5a83c4630",
       "b0a2801c09d1e329e9fd4bddb6cf6d5169d53fb65621fda0d18f8d20aa4e4b6a",
       "a7e006fd8f4221949fc075ec79b16b92eb5cc0263fdc54a406338aacfc831dbb",
       "74ff8c0222eaf2299b3960fa8f7df1fcadbc6ec0ee734b2256726524e1b8ef61",
       "8e0d22cbd4500b246f4452389f7fa8700a72b40b85d568c3b18b29342a1e6824",
       "4747e6cee5be39d533fd1cb1b08eab4995499d68e9707c9c0ce24993f52f4041",
       "c804db33ebd570c6f79cbea7df18f28f6b69b4e79478f59f35f1dc4efaf21c50",
       "33c8e5017eb9e4b421eae1c6ea01da9d60834ceb4365ee693b7516ac942b30d8",
       "2ea1593fd43438bad2d71657b5460ed2a3ce6784f5aecdfbcab22de3904d2649",
       "dccf8184e44a3299cd1e032ad65a21540aade44c706bd83ff0f1b841607264bd",
       "678ba834c8a691cb1b74c34bfd66e6f474c25238b983235cb44706f49988f05d",
       "e2f8fcdf666d247ff671a707d97b9b1547cc98401b09b7cf026b1e7a63224e4d",
       "fb42397677f2b20d86e88dc439fc228e32985323a4bcbf0e5b86b5cb6a995b4e",
       "99dddc59be9d91fad28e9a5ead11a7d85cac16366d8b7aa4c4ae4cb056943cb3",
       "83d83b52c66ae241029bc40e210958bf0eb280e0b0933825a0f422757a33fe95",
       "e75f3e1fecb974d7792b3e3c70a0a1a8f5f14e68ec31ef908da50c7adb4d1ff7",
       "9a30067928ed7d7da273948095100e1e52971e80b0c6126d1096ea2f13fd0c14",
       "953fbb49fd754c936aa53f46bb28cfa8c02535d6dd983c00362f006f4e774b5f",
       "cb58a9aac59b79a1d1a98e5b517e6d5b43262ad1a65ae622fc1e739654ea6c6d",
       "3961bd9c310d9f893b9348b39fce964a6e3bdd36f7a484ee91ef5d405ce20330",
       "1b065bb086a0d576ac406aaf0097fc484028762e3ab639a78490f0a1db02d1ad",
       "6157ca62b9b7de687b00b1d5d19bdf0311e6024aa377deae49c5407d89dcbf4b",
       "b3f29aa869687870f449043dbf35d3ad43464ecec1feaef015ac735d5f60aacc",
       "c7a1bc74bb4f3285f4da4118e82724cbfe7de617946d54bd25f0cd6c7b1f9e77",
       "9633e4838fe94950a6afa2c8f5dcdbc71590f09b6769e1e72777f22ef8630e52",
       "d6ec3aa2164c4ed4b2af25e7b4fad548825e832a723a51c932fb47b98b0f0ee4",
       "8c8c70995c0a88b1c16d5314460b34494a18e3188a5bed0d1ab5df5d14383bd5",
       "bfd923c94d11274e0e301213fa383c0df9913fe776638b997c6cbcb32f38f780",
       "6465e6ec8c428f881ee2f6787da6ddac439013bb7a06f350481a071110aabe74",
       "14d978c232ad561907ec349c102bff837c5992c5de7d16e14f1ba6e8f621c4ac",
       "05651c3d74cbb8a79cf01fbfd2005d52f70b0ff65af191d9991a383a7f84597d",
       "abfd2d240b54e57e919bbbb6010b4ef3f7c9128ac432239bff66e1025b592f81",
       "c2befae513230eefeaad1eefc49342eea7c840fce58b2d693ad1455c88cba3c3",
       "4a79bea6ffe81caadc5e9b825c63f8d3d2d0b718cf49b46829edf39cd7a92b82",
       "a62d8b4a94930fbeb841cc2b9bcdaf81d1efb0f68a933d8443d01957c474737e",
       "d1621782612e458e6a8bb7b18c5d094c6ea81370e9bf611d8037aeaa3629fefd",
       "edeca1e28920b2fe4789e060bdd4abb3436689d7a73a75a0d09177693105a7ae",
       "42d35b23b7550db7d049c66e6298bca927c062176de7d850c5cd0dbaed03aef9",
       "880cbe5d30558f40c54f1f1b53743ded6cc94156e7a167cb486c0c92d83f122c",
       "87f60356754601807d2005992d70331f64041e541955230f4c30095be24f86df",
       "8b26ceea6c86c7f82949f164e7f05a6f93558a20d34411d80813f1494789c510",
       "43a4e0fdec8996dc0d8cbe645b1a5a4c93784ece1b30504e4ae38caa23435cfe",
       "b03885b2e50070303d1bc5f1721d315bc316a28c4c0526827496cc37cdf5c02d",
       "b8899de111c45bd0c370a7a56af34022b9c00d582c273c07d3c7a635a62c9e38",
       "e7ed607df37b91f00b367a6d7bf71cc63f4d18e5bacc8509c28f3a0bf19b8fbf",
       "5c20cd66151886ec5f03acb611dfca0b49097125cbe58c1f6c1ade375b1b8af0",
       "4cfa9d9291a3e830883229b04f2759519698c5e6214ff8cbdfd46d2335cdcab6",
       "2b8b506395ba0780080a1dc5b980473031b8fcf2eff8bfec0d42ef37c0ad66ce",
       "afeacdef4f91753796fbdb724fe3b840517ea139c0cc931c770eee084c482dda",
       "da5914776e4df4589a5bd97abac0c345e252c1ba40c960124885cc898b395087",
       "0d775ed2820c4c015f52159c33452ffaa45f975fa484a19d9eb4c27fda80e0cf",
       "1cb20990f74644ae91c2cf62da55ab87d19cb7686a42cc37aa99685c16de3e50",
       "983dd151a1d0a9fb99eb592587d778f50d2450c405670981a4608d5903eac2a0",
       "239d54ff1d60dd97c776e2a69087158ec91422a9517ff4a213a7c3c9aae0a0a0",
       "ff15dacb794aac7f5cf44416876923a936a866a539a184b7e279d65297cba159",
       "3524186d1b1925ec1eb6be3b4d90ba9e86dfe399b4208aac975144b3a9932582",
       "2789346b91af5c4854a2ae14bbb5965b358a884ff68b7b187b72577442c4992d",
       "d2131b3f538c1837aba34c701a0a8be325bf8c007dbdda6f160a6dd643346635",
       "f8d2edc2a013f0175abb93498fbc4f94839ac9f77fc5c3a5f61d9150941c3ad8",
       "404de8d2e5cdbc592e425c3c2e0decd3db483cc09e24fd687f5e8668845f9e40",
       "7d051a037486c1fdbc6406cfefb026c30f94d090bb17f74d900896499f1c252d",
       "24ddf0fa726325a9dd712595038552b4e89f563f69f8f19dba89cda81fd4bf8e",
       "cfa8d2187871a3c4b60f3830f35d6b17b229b14c890c877d917520e966874aba",
       "d50c6398e374d29c6b924bf3ca89bbbe78aef26e71da204ae8fb1da818c8bfe5",
       "544577ca6397ac28f47cb515eb9949b5ac88170fe31ac8d50aa6534f1bfba4d4",
       "f106fe8017266a07e90214a0f214662bcf0eeb3f9bcb988bee7eddf93669810d",
       "da12be21783ea8aab8060c6d01f3222fffbc093f5dbe91a29488d1be1a9227e4",
       "88bdd9efd1ffd1029d9775421cffc4c2de3b3c684b7e893bd6e3f8d7478fe91f",
       "008f974ab17230c1b99e500325f54ceab5a38d88b76683eadde8274bb9721583",
       "49232d355ad6f35affa37152fec7171312fd836c4e2aa889841780764a7482fe",
       "7be737f03a03df1c3dea4a31138f05142e7ab9c527babe2d27ef6a8bf8418afd",
       "8e7ac608f7ac5001f715c20961177b33ef53ca4ffbca06672053476b22f5502f",
       "9b107a61953dfe201ec558f3452d66092a5512a882551429263419371973a2d6",
       "35b77b9d565a38569265a86abe12cb1e0732c160bddba3b55d9558e33335bb1a",
       "263ccc456183b8e4130692d5bf5c1eae99ab1d81e431332645260f9eb58e4b31",
       "78e1441c0c034d275163d8e4f3952cc8db9f90c234857fbc53399dc7c31c7765",
       "004bd932bd1a629e9d5827b9df36f9e680b0831a195b1fb9650949cf3a32d968",
       "38a0f40316fafa4b39b9e4ac3074e7c08957dc2abab4d60d98366375c553d1e8",
       "dd73a2d826f8d7229689038fe1a6d0f549c5f155e528b48c9560a4988d5573bc",
       "eff225c9d77e89fe8510eccd242b236ff56ca7642538f2477599d3af77c2f962",
       "0dd53ecf3483eded531bb9eb31d8257793aebda4f19c152e5978e1cd11088445",
       "d27c9140f9903d4ce654023ede27dd2808d6236be54793ba10e7d17c894eb507",
       "b233a68a96e39913d3b6535c8b3fc0f617e461731f81febc0e4085bd85122611",
       "2b6582b4ab07e7520315558c712f1f42f07e9aac0adaaad878f94cd81eb1cd42",
       "2c31f41e856d4f7e6041defdcfd03c5a0fb44697bce870466b0cb9a2cb44e86e",
       "21d2965acc4a6874d6fe7e70a2386d19fe1cd56a7899e105962683a380c42f25",
       "e3004858236bca61a8014e48553db1eeafe5f058b93abe25c0e762cfb0ca79e1",
       "b783c59f64957fc4f4808538a570ee9e749daee2f00b7304c5039b4550afcc79",
       "8a6a9bfd8efa339e22c17a34a8b76b2569365152ff2cb68c3b699ee92901a917",
       "42d5ccf02b4c288054e10bec9aba773f436b76ced2bdade2856cc80e3023d838",
       "1c3f45ba70efc1e4c9ddc96b14c692991900b97a56808f895832bd008996bc95",
       "fb386d55e6464279f825b97d7d0b207f2165d586bccba225e634e7ee759a5997",
       "83aee3983f67fb112690e0662ed79289f8d8a55db0c7a5d72d1904bdc69c5c3d",
       "372e9ec488fa5994a8ccbb22569e3b5618edbc298502b7085164d8fb7cc4feb2",
       "071fa7192d51a159520aada3135975a55f3b778564121be2366885957b6f7644",
       "9ad9d984ecd63568257e82e427707ab87d3c5dd3bfc00c1d4e56b63758611fa0",
       "c43053a4e2624697aa8209d2a5bba5d887691ca6458ece8cd202226170dacbbf",
       "82fa12ab47a87ec616d08a092b39a418e1a8ba614aa53decd5654863968cd5f4",
       "e25e420d56f2e1d3227d97bfae0f155e83691bfca47a7ec3caa1016f2f7abddf",
       "dcd6d81fa7b9aa92acf6208ef2a1344151b13553297c21df71cb4c85b2ae9c07",
       "4a3158e16e4db6155f69b6c97b619d883ae8f90d99f1d638749f4f52a7aac6e1",
       "33f76664af726d2d1627fc4dd81a968b8df95107b09be7e3d908136751a4e2a8",
       "ca52104e4091361b57de4b2167a21cf72774df6870a4e30fbed3c1525cd7d577",
       "76648e31f17e87152b0718cd677e52d34a7888ac6db030ffee4ed8751f298167",
       "8ab6d6371cf0bc5184e4239fe9ef402e3688e4221ca3b11308b099fb34782d19",
       "9f9f792ef23efdae3b4459ba8d736d41048852416de1ca1f59bf848a3200bfed",
       "ccd4909356de461b8b86f1e41a787a6dd7408fe727668850a48b8c9c735302d6",
       "16b6929a1ad0745fe5afe61036786960c689e7e119539e3ac93f5c885738720e",
       "a65f475935d4f162a17ea93a670dfbbf24839f02d7cebb3d4a61b515ed313cd3",
       "44a9835934c8c9fa6e8c046b6d61ee191ad2ab7d89592f13378564f7596b04e7",
       "5163176f2e90edfd17fd36ee1dd56eb13d94ddbdd516819dc3e9a14f89a82e31",
       "1d2077676fee0a750251543acceffa45fdbaaf60c43fce262472c97f96bb71a7",
       "6b2f0c13dc42138ed8c49258d007f8993497bb033f894826c71b7d1eec009fe1",
       "6ca5f2725bd1f4bfa9669737a2091382dc5d3468d2c876699880c3677028ec05",
       "163bfe4d9f7136bc76712d562c6022433adf034e93b16a4925d6f5e83049d36f",
       "02e65d93c5ed868ef5619f965f83b2bc96dcf4d3b629b1acc7f9e55baa5371ba",
       "25234f8764ebb4c42a961982692154f8b2b8843ed5ec4946734273e146c474d2",
       "ae89062c9e7f2b04b4bf979278200f2cbed4e7f3e72cdb3d140898d0d07ff82b",
       "1a0e1fd9f65e482866612446641ed3e109d814a15cde5fc1de1146bf38e4a36f",
       "e64401f53469cabfd7ad1c325ba206118c19d8758c317b92840fbe2a979db0a4",
       "bc3183807c91287d6696d05a6c65cdc0ac9ca577e235dc9d03cbe578f06b7317",
       "1230a718f116b05617e37328b2aa02129556f5d80d38b4786d1c98d83ad94043",
       "546e2d2159eeaf5eeceb25073880c6c40b2bfb3a14941ef1344279d8b68aeca2",
       "ecb83623aa9dd43f8b99017973523b6d46a717678235de6121ec4dc5c79e7fb6",
       "60abc6530fb4f557bd8af1789856cd2fa70d4e918c323ce63d7a292cb2a1a0eb",
       "b13b7354f17e2cf44f1156314b10e960b86bd38e1e0daa199ae1b7eaf3589adb",
       "2d6f723b1200878273dd4b559b81c27bbf852c7f6f25ea1ba87c14671ec699a1",
       "38d39f7cf62e8fdad4a8a73a237d1832387a10a12e355273759d625abbe315cf",
       "22c92a4c391aa898225a15e7cd64462d81c2893d8651bc9cd25569de51d7a96e",
       "5e808cc84f596a1631eb4bf7ee836731ee21c2ef563e79f314b255ce719f9ff0",
       "a31b9be7b332d610be626ba0fcdcf537f3ad5e0a8dfd36493f14d560abaff4d2",
       "2d946e54cb8aa1dd0e166fd42aa5121c4b097427e0995648202f08aa66cdaa03",
       "6f09d5719cafbf59388a8c16149d7ea5ab12abdbe31388f1febbf5c7e02a46a3",
       "332cf0fb30714ab92ef277294c2b4cea3ae1a4917fe5c048c3803c4d7f5ef4fe",
       "ffb2b1afd08035bc1f49d33fadbc6369b978667fb13405522237dfda276ba4a5",
       "77df03ab027d450d5420e01f8b2c8d9d22b16d89c2a7423726a36fe12a559d6f",
       "50337d5f6f520cc206fb5d6ec39614831aa821a60f05d4cee656b8683366caa9",
       "148131d60084b0aebe5f86983300b0d36d6ac164245cec4759020ebe4fcd3a63",
       "1029d4e587e1f1fd9bb0b1972fd3b8d185ce5f72099ec38b72482f3ed9bb23b2",
       "8cee4f36dd42de7b4688c8cb32eb4e28315b2db87c99e954795001d76115afcd",
       "1a70b1e078092622ba887ac4218514fb1ebd8a8cefdc0ba0a815029f927504bd",
       "af6d884f0e8fcb6b2bc2d1300b13e7e6621b6ed4e4b2a7ec2c708a2eed811969",
       "009aa6dadf10f87c9fe0cf3ac8705638f919ff9f496e2e65386349e0cdd146c0",
       "4509e6c8b51d2eda14272a40541ee953aebac8b378ac2bd95c52e6cb9478123c",
       "b0b760942c8cf332d3227fd872a8ae347ce03ef4793672751db761d4d49c293a",
       "268252e2ef75200cb0ad90bb844b73c747d4e26ab1d807939680f281a551e98a",
       "dd471df41de8c8af920bde4e2878f9780d78a8061b7cc58fc16dacd41eb6a59d",
       "ad219e95e4c39fa7dfea817d6d620a534680202c594c8f0148e01369a4bf1afc",
       "9d15a289ce3e9fc19e45b72afdfbc8c54685ec6feac1241efee330f4e68e7a2e",
       "0abcee38b1f1c597369ba270db6d7d3f7a577e74b9241ff1f829ae9f9c299795",
       "2313e28dbb34583cd9576c8a2ef474f0df8004b0c9458964b9301f27306d1c0a",
       "c26091b4d4a3a86b5c6d3c17397b14f0d70c49f772fa68a12343708c34f03b5d",
       "5cfe2aea2741469038f4db206462623b33899d0240e79054fda6222fc0c91053",
       "4fc273d0b14affe00971bcd44ba56e3e22d41e3a845eb6e552fe39e8da950a32",
       "78b123465300278bc2ce8592d1ebce46e7db7be212f75479269395aa5196ec0f",
       "f33d8af0f0b146b4ff6d353ead0c8717bd36bcdd6eb5ebcd46f523f477447b3f",
       "317f04a571199bc47a0475b9f21406a182a1a5473ee07fecafb56039290fa2d7",
       "21531164983957cc851a4e95addec76b42c91e36ad5e98923a7038a210f8e45a",
       "f9072144b9ff1323f1aea4f44dcbbe643aed80e6342f75e1f67b8ab32551fe1f",
       "07c01d4c2a456b80c4dc477ddaabf6148df8f8879788a0d7069b71ec385886d8",
       "7630048b805cdc8e6c4c4c484c79c1c9131f26876598ffe64adf501ccd57d4e8",
       "421bcd8fba2417c8c24255eed09905eca8dcbc4a6030d711c73c760b99d1c945",
       "3f4efca7815f2be2bfa1ce875a8588382e7b1cf45042190ecae89f73ac749cb2",
       "31286469b6706e66396c633dd983868964a9b2650ae316c49b4671c07e9149aa",
       "715eaa70ded7c3f583b89d3cc7d67487116f76a3f44c6d46d1408c8dad9bb61b",
       "6266da3a66e2e73d5477652549016b9584d8389f2c4bc213616125f2034776e9",
       "aaac6f2ff3fb16337d00f0cbd54b141b750eb58da4657d033cfa4db70d26f0d9",
       "a5ee7ba63fba1ec79979f7c197a317442aecca5a181ea25f750440e8cd08f2a4",
       "c788859dfa926fa3d14844adf7156d9c3fbfafe0c74ec4d8f0cfb6f9f5fca5c5",
       "c779d3ac8732a0b89a32f37cedd1ce0a849648d115bbb486fa143eb871d0ac0f",
       "c9f24a4d42d9c5de408bcdea12d92f8a23d010376f75165d7559d2906a9a4451",
       "ba6319794a86f3c857898b0fc2fbd293f9cd28d637077c97d30936e50c26bea1",
       "02d0f3875daa256b998430b71e84cbac1f34bbc811c62cac2d24f3eaf792f521",
       "30a0297600a054deec96ffae021a7d952ada1b792bbe0cbff8bb07f636540dcc",
       "e4e70e438eaed8bdf145b5d365cb9e14da4286e95976f9b7f31648c3893637ab",
       "b3b997a1bff90625dc23e81b9aa3cb6204b241194a839967876b225ce7d8ce3f",
       "b51aa3a9c79014c1ea14b32ebb46599ff19697ce72664fe96e1b721d58fe38c1",
       "1f495f847fcad577b9012ea5963646e0c167200452398eacdef6f02192601ca4",
       "a7f273588931a435e1426b8aef1a84b7d7e4f5c99cfa74856b8b3f6332ef1b0c",
       "395df7ef7ea7ded139691d29e1ad370a8e98f4a24f30f958d2c92fc2cdf2f4de",
       "c917ef63bba27503c989c72f1442f09154956838072c253b78d8e25fc63e61ca",
       "bb0aed1e12ca06e12d5ac89645c71a7cf2fb6791703764f368e6f897751ebdb9",
       "5ea8af75a848e4e8a055ed3b0e5cc94512478e98e6b9e6d89b90eda812838363",
       "e77a92dbb393110064c775a6b73698d5f6e6daaab123acf76e2da8c019870e0c",
       "f886e73f68bf9e4a8f90b204495819ee3119ef28185c97549de7df4a19876481",
       "c90b30e7acf64b18d0964f6633484f6530353b26cf9f47affbfc97c82c75004b",
       "11d31abbc7cf981be1685b506b862e60fb5dda02e1041db57b401a65f37c8598",
       "2bc77ef1fc285695b22ad3026641cf3a6edac594f70233c7540a1e18f2fcec7e",
       "74e39d34f4aa6ce4b7fc83e211a0b6f291278e6d5b2f073a02d78daa2c4807ea",
       "739db4779841ddca4c7a573348688d3acca990169a9a48f1597aa98b48c385e0",
       "1b799e87199d8958b9e76209d81dafbb899db7c207786a8a96be305ce3a061ce",
       "b3aee92f5f6fe71f76c76b536d298552b6f44c21a6d759171750964980094676",
       "b3abede7302259d65e5bd3039f688ac72fbd9d1c8b7cc2c47c13570459c79f28",
       "49d3334ddfd243fccba858b731c4be9c94d84ff2cbb5a162dec3514f325273ef",
       "7288572f0f6528ba1b2c6ffa2b77eab13894a92e3a595817f10ba7d492556e29",
       "c5eb5a12be0b03be84c377e5b8dad7b9dbec1f1cf7bda6772bffdf72d54ab94f",
       "26c7f7ec47731b39bcd76778e4d67b10f3f8d76b87699915f84c3295235dad64",
       "2c248e65040358e90c590467c470edb442a975b0731ebbdceabb09e6aed000ad",
       "8db858ba1ed620c72fbc4799751c4e81cb20757f8736615bd64cf0c1823a4241",
       "2b7ae1e41b6c915ca3e352d4befd1e46750c5ae597d7ec06e499f87ca2220ce2",
       "1d77e4b6c05abbb9692963fc6d9f69e33853e30d9b548737533d292e43b7de04",
       "cf84f67a6479a6a52a2866e8c52a40ae04c42293eb661a2197ab42438e92e8b5",
       "5ea533e5aa2491fb9f409829eef6208401ff2959445c3f8f6f5ea059c9d1757d",
       "b9f6805d6b9128a42ae97a170815302eb5ba80b7a10443243a4a57821ea8d05d",
       "5298554c78add52d0cf408d1e76b693c14bf93d01c334e62b7ff57b16b15259f",
       "f7386c62605510255d842cc85f4d34e6849515f208067417fcded3cc72692ee2",
       "4b7d5bc69d069fafe28d116d70bdbfdb13ee94b8b35bbb2ec71cc624ad72b26a",
       "413baa2495b28ccd2122f78cfef96a6796fcce78ed5e92dfee4cde3ee1c0bd88",
       "83832245048173413a770237a12b546a22dce9019f9aa46ab05f95bdfad1f988",
       "31fbf0f11f8e2abaf8f683047cf796055f1faa27030f8dc30930f2a912990d2d",
       "cc9c17b9f0445b17c196db1d7cf6029d0ff5b474ff32341d1df4f9054d739cc1",
       "2d203eaa494c94af53271959aa39c968a05e0baf7b02f844749183ea16f5fe5d",
       "ec6ceb46d8619519d623a773f22fe9c8976c06ea84ca83d80e854cc16b274c77",
       "3474f3b02ed78a8d16e5a1d32ed97d74a469c66da3a9f086448cd2090d42f2b5",
       "1c3973fe953eefa6a13a7afe9c9ec9c1c7ab2646057acae638081bdd8e8b2222",
       "94391be59688851829a6953d930837732279764694395b6bc3e3414bbd6644c5",
       "3c67447273469b3319e22113ccb9a7a1e7a92335f584f913f8f3702b79fa44f9",
       "5dac17ef2a6c4cb235ea4a25dc9b9e0e78dcef0badcd69babda8a6575bfc5901",
       "cd5c2b099af9dbbda55b52808b13a1e413da6d5da85b99a3e114369f957531bc",
       "5b7e4d7e2e2c2caaf86774e83f57c282aaf3715c918ca346381f6bb85b3c283c",
       "6e932bc69da600b9cf42b8fa3f348af0d8cce7bbc3747b39e96896b225712d8b",
       "d0080edfcb057d8b1596ce1c76aaeb8f390e664135205896281d94dfd2f85851",
       "2b2335e1a3bb5f8205396199f4b17a3e2d906d25ad4544bbf8fa127b18fb1541",
       "978c0b2228ffff9a5c58623bc505ef239af49b76ef02f3c4d3f65a72ba714960",
       "01db46f8ebf5aae2d18b3b2b42f7af6f62ad44ad4f96b8f23e5c623d153fcd52",
       "24d6740d30c172780258b6ac142c5c78ae1f186943c940af1d6bca06ead2a3a7",
       "6fb76616548940c695c65491dc16f76daadecb3eff9ad91b57f9bf190daae7f3",
       "5c89af202e3c5e2e92c2eda90781c2ce7e2444a6ad86eb8ee4b5899be2918f13",
       "c57b074797f353d49cd797c54c471367a37ec494b9c7d486227bd763e55d0df2",
       "9f8fd808219d424b4d328ca650e0af7c6ef1bd393536531c8f30b8efc0bb1084",
       "2758a61fe39386f497bf6fe8517c730a3f512f22bbc4b8880aabf941c08fdacb",
       "4e928d756e1621461d3eaccab92957761f22b3c8579499c8b11ad6a81459ed72",
       "15fd9ff8e7fd12fc8f7d2c2a057138f9bb5d1ed5dc3d390deba639c03f4da9c5",
       "a6303b6b73e95bd717a31b5e7ec73f4da4e82001efe0db53026558db02138c50",
       "e1d4acec623778d2179710ef202d9927e2e7549f7629262a74e99c918a06e948",
       "7181c1e934304b0be16de442414d6615ab77833352a368532b7c2f2185abed5e",
       "ab552622c33cfeb159e1af14338f1be2393c342e228dbec6c74b381932dba65d",
       "a88ef9dfdc1dbd9f6fc31662127c2507a6d240b6e7b6d4aa37be5be476a9c043",
       "07bbf4ae4fa34836b9832476c15ccefe8f6e002f9d06eb1ecffa7ebe937d7144",
       "54e0931681779b40e14fe7cbccfe24952343ed2d80fc975e58f5bc9fc4b14b95",
       "76b33282d70387ac82188a2be9d235ca103cd1f964988e597d2fe86404c440d1",
       "f74e5b4e8b0247669eab0dd69ee597be73c239c503ab7ed04eef0c2212b018f9",
       "cc16ac2c696f35b022e59d036a2244c21e811a08226ca7b493bed739eda1fea4",
       "8807d3a7552f13086166c81dcbe7804b35c5502da358fb32d6c56dce82c9cd61",
       "ab8b6d26de9f789bc987c23b43bdfc1d1d65faedbe88eb03baa89fe32977aa75",
       "0d84177b7b24f7a53fb085372c0017f3390d9c3178d72ea4df84687f93e378cf",
       "c0688d6c21665c58fc58af170ae3c4ede818b1cb84a35a4fb93066e9e5ae52dc",
       "4b33f9dbcb765549aaaf9326037f31cc6acc2e374d258c16c3e0ece454a52920",
       "7b83c46c4755c90af6f02ef698014ad7b9157d00e0dd1005cd46119626735a6c",
       "c5efd7ab3ddfa2b81ae10b582acfb45f0941f906c30a3c7b1835898260a4844e",
       "a28f8099c9f3b22f1055ffe1a8ed25db6e7c6873dad681aedb5005e6b2351d67",
       "b1f5197d548157738cec2a6780353e4e3731c71a3f8009c25a3243cd4e4a243b",
       "b8fcb1b2458b72ed4f99bb9715add473967d2aa3e5565d3297b4940da7cb242b",
       "bf94a27f8d39e9f0c709091561c13ddfafddefe605bf6484266cd73b6e44e7ce",
       "f7f813d3c3ce3e7654917caf8c203e1a54660b60cf251a9c2dbcd757028f0c88",
       "11ede596faf3336c244fd08a9c2042eee155218b4e328641477bde767f1dfaf0",
       "d365d53e5fd464733c8ec322d3e9d553b0720bf4cd699255a522367d01a9c623",
       "c1da8f0eb94b88c858c8208a4b8fc80e5f7dae73048541d40f4e74c025300b3d",
       "16152035ac5917b60712d47d4fb13bf53de3e9b0d1f18b3da7b335ce4584abbe",
       "3d5b1f64f23962a846d60d0ee0f7c8cf818502a6a4612d9e0e2d4a5e115f6421",
       "6f24328d45f5df811a05187d1a0b0684fe28a6ab1ecdb5c18b7b75c4a56f72d4",
       "af6cb6aee4315e84652c2bb62de49d1979741cc8474b79a2593bfb5050f03805",
       "5c08409e49d91cf9c0d1de82845d4ea9d5737b38545fd6d1a62ab95a0fd2a36e",
       "555439e38e1f699ebe1eb12c9eaf7854bf44fe2f0382b447cbfa33fbb8e802f5",
       "044936ae894bc65d155aac90696592074f60a01a4e5e10a1d122e8763d40883a",
       "59e8b116c8a810982748d1450b3b29a9ac9e8d2654c67f2e35a52104f3c61adc",
       "e571b06c316f6d24b9b51154be1949bd651372f2ddf027ef1f779158bc060df1",
       "093ac85622cace2616e68664346c804a1bd79d4dd46ba0449f16fa460aa84afc",
       "9222f63364eb09fae7da5badd71c47e6dd9e58d50dcfb036d9be7047729cbaab",
       "3ec94879f2a9dca1cf8a0ac6c8d91c7c630d7826b44021c1d284ff2bd9b3c419",
       "8d809556fbd7c13b353198db7fa3abc01545cdaf0e99de0f8eaec7b95a348ba4",
       "dfa053e8b1d5fff1271d61c81965b64aeefdf2141adeb0dbf1e7da5bcb41767f",
       "3ec35f828431a1eab341205d7ca7c66a24be97700e8c7768f54caf786c73a6a7",
       "73197164e3cb0b7062ca5ecf0d045e0004872faab3af18a65c3b117793d7a4aa",
       "ce409217337190dd158cc098a0f5fa103ef98c7009a98dac5f647e93b942affa",
       "790e9600759165c2f3feb8f739ef474d73d2c1165c87b95f4305fa097a895430",
       "ff5fd6bca9ccead3f1a4908e6f6122cc5c75e7ae7ae6726e767f10897239f3c1",
       "aa3fde4228af2ea1ce4bda673a1c6b648f405c512276c434a35cce5a727621b7",
       "01b82927976b7a5e5ecdd49ea78931074f8f43169af3526e8ea588087e5b2aaa",
       "68e989048de83f7d525802a40305ade507bf74ada80c1e37355c6c366b667314",
       "c518689ea958be5ea53bf1d4d9d3e1d818f4624c58171bfc27f88e25ae6199c3",
       "0c2e9579c636de8eaf577a68bc12ab9ab0e8dc0f5ef171f4128719063df26d04",
       "0698002fde3ba64f78348e895562aaa0f0f47e42a17023a4b39e7f3e5a655cff",
       "231a8eecc0d6a56dc5c82916da21c34339a8f65c8686871f359c89b42e097969",
       "08dae82ed255f4babc3614cae748bfae32de807439e69ea99a036aa1aef8e1ca",
       "8acb736a70f64b5fcfdaa5ed8467b04d3507628cf9cd2bef41e68ba7e5d8d192",
       "6144da22155bb56caa2c4c77523b2ee9b380137ead8fcb7e030bcc6bfc882b67",
       "d38cc2c512ce2dff87ea9f2a1b0d2fe8be23f60e208e836e11c2e60972f6c77c",
       "56eb53db5f58fd2139aa67fa5ad2ea47f936923ad01911629857807438d393d0",
       "07bdeb5fc3a1f5ca70fd4f78ccfffb819e214d4eb0158b307345a5abc4e587c4",
       "93fdf1d59128a070594801ca2b88fc43b3e4be92ed7ee5f3d2cb9d2dc34f2cce",
       "93fc0eec7e2093f52f4d738a42e7baf9e21716bcbee1cdf3675aa2ec722c2209",
       "092f6240f5be7a00e134a71176869fec591bbabbc137fe492782d26c4faaddd4",
       "95b26cebb06e54341b093b9fc70c5c90b180c4bda2978225d4eb6f81d8682fb2",
       "13a183335dfe69fa632b8603ed4de0bac1e4b9518b201f7043ef4783f4677cc4",
       "523b6017d8271dbdbd7d06a8510c27f2f620d6d66225ba44e6d6a2278321e42b",
       "4422be556c183a6f7119c50ff725323595e11ac00b0d4b4805c34786bff557da",
       "ca5091849d6920335f42db3e81a7c7475cfc140526da5c0aea48a06470014f49",
       "61bf9f20b164adc866170cd00c4e063fa7b2cc7cd5a9e60820ea99462497ff27",
       "2021ad2c48d0be3067091dcb697d01407ac5f8c915f4c43f8079f0df4a847beb",
       "1d4fc5a489e8e2934da28286e955e0a867df7c7f974bf045c5f0e6ba6bdd8aba",
       "e272f406ad1d5345af6d72d2dececaf19a39098775d96647146104b9f9cf2bfb",
       "4ce23a1fe0671909d39d8dd3c4de9dcd6b7c6551bd79ee1257da1c15acd679ed",
       "f8c9432ae6251f390077fde2a43dfa7f73229dc54811d958852b70b92d55ca18",
       "743d3bf324e3c1b22d9a4e301aaa612ea9ed24bfc3549056c43bfa19749f2d05",
       "0e22a3eaf8cf7349bea039ff2de497a857291a18ef3ac1d6fc36539261d155dd",
       "ee4822248eb9551bb28eb6cc5134f1237a96633cb3deb8d3d187e28836a52ed5",
       "ade3cea96608355335f1ad4df71218b0911c41fd80e756f9305e620b2f2bb194",
       "4323fa16d4b66f4a262934cbe95251ff7ce4ad69e9dd6007f44d62408075686c",
       "8e14a28bfb9205482b8044a435108dc651a169bd4727a541c48dde8eb3c18ade",
       "e1ee34681f9060c261a467453e8a62261370c67c8be625962ef7a2f68f02fec3",
       "21aa2f60a4c64dd1398dd533abb95d782ea24a94b8f90c4142212eda5d100f63",
       "60f83b8840537d2a6207960afe54447e80d979a35f4b496cc95a3b83a53d5573",
       "c500cf0f9aec1f2454dfec36c1871659ad683d0bbb5ba95fb0b88ea459ab8303",
       "a0606b490afcae8696759f6ea67832a3f49f231d7225a91a45fbc246d3398bb3",
       "f189af3da042c01c0a20f85ad1f6f9a50a7870422341bfc7c7a84d0b70f6e16d",
       "e33f0b3f1df7572abbb9240b82f11e917e6ad25dba1150f56f4c7974beef88bd",
       "d9855d5a41be573298fcff941ed9bad234f5effabeaef0e88777217fa3f6666c",
       "2287cd1e1b30f0b3bf73601824daf99a831bb2ef8dd4e38847a6be5f253b84e8",
       "57a6da75c430ce28d6583914073fb1523c30f495cff973ccca682e128c9057be",
       "71e8b1d84850f4813ad9042e82fd32a77da8f062202670249c122f7f93d7433b",
       "a8546c4f75e31cdc573d85ec9a5ee6c311c3263863d69530c24a29932ab347ed",
       "2455b62af96d5b998f1f0186000637bf6d9187fadd7d36b0363bce09d1597908",
       "49fdc54688ff8841e3151d1612dac80626a2bdede11bec4fd4d1553ed8b7f4ea",
       "22dc7b7109f6a17fbff86b1284340d4c9042a9c445568feb1ff03c3f04948d60",
       "1463af5b6b9fcfaeb23cbeabdfd04bc2b438d4fa5b8891f45ff8405d9f032969",
       "5e7ccf582590da2f6cff69dc4659eb20c5a1b8f6a2a507a3d93743d5ad34792c",
       "3d36b99108a8b6121798d80bc3f21737a00169a5cbf8b78239b37dff4bf68a4c",
       "0213e4845144deb6dbb5386e9e688111b190e08386be123aba3b4435035ee01b",
       "2d06238397ac0015489834c4a6a8f039ca2e534ac2c84c4db898219ec1d911ff",
       "00e3cacaf1d80e21801cdbc4c222f42fb096a378b4d311d02902ca74a2d9304b",
       "0cb3d6e503e4ea959131a0f3bddc65c92f40b745dd09cf9e2d467eddef404964",
       "0b673e22eeb07d35375c0001524706c72c2f2c86c3648539b3167d607a254629",
       "e26c2cb8eef2596d586418ffe468fd547e8cb46e5b174371406bd997d410bf58",
       "126cef6de97e3f5a95c165762a2c5cf48864d809fcf1973add121e6d5ef8106b",
       "dd20f44739146af93f2879b35cd39461c90b99996d156a886e4f68d445aa5255",
       "8e4404d291c92fe88debca0c2582da776fe08bdefbe971edee0106a60e3b4a9a",
       "8a3112898630b4a3f6d26aa94fb369a26e5004dfc894ea9aa616416ada071f27",
       "1c12fd298abbe3d6734c7a497d4f5b619df3a36a1b32cd01f58bf488b5f18c35",
       "7f610e0fb4930f9ea87534ad6de3d8900da5ffae4cbf8db6e57f288f6346d1f9",
       "a22570ecd9fec9e6be207020888eeefbe8b10e669e4d42db6b7c53fbfde7ab25",
       "26ae0c0e069d30062b21fcb4f02514b51a424a994ae9d3741885b7ce28b7dea6",
       "59f5b65aa7065858760c22bdb107cd24f238c79cb4ab204520bc28ed04f95d43",
       "4d61384085548d452e1169aac58380cd6726ca942b5cd62a9674acdf4696e977",
       "8f808a7199a1b604a339c97d2952c090e8a07dfc49fc05358af613d2609142ea",
       "e98b62d97da60e10f24bb6343faa9a5561e00a6890989a757c5899b00b55d2d3",
       "b11dadea48c87a3f130f5870013749d25fc9cc3b4bb74733b517a4385de731b6",
       "9125ed32aa1c063937cdaeeb119d922d5e894fe85a90de7071ededd3513297e7",
       "4f0c9fbc47f9a76a6ed938213e905b56f5a50879a79490dc381e2e6846b76732",
       "40708fbb386a5a9d3a2ab3f32494e3c9b57db35117c9593c43c120ff1394bdd6",
       "dbb9bd4ba6f8d7479ff7b6da3d32fe576b698a9303bbb4d375fdaad278a3deb0",
       "cf2d51ac8b6602c1240fa5a66752191362879af6a3d0136b7be4af1a1698b925",
       "f1ff0ed814d8c48f42ab3624b0d292322f6ee384082779990a3871ccb0add484",
       "6ad113a1ad1b4b9c9518666f53170b32a4ff3e2bc311346abb52a7edbb6f69c9",
       "a7fa3c7086ad1f434d1d42b45176c3d416fb9dc6c8c51241cf047408df4b0886",
       "c1d588aae4c2140592c3246bd23ec6229b9637d276d52a5a6def31aa4acd2fe6",
       "3c8bfdd80ba0b68ff07a755f6ed494d8128e55e41bf13f3a57441b9c913adecd",
       "cb664145494c2ab0f6871ed1c6bcf4b22059c9c6cfd6e17c39f1ac2fb77c3de9",
       "58c486d64b9fa96c242297800c5a236482000dff144ac387c08426df2590be58",
       "aa8d425990936a8d097f076e925aa722e5c37082b824a0dc4d624cf08976aa48",
       "d0e5cf764aaf2dcc93d5b6c566f416def9e80c8ad7e95c75b29f70bb24158d79",
       "fed04efcebfc9f0cbdd60ed754198b146cccb236484289c67f83141fcdf3fe65",
       "40e5bcf1974e6c9272c6237eba388d2fd43121feb3aff958dfaf60bf99959bbd",
       "cace74f9b8d3eb12a0ecc2cd01188b1b2e30b08e75eccb4fc7ecd98ef75321f2",
       "8c7483eed2d4db2698a12103fe7c0e1bc3792495e008bf5ad7382202c64c397f",
       "1b2b5137ab62abc3868f9f83bcfa144d1362445b0dd685c057499b0770b113e4",
       "8d1412c554dda40efb07d9e94d1f3c00f34a9f40d5db1b7bb251b2fa7fcfcfc8",
       "3a72c4b36283f4a8acbbffdceb08133459188cfddb5740c7f530abdaed775925",
       "5d5c6c1cd74b47b8e99c43e244c155cdf8ebed48478ac2fb85699fe757c963d8",
       "a88e029577abfe21c2266145c41847bbb7c1b756a00d13247fbc3c186fd293da",
       "a2b52e336a406812db75baf2758063a08554884ccb78adc6cf2255da95d6ba62",
       "575a8b4d8dcdaf99dfc20138fbae25b3eee2cf50e82eea65d40562ee9f055982",
       "8cca7690a0eb4fa804dbb1f03730fdb2e329d947783118626013f15c98b647e0",
       "5b63747c8c882f2e2be2db4ff176ec97b852ad554250806de5c7f8676fd933a6",
       "aa9864e177f860c57c0a4279d3aabfcf1efec7a261cec9545d977284eb64f2b2",
       "f9a103ab7ba38b8c89ffc06dcc8209f0aa9672d46d20327a012aac39901e3187",
       "821e7956cb3f1de8cae96de861da0bfa59b7f4525f66428515ce3e2873fb7e9e",
       "6ed4b634d3eac81fb8bf8a099eb4d18de09a047a81f07679fd95014cab92f45f",
       "7dbb4adc9e0f4e6267bcb9b893c50db5dd8280b597a747e5817a5d32feb22ac9",
       "a9f8b71d58466bf766a7f7218b1ef942325f0fc9e6829f4d29ac30a3b0e3df58",
       "59fd716485ae013e224dd9f2c76b6baee2cdcfecaa33af0cf7b8f1199203b785",
       "7607f15a943a9060448741bc67acfb04876aa4eaef15430cc2b96614fb7b2c88",
       "e12506fd8bc9b046528d5fb7a12fcf9c7b6fe4b3c65c106cd72e04d504364b32",
       "f44874e15fbae15bf5e70204c693b387c450f0ce38ec47b6c6bca2ce7619e517",
       "05110a6ee8d2b593b836fd303ee1c74e54f42acfc0b08db1166f889839b3a4b9",
       "e43cc939c2bddb7779c35986dcaefeacde2ae7637367a62a33de85f377260049",
       "75f4c2d9f8a1edbcd4871f2ea50375eb258e9fe85e1d8dc612240f43bc46620d",
       "5c4e2cf1e82af581e5b7a9cdbf94614c43524c5d9ab14fe8826278c7fd7d9178",
       "b853f60cb5210044b6889aef3c789740743b3772554ff1501168280b3d6e33dc",
       "05f7d7ba5171bc5935adbff9086cf901fc9d23ed00ba67a7d15dd180e9c71598",
       "1334800b3d38adb0b568e1166a779d8a84b184f8a567ac4bc806ae62da1ef687",
       "b3caff6e978db4f36479999d42b4e10b9927c271487a49215daded1dd3c3817c",
       "21d8e01aafd1d267534da0ca1bc89b1c0030423021fde4a95459fb98f986b2ec",
       "2bf591130643cdc93f12862bc01940a1bfd4959aeeafc147bc5945aa8cea5a32",
       "b172b0c357eef42f77a354ed3d72407486d82612031ba3dc01c75aa915e6043c",
       "58ab8fd7f624688e6dc86096374149202abaae6cc1863476d9f3ae3f03e3557a",
       "669e57a540246a46a876703a49bc8b3997d3c02c48d1dd1a35dea91cdaca3092",
       "0112fda1b7f5a63d102f275b95f9062d3acfa6a9802ffb4491a431b10fe9c76d",
       "521c224f249c1dfcaf4f36c4ff7b86a806afc6b1614e14de9f914ab814224cfa",
       "35ad50d813de9d5b9a32e48be1b8341df8bcbc42b12d930381727c98168b4ef1",
       "61d3506e4a3f25f213455fabea377ab19783af487dfc8026449ea086d25e9c07",
       "3b76347c01b522ef9ea385197053bc9aec42b7687be3fb23f450c0d8a5082ae0",
       "3988fa9d9406a9f3e2db7ca9f992fb57155c06a1dcbabe898413deded220e5ef",
       "77b91f642798ba192d7c74805fb3915a817246d4016d0efdea380826a4f3e1e9",
       "2d6ec9bd81f96a8a6d9d72793426ed3c4cef5eef892f8cacf223fa60bf16abd2",
       "287af780c6f3389bbf566c114fdf279a443175f535f33acb3cce5192826167d8",
       "adae4f91c6dd1f72bc896c13cf20d90ebff799de845c9e22772bbc9bbf2039b7",
       "5343aae718abd807a414ed4ca08c9b66f1914b101a51f86f669f0850af028163",
       "952618af1f94d1a040225136036a571e08c29f93a4a592af296ff1776dfaf84e",
       "eb3441e115f5a0e91f4ea3e8dabe8a39487def58ecfd42592274cb5b0b0116a6",
       "cbd5c11ca8df7ad1d5ecf7e7cf33bc7b467326c6fe2e2d238878b901c7f3c7f8",
       "fbc3731c9fc45c96fc795f40d6cf2907b301d920e7e99e862cd1ee58a20fa7df",
       "801f40a1f40d3b72564d041df77d3d81cdd0ef1b954ef961cfd4b0ee97eb2603",
       "99e7154719b9c7e819be8a8b514d697ad4fde4d19138ede552464a4a98f8776a",
       "3e173c2dc85cd4fc222dc81e7db96268f32f3a1eaaa28c309abaf22dd3cf3a4c",
       "d70b779469498f80289ec2406e008679e1d3e4a60078a2df444cbd2b2f558aff",
       "6007040f2d8654471467e3fa862c4e0b119df44a0d48bee305a214a8326a9021",
       "6c576ae7108c9d5d14d6fc90ee6e0dbd9193b3e5d3e68de100da40b6ff49fe1d",
       "cd7991c2a379c644cb39a40c637cbd7bc38f9243b5098d33536bda4b2c4ad05b",
       "fd6ac77ad1923d7dcd519759106c15a052fe5137ebd2241d052f0de5b92ec8a6",
       "e7b8a20f8a8d9372a988826583caaddb3dd0abc475aee1debb9d17603fe3da21",
       "80a338cf60e09636cfa4fdaeee4201106a70035552021e23b878f3c2439e9679",
       "17dcd8b59206df59df49746c0d6f4c265142455d6aee78b6a32e3c761605f9b1",
       "7ae7670776ac94481028a17c877d33b6871141b34abeecd028ed7e67d93cb2f2",
       "5c2f9bb7f973dd102c06d60c68315d5634c5c8d5f5a2d9b695cc6a76941c6df3",
       "8d3921ae2b8e2370b8b1a3298e3f43c31ecf8d33444666296785f2ae6db96d71",
       "4dc0d76845359efdc99eb28b098f8a1f53ac515d48f46af99af121a0832e6e79",
       "47731aeb48fdf53b9d0ff38c8f2e76fb71d4b92252d5e9b80af6bcd79615db17",
       "33cd5291f033acfa8ae6f8a5e24486a63118d6266147ebda0846fcedbd248669",
       "ed4d23ed35bed493ef9340aa5cddb277fd85393874d7f1e5384a76bd84ea7818",
       "b72cbaaf8c17860c0992d62e1746fd6f888ca5fe7be5ac7d1eaaaa5fbc765c43",
       "2c8636c7729b47fe9181b4de1f5ea7503204f51757e8210eef3326781196f99b",
       "76179c4e1aff16e7184b5bda70c29268f66f6095d8b120438dfdfa2405537c5c",
       "39bedf2360eb8c1963cbc5df8dfe1bffb051257719df66eeb5862673203caeb8",
       "94a2edf752e662e35f2545eb5ae9ff8862bdffc3c2c6912efb3f9b66acba62d6",
       "4d10d00262a0f00cac457b2000e39ce51df8a6ed00763b79f811019df0b46232",
       "434be76ff122c764f347bd7695fe8994d654bb5c4b4d2e0be43bee502b6a8f2e",
       "a6c2e866867c29bb263fc9ec7917d7676b6056bae4082aa990201bbdd954b856",
       "7548eb3ad38c5064d55057dbd51a0deb5651835912a3b52bf4af5d8f9637c617",
       "119a1539a7380b49353099cc5887826d2c810219eb1a82af1fb90a056ba95d92",
       "e81cf595f77d916e6e1e2db433d34d2e75e57c5142ad99f9c8064173730afcaa",
       "f937a4ff5ddd51191bd5531a8604f938e7f83e5d17e69c4b4cb92b54d8f1b8f1",
       "d7e6913d941669820f8a276965ee221b1c74b6a1b764c5d0e74763ef7e0c5592",
       "52524206acd70790334187d4a12f5a96aac359481c4b94748d19ae19b9570d22",
       "202518bba2fb1f1b1936538762c251b3fd46c2a0cdf8e5f2e17b3b4bc2930325",
       "dd8afb7d93a9a650e75c466772f995cb4a4cfaaf4a87bad3d88435eec56ae312",
       "8f849f33a9df95887aa40a0376045b31a6076bd3706ab28b967386a4ffd78813",
       "105fad4e926543b3e534731e0fd83825911fd944436eebed3f104ee5adbc9afc",
       "2b7ac9a88d11e66b3e2b1d46148f1be17effa028307c441b49e412fe475cdb2f",
       "e85c8274071adb1fd437dfdc131085e5aeb45540c9ff3940cb754108e0a38372",
       "e66a94ca7b2ce25eaa0af38752c614eabd8f20f505262c4e196f8c9607034f16",
       "1c34358043da77764725ce81099312df0b75a602433a3f06a7b074da460d047f",
       "4124b1a2ffb663304f4721f6fd1f8bb8a728307e7244a028c13f33e36f56c0c0",
       "3cc4350536f7c987f169188001ad6fc3baaaba6613d4912c5a77701c8cdec34d",
       "222080a230b2faedb09811cd91ecaa663be951ba678b9a4010b96a71ce21b157",
       "d9c89cd03c930ec6f816efd49fcecf9b771a60b3c19f89c1ca410195c3380459",
       "6ddb35cbf34fbf6ee09fd10ae9bfdddf50239f96149551fd05b02d8df953cd94",
       "08d29c82f36c8b0cb5eeb9758c23c255fd2ccce73a7e805d3512757b2ba4fd00",
       "992396a6cf67ad6c748d98fa4fbf7758343ce4cf5b8422a5a5d0af7a61550bb8",
       "ca4c2d54798a799578a0d5dc3fa3350fd365cbe6c5bb09d5e66600de5d7a152e",
       "f606db895c7ba8822f671cd618260bc57e064eaa8c1d56aa6e1ef8b44b1c330f",
       "aed3ece83b4a126e88636b811e9ef47d84e2b860407435a766c13c459c2f1b65",
       "a58945e9d1f70c6e8df0402452e6ca729d8d9d6483878e66557407ccab97dc5c",
       "d9dab89f5bee4ef5dab5b42455d1b17854afda81f89315c5c116bf9a4aa3d04c",
       "64fc186205f4f62c40559417cd472c322d66b2fec60ae5c6ba3ba5e26bee2d38",
       "1b9dfd777d2f9b4edfbfa0203ad469e1e63f8fb8a724e300422eae2175bdc5a1",
       "f2d1f6c39e183752775ee03c7d18f0cc2f35e1d4d9220d5f59d590cc51948a45",
       "7c58908930c179edc3225f8a041b58fe99f43f669d89b41e014cc8726ecbd6b9",
       "750aab7f616c43ac261cd5e9b33bfc08a7ad04bace88cce1c9b489a76d117977",
       "83fe55868b9258d67193c17bfb187292b7e0c3e91a1f4c416fd3a8915a9b3b4f",
       "fde043d65064464f29779dd97410e73916e26a99dd9781e1b00be1bb5e66001c",
       "ca32b2017bdcf208d8e09e089c9a44124e6a9a26b08e68c0b928e3f2cefdb425",
       "56e78ab46a30867fbf48261e8f35b135e90cc95da3b781034fe61078a317fea9",
       "561c13034544c3df5d528d41ea5fcd8e347d2997e35265e9a18afb4a32902467",
       "4f0e02dcb3724f9f1b03bea41b59c17653706021acd55ca3d9500d4a38f9b21d",
       "d6b564c9762a5434b27aaf9e1cfc6cf59e071a0dd56ae1cb81d56152f064b25a",
       "dd1eb00442258770ba84457bd7341c495cb0d76e49b167b39c598bddecd562d8",
       "21b24445c3ffba85fd085d35344c2d7ebf9577d33a446b38b8a32f9e4fdb6703",
       "543de56f55e9c63065b31f729771128d37f84af9f34ac55819df987e32f837f9",
       "d8ad39155c1ce5153365f9ae8c8c740dae75eb7efaa80428e159f86ab1c055fb",
       "c2440585f2d4ce25e2a69f997e5caf2d9405779a6e0d637b847fb57723fd20d2",
       "d978f35e02d24845f845cd38d71f8e9b7dc64b249a4b12fe3d31597fed7214e7",
       "0065644b41a71841aba96d6d9ce844398c5b07079049a840f992caeaac145aa6",
       "fe841be581a4f572203eb16be5ea6254bcf99bdc36f0e24b01c210ebb74fa7c4",
       "9cd84e0239ef9a64b42a40207d0d312dffab477a6a39d896ac04aad0ca32abe8",
       "fa83bfcf0e523aea06acb83d7a59f83827bc015115d6d7f3b0536895f7663597",
       "05096df0118a2c7570e99834d06f021d176c801714d65b1e97a52596b881a7a7",
       "3fbdbda0adb2d21ec642a77fd91b6d2e875058efc812c5fe6e6d89a08c2244fa",
       "f4a79cc3fa65c8e03b44fce725db378035d14a66267ffc81c21600531300122c",
       "620288eff4a18464676f38130e738c4be343d69cf562a43bea90d5e6540a80c8",
       "f851984cedaa8a0944b46f9df9650db431ea12e3f4c73fb24279700c626b5bb6",
       "85bab589071e668b7c671e861a56f1acbc8eb6cdd1f4f35bb4f5d3cb9ae4df21",
       "b0f41f09f35431e59528321919379bbe19d5d64570f7bfee16602d065b061ef5",
       "406b5e3559637a8909faca2432ce66f8aa2991e871189a762be4948863dca0fd",
       "9a7d8223cc18990c884fb05f8964c0217f1edd187b8ce80c5749e14353ce0d60",
       "9e3259dd254f15b81c7e2cde251a4bd60c9f51bafaaf63f85144de71a46d5a84",
       "c7b43b2ad58b6e4698c19fd4d950b2354b3e3f21fdbe363353adf9b912d8c078",
       "eee66e5ef8f04d9c8576a205b736273f7621aacfae3255a7dc5c330b725956e6",
       "9f6ea74d5749bf4a3c7479715ec68bb866631ccb88af08229ecea82cbac140d2",
       "ffdb477c88ceeb9374fe3d9df3bc3a10ff61b16d51cac34d46a005fba89f2753",
       "60d7eac1e9473d5db277d7d7715aa166b3decdfb78f355e11d78c351197fb14e",
       "aaaf2b45d7b370358b603382728dbe92cce8423e1216b5aa08ce032aab491329",
       "e712fa03dc84954bb903a609f3f25701649d02152d762aeaffa75c44a5ecba75",
       "e31b33cfad2311aec7b44cc71e5966283ecd03e6c8bef5cdc7182f944421e8d8",
       "cf475aeb95a025c555065a0f4682c6ff5197bd1034a353955230547a81ba5095",
       "1d7c181e691d4a3454ec47dc3f3e00f9429eb18047f34bc0d6e4ec744ab57753",
       "3ca981863ebec1acff2702545d4832614acbee7f8d5ff59566500dcc8dbf2487",
       "72abc13e5985fca286520510085b6708ccdda83b29fcaf788309030f0e641d50",
       "854d8fbb206b9ed1d4862d8c033a7f0c3e3edd094eab3e4bf71b326c74c4207f",
       "2713df0e3ce91f3dd062e3079acf535aefb16b8455ca4d84f287bf536899db00",
       "32c7b6142fc15805a0893ac337f8cfd6972f8290bd597e17512db1f847559039",
       "e17ddcd8630a64cc01f241f560e4d774155414a94a0764876a2f32f185f6770e",
       "417adc72937dde8f8623102d33e56916f44c4fe14a84493411ec2dd2843260d8",
       "1477f8cebd5dfa04fcb625504420c2cf7d87ff153cd372d964b4728eb2f7f9cf",
       "b5251330798b278c524a3654badf9c691411b716c4aa96c789ca6bf1e247ee58",
       "5c62361c713377a4d54a96068713687d8b7668f90abb53a4885bf32bdae676af",
       "e5997b62cfb73b00b5b384269f0ffe2c7f68cef2e4ac0471872040fc96540835",
       "96dda2e67d68825864ceb1be0c604fac56b839808c8488f56f590ba010984d18",
       "2d101bfd3fe8c4e2874cbcd8d2f2974d60a2a6a33f50603a6d1ae8c37fba7aa5",
       "ebd804df8361dda473ee0880e3bc24deb4b01287b5b5e8ea5156eaf9a1175343",
       "328c92b583685703c2257be05b4384ded3f5c9fd6240c8444205e1cd9ce81e97",
       "f1f85333355831c8c25cda972b01305bc786563d9d38c0bbfb4a80f04c15db10",
       "4f52eccd786a4ed1c63fe869576c667f9b9db0639d54d6bcbc6e0355f64001cd",
       "8f638eaea553693f704f31a0a023d50bee68076ba2b7b189c9dea619fb03a37f",
       "26e46f65c4ceddcc07291afc281b4cec91e6b53df3d8a40b103206d9e635d539",
       "9342be78e391468674af07bc6c2f3d939c259d6bbbba7d57b00399d7ba55cb43",
       "a5896a597e9f5ee7e85874772dfe4961a90932d00024cd0e1a74b9bcea24c8c1",
       "d14748f7ebc3ef58cbd39b7a2ac70f3d72de74521f134cb589eb662edca6f8e5",
       "0bae4e2487935b2cb716fd01ac7c8ff47a9a88bb236ef4e328df12bfbab9c714",
       "7ec4dd07c3ba302b9b11bd906ef0f78f0895609bd475f99cb9172c4aeb164542",
       "6b9a8a482728f272c04a17ca7a44c832c56fe6be72970a3fc2616d208f1217e4",
       "cf58e75ce08eea2b0efd52da6bd848b5759e45eb1c8158336aa4709d0681d657",
       "716a98f66b8c54210b11d977ceb1f65d6d9391b27a9652a7ae2c080e5ea9cb49",
       "903e7ea0edafd8681f9fb8ce52b6f88aca863cd7adc4d266bc9a2fd98e743c8a",
       "2f6a66cfe8f147313b5f1d5e83280508d3a6a1adc292d8203eb24ef87f2e2187",
       "59ea4631813be71227daa8d08ad6f40415ef463b73e92da1f099827614cf466d",
       "af1f797326404a6577f65d3f61554d1db85d6c5e605ac6b6b836f0f54ebdf928",
       "0df68a4916e3f1e7bbda83aab21b17308a7070df3fcc4e43d05893deba1d3eaf",
       "09ea3f3b05c2d045c08390a7643a4247e6b2ebb457d171ca4ffab662bcd506c8",
       "45a1c1335fad2bc928e0a0832e4967d805b1bbde86a479fdcfecdf4a2dd211ce",
       "f6259c63a8504a935aaf3753945db936c31f96a379248c3330f6a337e7305ee5",
       "0abb9b242b90da8d30eb0b0c13eccf894f3b955e161045844840abb846d0cb37",
       "9f767ce21048fbd50c751dbfe0596db0e9796f28618baf018a84b89334b86b52",
       "d106ec568cf02e421d580afbf3c69cd02f8ca19490e0e1b003f2ad63db03f37c",
       "6d8f9ca21cb250cafce49c358ab6f5eec4284b2e17ea2600e4481c5a4d488b89",
       "c18b5cd3cd5a70948f379fa0ce3faf2d3ead65200d04b35ed850b9c15b1ec2e5",
       "e43143ae7e63916386481d2ffff25bec4c789214b92039d1f083612ef41c0db2",
       "b86ace4d8d2490b3973077a9ec6c1ac7ab2e6259694214a210193932961a8fd9",
       "ce8f38cad165e4e51af4055fb6d852e0a53519bc0fc3672445b6ae118c683a66",
       "bd97a4eab542dcc5e0fd0547b4f51bf6fa825a56d655d7b9bcc538d66aff311c",
       "015ac9df9d5a1b7a9e05c9cc9883dfc1814527b33f6d9b63ed59b9b0946cffa7",
       "5230c53d1268c0cf6b672e455d2a880820995317ae65d0d4af90ae11d4d3fe46",
       "20e9e85d9adfb857254af6742a8b9ae9b67261f1ae95ff743a99f9857d7d67c0",
       "228ab24da7d5b19cb70af23f8790d759822989abafff71342a5bdd01c618952a",
       "0c53134ba175fadef2dcec38223ca3f473bf11689dbe68ed37389815bf4246c3",
       "03aaa325318ddbda0db94fb36413623d2fed4ca9081770413eba0040794414c5",
       "8794d0ef37e0e29304a1e0d98c071fbfeab49fc379deb3661f55129a8790154c",
       "55641ad0cf0ea573450a9964bc1acbc3b145b6d4c0ac461cdaaec5fbc42b81c0",
       "e2e12fde4eeef88033e71d18a8076168c5cd1d37928c2fb27003966176cc027b",
       "54009076eea53f168a99ffd07cfc348ca6cf79d4c6abfc61600c033513301e30",
       "aae054eb133dddea7ad2169149dc09c17d8792935f17a1078a195a3ed2fca5a0",
       "3e840d8af6c6864387226d7c54d609127ee13f13a59ea3c6c3fa46314bd4d0e0",
       "1e48d6d687d85b482d6e5c68060608b92d0c25de7196b211592f0a8be0536c71",
       "a5b75f223c57a85e5ac474e303d222b77d39ae8ee43dcbab05fdecbd07165b07",
       "1f1a283aa374d0108957db066e7891d2c775da34e488e0c49f60ae2af181d4a4",
       "d9391b8d5add2b93ba91c9994e6d22b8b1626cff2a069531e7a8a2d65a697340",
       "f5822e9f8425d51d15c63673df75e97d3c9ea616fe5f7541f1d7fb8cd9071583",
       "822750c0ae24f0401723486314621a85cff38e0eadaf7071a5b007f483674324",
       "293b6147f3b0318e51aca8937c891dc8cb508a09193daf5c095133b3880d206b",
       "44b744b6b01cb132b34ff74a6747f1130ff7f58ad1a9ba1a8edf65634a3dd7bf",
       "4ce055f7581b40259597784d604049e59f9d9a408557bed47a77d3d089a3c3a1",
       "d78e667365f7d89c90b217e3f726c9142da84ed9f39eceacde3b5e847b85a721",
       "59bd045991b53f46981c6cf4c047ca6018dad15486c7e064ff0170cf464b37c2",
       "d7ff029525056a0033f25937d666467a0d39d26730cb2dea255e6b9fd32194f5",
       "fcea026149606fdd0baf5eb11a4c6f6e765325598400cd10800e6005fd1972f0",
       "80acca84092e5ed045bfc2e3e1e9bae9fc362348146dc30ed5c8d6209846e7aa",
       "63a6127403103d32fa019b89e649ab6423ec3139bb230b7575ac10f321fa81dc",
       "ca47e55d317f0764364c37b3ea0accf96017a235f84ad6a697c7f7d3a6f27ee4",
       "99df32a14f4812a3a7a7617af05b8df98d077846486f2fef310486cfba8674db",
       "9d5729070ddc7ab3cdc9ad7d9ca3cc8dbae974f26f0b8f991ea72fcaff651631",
       "771bd8dc0de03cda22d33f9314aa5af5880b08f3531de07dc05ca0518d3b03d9",
       "23113e6ee902f57ec01e43b8a59c7578940ead8b54907941634b78592953ccb7",
       "a045accb899fabf00793794b2a63cf77539d58e355b6c8f9020040c950360550",
       "2f4e94f404c0144ad0deacfd99d392d9f0a6ade2f87494e6b376baff15e9d463",
       "91d8b7070bebe0a0447def7985f2256fd1aab1d4d353f66a11bb300b7fdb63ba",
       "f6d7c677cd062971d5c0218ebc52ad30ac12b7cb2f8f925c6135b44f3b777275",
       "a5aaa6a33599aa5399ab7509b709eb61d2a6f27f4f07f8a25221fdbda867d617",
       "373a05d8bcbfeef923c352008bff247f81eda8de4451bb07d0ff27cc98c99bf7",
       "b47a715ddb83e801f77e49950a24ff88d660ca1e34d31daa7535f07df4e5193b",
       "8990bb8392db517f1abba5c0dd313cc82b44d0baa6a3eacd4e56afde9380f204",
       "ae3bc6ac97f51d7ea7b83c84942c0277c3ad2764bf7309ba9a1cdb33b21e3c7f",
       "0df02b579d21743f3582a33fcb31ab3a75545f05d74d79ec35877ace0d7417f1",
       "413647d66045df10cff2f551adde0740382fc3ff32d1e8d16f2ea70a4ac4b2fe",
       "90ae4294007aef449706c72e254b0bc33d1db63f249a8779371ef25db76266ff",
       "0ccf85506ba1450e76e5080fd5a420d781a61e061cd0607be4a5feea0b3b038f",
       "9541397104bdbe5ab7ea698e37c4376d6df24a136b2b965fd9de281f56f9edfe",
       "5f59390458678da7f49ad9846494480965cb3695a626ef0f7c9a280d1b573738",
       "5fed301dc94df048a19b0d164095f336a77319f498e41d371a155833fd4d5d6a",
       "768a136fadfa746a55362d1c9833744e781bf28c81261f249c9b10a0cfaeff0c",
       "e768b7deccf138f87da764f946f9a3dd8d6a2a4944303f6196fb2c55ea2ce6df",
       "c519c8464742778a463fd5e576d964719a311217dbc77ef8e25720b67c896191",
       "b7c1f9fdb81e6c58f96e91ee4a366cfa760a474dfa6b0bc05805384f1571efcf",
       "883e07e627b8fc8900c63214b8a56caa0b20e0e9f7891bd1c2d86816ab9f47a5",
       "0db028df60d540630ff79e5f9672b5959648510c9cb780c3bdc86deb3211d17f",
       "b9a14f89b7ad3776fe1ae7451af8d6ed24dd6b8fbb6265ee976d95dbaf33f981",
       "fa40dd1cd05159ef5d0da27983d374c613a3c17322c87cc6e27095b03be4b514",
       "bfc0fd16d153443603faab9cec83d609041b0b606bf07a6d82e80d5d7ee70b41",
       "8c550a364cd1b12e37c56b23b24b7821b57a76911592a4bc40665a507889e5bc",
       "0aa149dc82640abcc0fbb4a8045a70cb53a6b1bdd4354185f70b097d79543738",
       "f44ac72a1bb08e33435d9c1a613ec2fabd3abebbab09e8c38fba3ee7b87d92e8",
       "e06304d674e9b48a95ad517817f7264d6701a623b855a1ce6857dceef240e24e",
       "2aa12f93d0aa9c963e33aecc46065175b0f3d23bf5cbbdd9779410edc664fee2",
       "995fcf27fed1f2e3d4cede99fd20fbf028d6dc30a86798882558db9995211256",
       "f22aa02631a1c6cb31e60e22744192fb1af52831f26e4b35eb6d411a2e75d8b5",
       "b3c69ed540151f4112c76d451a7a88d29e5e7b0222345add173fe83449ea8f8f",
       "7277f658660fe4c947f6a161bfd3eae692497f5ffa32b4596c4b219ff2420b0d",
       "3a48e3739d8661e82bf8686cdd797daa7d6278f5dadfe09d2eba938a19a86738",
       "4e512c0f9433545b1b8784f9be1995ab21723dd25698a5b070ca6678bdff7ff8",
       "fa3b2bd44226ef95ea79b023cef4a7f4acc83e2f52b39f01d6eb69b4743fb0de",
       "a84b405cd0efba1dd2b469b5e0e22c82f64875c9b9654aeb481f8805c88ee95a",
       "6a61139b05c47b4c325c0b73be77f51095664092a582ed6951bee1a708e66e4e",
       "299e0c0bc6fa54fffcb358822d99a0431f92aaa1c3a58e0feff19c6bc584ad2a",
       "d554b39a89a07866d8333bc4a215579c03d06e56382de5d42f6f408711f571ed",
       "c66ff28691aa24e4ea057d9b21009fd90a54a8a9f724a9f20518c7a870ec8cd7",
       "73cbcdff8ac2bab6614fadd0ebc738086fecaace46e37196d0f436009b714fdd",
       "7aea98d2d4aea81a2753bbd64b3bca39820ad2f8f1596803b9b82a565c17cda4",
       "471e81748e779bf265d9994225564cf0491fa79ff2dd428f5131f6c55cb5a31d",
       "d0e2047a321a6ddcda8f3e085737f1a26bd86cf3aa9ce30f2be7fbf3a8072492",
       "f21fdda7dde42e01f406a0609347a9fe095ca25fe8eab06129d3858b2c0b36e2",
       "8bb0eaad687d73563ed455b59f95737de1575fba0ff6e658b2e9c8048dc21886",
       "37b07d482a88c5eff5a0b4926f315c34c93af17301500ba29ad3ff50cda4eb60",
       "008dff541bfefdbae78f5c454fcadfe89726f90cae6e07ab3c28e3c876fbe993",
       "d4f53ecb2fbe8859d36d8d36bbb3a86ed9e98d68a9ab4256bd3ad2d83a49640e",
       "3091f057231a56aa0e42a3e2b1821bc4cc848dac682658515e0e747996dcfc97",
       "5d7432e7d3a5689eefdd465095a3689da0d0798c32d77b703cfbdc5069640bfe",
       "13cb4c57d03b6c135679526571954670965e5e0147c73d225ffca510ac0e5125",
       "0d45c2b87fc4795416c9a5f83aafe6f39475dc9b60cc505fb1c21fa2706efb22",
       "5246c67316b696c1b854ebaaa63f3a9809db59625420822681feeedee89feee5",
       "c1b440dd605ad00da7e6088cc4562c228691f9a6de013fd081348a4da9478a0d",
       "753e97391ebb2f6244ec489a37f82464df04063a94555250357d5e71d0acc18a",
       "e3b98bc64b86d28185313049ee7df81a2fc33d7803632e7749efb0837d992465",
       "e3c4025843585a8d5059331285f2e1a3396f7b797f2d57e693c76b01eb2f8b5b",
       "189c15de3cc3d6ba11be03cee05c449aea8a501e202963ca57eef9e44e3c1345",
       "5d0d881a8f0644bd7ecc7bc00b1d08418c4631b96857fb97280bdfb446816d8a",
       "310f697a27503601d2ac5d44ddef18fccf0a4c988d9d32032f1f9eff01069aac",
       "3605ebcc531d46e00b3610112ff411b038751a7236f7399727d55d2863dd868c",
       "e8466ee23155b28ed8c8ac89f93d2313895eddc964b66584514d10027f0edd13",
       "011d79dcd4bf69804967f7289919a0eb892a224f40d5dd3c2341b95a431e90fb",
       "2ba72d787b42bd9a2b07db993bd193f6cc90b81a0dfc6d889c2f567ce00b57e8",
       "7bca0ef696cd50486b4ccd3689e9333a50d643786415226afc03d91076ecb8f7",
       "85d3f34ea4c2ccce42e85b18425ed1a52979f6ec0e5e167f8600a28dbfcee284",
       "09e376d5fdd096a9af4e8515d46d4e10fcf205714b47e93af225f7d482a25395",
       "a6cddf5c6165ff0d75a5401759e3cd3dd8d1a8f5b1161211907b507d430dab30",
       "c162994d177e05f4ddd3a7cb2daceb314ed91a4ec87d713df435bfae81276b4b",
       "869e4197c76302922e8d2c8906157c28e864c19a85a6774ef4b3330a53691d45",
       "7b7043f00dd8ec279333d67b9ebfa8b8de548f73dbb470c7a3dc542919bc061c",
       "2fff54ae99a5b6681ae3b264d4479771ec2ece4c0492a32b0cd9622c4f907a57",
       "2d0a5fea60e5d26f91974198521735120a408ccac44a5a28b8201d9f60453a88",
       "88b9de3e0ace76d578e929da861e096c27438fa54a576ebc6e26ca3a4529bc69",
       "0b2023853cdd137e4708c3ba2334ed4846bbe49cca8e869bad94c69e336e00f3",
       "4e5efb2d0b5c711e615bdd7a46d7ddaab09cc1bfba0e4dfe24d7a6048564131c",
       "71ff91a3bc91df776c87a81692274dee1541fa9102548eb7d2b1d434fdf678f7",
       "b62c364c92c41411758ae789f84c6e7f8693c188c0464859405bd6674b14b312",
       "057bf055bba92d417a468df78a285adf40f27ecd6ff3fbe3ce08469a7b57fbf6",
       "760dc977fcdb04310f973ccedf63bf3859490b6d998df5b690444cc880eff41d",
       "008edcb1d9ae1b343321046f4f15c55be52e951b024270373ffa814f58e2fdab",
       "7be546a1d63a300cad5b03267330b3fc24d0cd6adc5de2895405d3cbb1e629d4",
       "178851dc8206eb012460e92c6ab53241ffae5aeca8733904e1526762c31036f9",
       "94fc9763ec0e67bd694de8d3afa2af31b97878a285c6267b85d1cc57e8ab6bf5",
       "cf18b7d1da644ce88238fa106928e7c580a4d857a83910751677d0d2941e3e0e",
       "42809913e0d1a1ff09eff9f243862a53350d6631043d9a284fb901dd8dd9f63c",
       "55a1fedcfcd34aa076af7de880014a4d918715ab2f60188b55f63a2946429761",
       "b73fc793b415751d0f9ec85c7b019c439a0965a9bb22771b96576024eb3ac887",
       "d944049a9f541aa732f2c8e00c9bb59a5f81f830fe49a7bde45b5366feb57d3c",
       "d785125cd632c54ceefe9874fbcef87ae85fb024db0e8fa58386f0d8833000ed",
       "74127d4ba1b845ae2492c33f4225f1104f31b149ad590be4ffeb7adabd42c72b",
       "18c263513df7d553ef2bf58e0d600d3dfc982a4af14678aad51d9abd3b0b448d",
       "09f39086cef1503bb0a93ba324432ac1904e9a7c0dea8cfebf6d971187d03b6d",
       "2f19da55f38c23d7b2fcc0381afde95f6de9f237b32ddd5cf707839b6a20b2ae",
       "331f52031fc554df531d1abfe8384f4add6fdb922d617dc92dadf6918a6345ac",
       "4b145f510239b227b11e7c1329030871b759470270f838d3dfb9bafc293082da",
       "d3762558a05684f5b652f8d43c6cab6ae139ee844c9e2247280ece7801254d4e",
       "e9717cc321aab957d6f37596c26d91dee75b2ce5747e3895afe8aa995cb8a503",
       "7d54f12e91e220e07b7fda6a8d1db423dac0774b6c68836799e3957045cd0b29",
       "f58efc25a98ea2b7c759956662110a241277afa0710b3480bcd19b3edc285b74",
       "c8fb05d793d65570f09396fbe16414005cec7e673e49bfdafcd85945f92b9370",
       "ca9eb33a2bcd53013705a0ca259fe2a604d6b0c8caede16b9248daa2d82c5055",
       "b58397721081a5ab412478b488787578bf1c6f56e7bca62839a8093ccd550f72",
       "72b4258a4c04ddb75a3d1ea80020b2e2ca472215d2f5be9dd856f59ca32ad32d",
       "9d83083d70df31ac772beea91342e6a44a3ca4ead320c8bcee2f288c7db00d7f",
       "b5c3f0b870bd36e7b97e014c5c9e045b58b29718605fbacf1ab265769c8d7265",
       "45c8c5d83573588e14679531a5c93b46f4119a35b2aa7978170061925b62e1f8",
       "18956af262409b965f4380d74bbe8f5c63603f195ffbff9c1ef62c85e8ac90bc",
       "2dfb406d060fe7faf068e4cda613aa190fe6950673eaa3d52af10a9223273123",
       "fba4bbb85a6832ef78c825aa20b8799d06646bbf0f866e7c14474b59bbc1e83b",
       "cbd2cbac8cde4f3c0274deb17b26502fc365c611978e910cbaead982f7b4c367",
       "c7715bf68e12f64943847d8e7339fcb0a4e3295bd197d0f35f1d17afbf845712",
       "aeedeb1ee122b6d1a15eb0d788b78ecd30f7f6a94c3d14fafdb1373bd6a4ac40",
       "fb8a7145e5e2ca81d0aaddec9c95c8f39aa2160f27b94cbc66044a8e1b9d5c44",
       "f64e24891f348d0dbaec341691df6a7769189c619d5873953c1dccc548ec46ea",
       "fdd26592d7eccb1fd968961ba4cf64fee7ec01372e555fcf47152b7e841ec517",
       "bbc028f48ef2ea758cf6ddb216bee00a09e073a7f28524d05e5c7cf2e621bcd4",
       "d7124b57faa8172c1f24f7b57dbddc50bfd7e8e2f376511e87cdccff8d0ef750",
       "2ecd4601027354ce739879b6692548ff44a56ac37afe933a953363182af2dd12",
       "6aec25a5e1e261f9116d925b6b8b371ecba8e735d441f9b0ac620cfc2c448eb8",
       "8e37ac115a6c64125cf912522d8268bd41a2f6de8ff800b77a6180c4f77412ab",
       "88eb7cfde9833fd6b9d64e856d1c85cdd462b6b4d7cb1e24f8b4a9dd9c1e5222",
       "343fa83d7d1dbc628ea4c36d7dad7a6a631d89256745a1f3bfd1861192a88fe1",
       "ad8d455c413d834b64127c4cea3a2bdb73821a846026b162a47014fa3a0ffc39",
       "da4642dfe1c20594ca1bb646fad6d42e0a5f68f4fa597f8e353cfafacf32f1bf",
       "d4690d45276ea689506b1e66c4b5036182dbb9f36aa264f2b35ec6418b33eb5f",
       "17b0a89d7dd39358bf0186e75e241853296c52cdba1bd885df56d872ba800d11",
       "2ee70239274a5d807083a04924faa81610294f6a718bd08da9a2d387b4a452c4",
       "efbf6016998f21cb6c42d57f6baa9249e6dd93a5c0ea605d87117487c7d4f2b6",
       "335ec30a424771a034fb06e5d72fd6e485cccfd6608467ebbefe7b068db2bc5e",
       "9194e2a29fbdddd67d25930dde8876f09f2725c24d72d77c959fc7889fb28a02",
       "a493b161bc5020f380f74d8797e30a16244370f048d1211bca2fdbc723269ba2",
       "c040310ca9007a085138cc7d1318c0eb78de0fb99414153b08a7dbf86465998d",
       "38466f8dc843ac25e86264780d5fbd351342b50c23d80b93652da148c5a7b2cb",
       "c87ba5b4499907c30aed2dd0971ab0fcf1f55045491c0e43264baa80aff7ec92",
       "c21f1b154cb16fb6343e0df76c021b7810ba78e7b62ea32476878c9fa45607fd",
       "173e10f4102133734cc0af2a9f6728954e2159958809c724c0c8a84cfbc04348",
       "f3c91c8f9d8495c2b2354fa0827f22aff3bb2f22560c263f8a87f8dd2075acff",
       "af70ac295c4069807051d0758cc3131ef79f4014630d773ed31ba369fcdb707b",
       "4193610d331a52ca250c03621bb269a013ce673ea40829c3b63fb2d78b322056",
       "f06253160c309a43c20b97895b178c6eed8ec069e3231f61b003594d3f2b0395",
       "da6941c9cd50a73b01b04faa90486c1e6e4575edbebf13a640712fb2266d1390",
       "f8b1e902f689ce9202f54784c0dbc45e16d474c1ccc020bfbbeabd12c27a6754",
       "57d4a32174c411b89b54c84bb749a73739b11e0c98ad0dadb515c91a9176b9b5",
       "70d7040cdd365ed3152073ae3d0f806e5cef932fb55f395f00b5f1ef2c1294ee",
       "c06af134d54e5e3ffd08fac0dc6dad103fa4e345e018f6be93c6a650770c0687",
       "f4763c0c82d052bf72fb9ee86a4e78fa510cd0d6d7da9ce0ea2d58b65fba35d4",
       "dd1adefce8b33c92cef4921c07d57bb4f098d144a4842cd028d10462b9edef7d",
       "fc974f1969531b72cbe5832e711e45de6f37f6643ed7ad5000244df18171763f",
       "e91b6894fcc4b62bd2000cb8ca5d5c095677fdaf193e80a52e92970ebc8d3feb",
       "7b45ba4755b8f7dcf191a4ea407deb4c8d9077fb42f8eb8ed25acd39a4378147",
       "53af7adb83e82b467b5ad345752648d562d039c3305f90b4f3b56ed169152061",
       "2419c2a8ea263a313984cae6d13898e6244e2a79848bdf99ffefdfa0aac2fe6d",
       "9d16a4260e3bb6ffa3d751c11b09c2f4fff8e916d928fd4f965dd97d597aac56",
       "c30ea34f5b34d8dee7563f97b061ad78a2abc72cbc81238bd0c3ade9e39d7b92",
       "a7e612246d003c0e4c6c422680a980c9210ef5f08db8f98ca14dcd24be480e11",
       "cb9c77db5a9cac96869441bd39756cb802ecebafa401aa83e3d6bd66c305d44f",
       "2e9354911aafeac965640c14f5b5b7bb31b92459137508e96c26931a651d5a9c",
       "1faa6b544a451f005b8cbef1309c431b4cb549ec441fdfb80b6eeba1fd6bcd6b",
       "5fc6df89e4d9dcfd5f7ee44452ae47a17e6409ec4fe795dd4afbe69a24a33464",
       "b80f07de6fa71a2183a87e9d1e28dffa3abf76a7d2320cee740b2b55058ac5bb",
       "81198e794c831d168bbc49d40535a858a2ae469eeceb92c224b2f329aeb88881",
       "b969c8cd8a3fa7c542dbb00c0241bea7056d5486480e6352855181623aa547f8",
       "7eef144dd7265ee61918a25bd5e77af4cb9cea67356e664d91080c3ededb515d",
       "87d4f080bc660e6201aec8c651eec8e7a5bf80db1b58c24b9130a6fc89cf58d0",
       "ac45ce75393d8c78a8e4191945d6123bd166c84cad4f39e53602a50fa4894aa7",
       "82a755973cdd11e749c7d87ad1a38d70e171e91d38768bd3256574c7a6741856",
       "66e24952fdcb1aa9d3d42659ea2fb742f8b213a7bc4b104d066bd681fc62f90a",
       "b7e268c28dc8ef3fb4d82571c1ff7872e8f818bfed7ba791d1ef0d876aa28df7",
       "441e78b94df7197dd168237dbdb9ae18d86865710c174532e7ab1d9cc9a739f2",
       "bb482378b68430729a92bab20c8af3a63a0745766477d5baf41405d3bf1043d7",
       "93ccf371227c1f3423301b89eeb14f9ff34af504c49ff2d5227874b0bd67b7da",
       "836a69c48e1c741a9e116afd29dfafc03d949f64d62b39cc7ad539efafc084b7",
       "0238a3012ec1fbca355409d36098736f608ee06b3cf14f4ea4b23ccf850825fc",
       "786c8e157cd7c517692e1339a56b37cb0587c3ddc800935a103c18073c5c998a",
       "34513b9a528438f5f9b49211bd9746517e3e48c0b266e7fa5d3c0afbfe6329f5",
       "08a7482d5e5084dd07e224d0b6d65f61f7ce0d07eeb079db8d2ef971b05990f8",
       "90e6fb1e91408539141740717c5408b8971eee12966ef98bcc262d994914f01d",
       "ffb8a6c5a7ea2409c24ea840c4877a6614d20ebaea197da534cd61f1988d7fc9",
       "5f6038ebc9b32ba0c72b3d055c0993b3038330e8fa38126462af828fb16236a5",
       "eeda60ce4e50d9517616321a6e151f25d81abfa118bbcc385bbdb5cb1dca7495",
       "2eaeec7a78ee67863afade67bf52eada58a3ea0eef9014cf1a1fa260295d300a",
       "5014aabae8feb6b8c84067ac47d908bfa12fb0911c3a1a26543bbbaddcfa76fa",
       "b2b754280df8679d13fb4c994e237c7aa133983b0c0ae0261bbcebab414f45df",
       "235d9c5841eb9fbb6bc51c833af2ef43b39786c25c9669cf85f755de5e123af3",
       "c52d34158da48bd42f39a8ce8074a960f3f0f7078cabcec7668331e03e4eb2ba",
       "c746c9ce3601c6565867153f3d5006d2ad35469bd51bb4cbecb7aa045b329e0d",
       "1035c8ac89feb430de4cf30e0f6a5221e8cb9c118593684de4b7794c0708bf47",
       "a7188b358a89f22e9d9259fc220f5bef37fac36567a68ad5581fe5ad6d7aea88",
       "5c1afcbbb254d621430848316c3b702b58e34d33bec41a1bae3b0e2016a75325",
       "c52fc96e1867ee1997c7cd02f62e20cacf2b562bf31f6aae1f8e1e09bacdb439",
       "e2b91e132dce3df9aeff93d40340ad84033e47652e5483b33268cab602f8c0a4",
       "90b9f8b7d3653fc4a780510cf6c775ecbdfd7d533145ab7e785108c329445dc6",
       "93efad5cca993e5a794f129af2cbc9d3fbabfee4be77e8a60ea6aab4d40951bc",
       "f176e8039fbc951538a5f3769cca52a2e6375617e565acb186f9d780a84927e6",
       "5021d03aaeac2b26469ccd5a024db7ad2c050639c4ce91928137c34484821edc",
       "23cb16ddc3877ecc1cbcfa9fa7ca734c5ecd696b2ab5a8ce6982d1251c6bc4f8",
       "61d1f19033d656754d43823d0c011ea3782334821f8f19727ad4c9af93c98392",
       "f6502cf9ba04717ae1c84a5ccd62db4b54c359b60de2bf8efcca8ec105e083a4",
       "4a71180359f3adfaa7b22eaecb045e6053c48110f43fc7780073c583f40dbe4e",
       "bcb4ce64eddbdc8c4785b7e1af513bb54bed3b4d6f53dd86d1e877f701e1066a",
       "439105ca4e1526fc65abfdf154d8379e0015d34876063beca1b873d63c2d55d3",
       "2a8601f231a54718e94475dadc3490b2cef50e9ab27527c750654a1b459d1373",
       "096f3829de372666025c198081bd9dcfbdf5982f0e7fe7a30757b1ceb486242d",
       "b936f92067a28362117af581cf127e6f609e304f1cd30567c1929048214a326a",
       "3bbee41f74a6c8727c1f285d0bef68aad9971eaa42543fc0c661a902e9eb6b69",
       "df253661583808a88c425cc789ffca00989d3857e0946264d1dc430408372d02",
       "da67e925556758f390eed571c58e3d9c212b6ec74807aad193d309b308fb358a",
       "297aee8aa18e6b6497b9af23b6a8b05c89a455a1a7e0ebe4d51208fc1ed6d44c",
       "4de78ebed4fa91e77deac93a8211068533c23616b620d983779c4707406075e0",
       "8d5f06e9d82a563656e3354cd416e4a3d612f37a14bfd94a61e988d3a26b5bd7",
       "e4d2e6631391efe2c24f6cd8f0f705a7fae3ab2ac86617e4b37f054f50402604",
       "8fbf415bd2d64d118b101b9e1a23718c63ac3baf832f7f2f13eeaed618f27245",
       "5499825505c4bca309c252c1547e925bd1420cf797355479ecc555dec0c6d0f9",
       "2ed7ec1f8a63685ecdbb91f78fd90d9e624106d06df01f5b8542dd72129f8d87",
       "c4e00998eeb0dcc78c799df6cadd732525cc07e6b1fb6d518fef568f66a646bf",
       "fd81e7a3e489d0e3f0c02d145aab5207783b34bfa4a347133aaba8b33dfefd61",
       "75edaa8f0d147ddff0b9f585d5d684cd038d20a60476469e1bc250b37f28df2b",
       "54001d66226f53f0b948881f2c4f52063d883beb15cc2f41f6770bdeac9d97fe",
       "14cd89808fb3eee0275afd32f0ba2a3b6d35043e8ba953c8f657fe6fcd65dd3f",
       "5ed3988a83816ccb29f2e972f6ee3e239af14b1075864368e7caf45c33ed02ba",
       "5980511fa06cd4660957b4a2cd082099d5d7eb8df3d0850eeea9abef4dae02d3",
       "e7a5328b94076812a55ecbc842049f4bebe3af977bdcd5fcd17a20972ab2bd62",
       "7318ceb8cbe1d304189da8d2f8bb3891f3e5dee96bfc9ac7a66cb357cc3ef6f1",
       "05a27fd5411db7832f9d9574c84d9e09a8dd0500026c2e2f8f57390b0c1ae67e",
       "126b37d241bbe73df1ae60d5c0f6a904a8033d70e85d387c7af6fed21e2c1cfa",
       "2a01857f388d4f176965333f2e48719414f2fee27dd02c389ab07524d99431b7",
       "dcce6eebd0ad62ffbda9dc251fde959602b7d77137039207dbed86ef67ff847b",
       "7a31c17549a5a90ad694812c42de995d3c50ef683e203fd15db5538cb83e27d1",
       "26548cfde00c38939ac97b7ac536c9c5ef12b062427b98de61e8fb98c6641de8",
       "1a8c04ee72c5b823df8de78a78a7bac6e1b5daab06fa04c742fd2c631eaf054b",
       "19d152873b328ba5618c7b8ca35e0bce7565339991987d8ecac1fbba5dd20cd9",
       "7bddda8eeebf801bb0d04726d21c1ee2ed48581e8fae21ad70028b5d23221332",
       "f3853fc6100a47accea1c6be6ea01ddb1c1a199832a1a17ed1592a937cbb6dd2",
       "923d3b847bf85878eaf22eaa9bf79c921739446e7bbfe7e2018ffeedb2817a8c",
       "b47bea90e7426b8356e76852ec0001192f34ab1b303d3eb2533a880727037f1c",
       "f1a7763fc6e29d1ba686e8eedd0fedbe3b14cf4747bfed6be3249c83c757bb20",
       "01d4bdc3876f0da53632d4a183f81c746e6fd783d1f44f3ce1bb1088497a7487",
       "7ebd01e9746b1fc9337e85e021f140210c03dddb41d4aaede0e66c36aac3c7c5",
       "18319bc15e5a88b2f61ed91ebaaea9399298eb2e37318b76d3422913c9663f48",
       "fd0aee6b2e2712da40e2e707899ee26bf956f91ec2ad0f2d165ebeefe80a131a",
       "151ce471836ce1af56ef535ac3ad832ec6bd7cfdda9d430c214ef126515c0ef4",
       "01264558b2b1727ab96285fd394364674aa729bd941583f33a13de852364b422",
       "2149e75480f8516486196fc6a3e877695f23281121307cae268c4e49a66d4b81",
       "18739bf080bbaca57773bc834cfa12133a03b018e48501a485a252aeafe9f70f",
       "1bbf30b90609e57dc43e81e229c07786b356e6bf023c7dd6a45ab3fa8f82ea16",
       "955cb925953f88b7b90711cba6ba9ffc7d953f407d48ef8a768183deb381a4c0",
       "d336efe21c0deea42294b86801b3b3edb9c13f3735fb4d8665cc069ce7711617",
       "7192e3b5e5417f4ec0f41c077b139ecef48353493da459462ea7a3428ab0f25a",
       "f22531c56a6c4c0b92a53896483db61d60e977dfccfe1fa72651812d878aff25",
       "27dfbd439ba1854759456959add777db5d6897a11ed08bb0d11b1f18da1e7182",
       "2e105fd2f3f813bcaf654c7b069017e130e5ded058ed3214e887bb96bb75ffe0",
       "cf32ce016b66d068d7fb8dcdf6725e9300d6216f73a67b2dab34ca3ff64a0a8a",
       "4bd02d077e6affcb506de0bd8690cd7d57f245b6da90a0a85a88158907187794",
       "b2200936b0d848d72ac8b52059546c2dc6853dfb88024a45eca6600984dbb5f9",
       "3738f6d0cf5f8cebb387728b3ed92b7165e29249a0423be765978bb986e0ddde",
       "6025e47b0a9fe1248d657ece091cae4aee8af6193ada606344d43a8501180398",
       "5fee29cf770a99c269a3eff004a92d23e18a005bea38a854f69981d4309d9ce8",
       "a488a35be74a3461fb0d391617471250dab0d64017269aa156e204508c444eec",
       "d32dcda1eb20ad453ee9fc57dd1b7cf3eea5e95f8b5008a2444b0d8ccfedfd8e",
       "f10e9f20c223e27c4c2cd6d414b23036d6320af80bf34b4d941bb005a1387792",
       "b53681ae4b766355af692583e66bc4e3f109bf82c6c15b5dcb570b2f1eda1b54",
       "d5301750a5a71561c5a413de1f6aea983219be582db9974f62175bc4c92738eb",
       "ffb5f4de402f672dc77b6b74adf0be97204b253cb7d285b992defa3821401487",
       "716a87bf53bd8f10e52584b4ea60c854faadf93ab2c2a5914c3b8c3b3d4c88b7",
       "f7f1444fc32e8e526b6461ee730806dc925c1e2b785914b19f760d4519235e87",
       "f7b963f9a615e96a245f9d6d117fbf056f43ca3905485a2cb9755ed52c9eb822",
       "0fd1edda9e55b8a078c3c010746dfd847a744c8c6571651ac2aaac2ce4e4ab0d",
       "a39f314cc9b2d784e6a664fb6eb6c4c6486d0e3db811fbd811cad92d013b8ff1",
       "a053d76bfa33cf37c7f1b16668a6d895360a255edbcc7f36ebdb40f9b469718f",
       "45113f46ab6339fbc22a3c90ea7319acbe973f263be52facfed4301e310be31b",
       "0b2521996c4b2ad38cbc0f1adebb985adad70e8804a58a88b68d6fbf784860e6",
       "bedbbbc7a782049f64a2f69ed817fe85d6f52983ecb0e2349bdc9d488cde4c2f",
       "e9d1fa0b69d5b7e2865737a6619e59c340580bcecfd76112086b8498abcb88bc",
       "8ab250b84bf6736cc8c286643c939084c5a3fa6dfd56bcb994c7c883cf722b6b",
       "08f0f17d2ba78643e687af4338f9861ae19de8324f4b703d293b154c8b4a2516",
       "33e444c56a22a5bd81b45f970a9992f573497ccb95826e5d80f652d1fd767882",
       "6feac7b681b17a2a062478c25e3ad866ebe41d9caf127f4388fc32d010e97878",
       "facbfb987c324f06fd26d55ae92e87b22c43872b399a91cf2009cce5a6d09f3b",
       "8b0d7a17a27d5e9eed461230cc881f0f17d010fb433a670c3c760f13578d53e9",
       "1ebaacff3a1681e4d22895a9bcd4b5f5dcc850fd28a5496f06f2b86d15c686d0",
       "61a533eab660f57a437207feb06e1d2bcf1e4ff06e87f512ec431ec184d30d8d",
       "3c7e3d15057252fc09249dc75b6024e5120a00a959d83e431f764f7b551d82b5",
       "1760c18e0a9a72fb56d8807751d761a0e993e677a39702c0cdb46f54457ee251",
       "a382c418aa2a1d740bced85070d8efdc664d699a616cf64ff775f3dd5a588802",
       "dcdbf1e3d226b47a38881ecad92e3090a6da042767a833c96df5d775ff541e22",
       "da232e969be677323a54b8a68f012cf2d2c46e9e5b4b7f7e812b9004d1d787b1",
       "7bd2c0978efbc4f059fb6390a8d55f612efd7bbe5f19dcf2b30d5c9bc8d97cb7",
       "ea6df2a84a68324a5b79ef01aedae27ee0ceff0856b07c0ff272ca6b74d27cb6",
       "7affe3ad9813b5af73073056dca29d6c6350cfc412b2d777e3dfbcdfcb31e985",
       "9db7c6f31a0367d54803f7e5d6ff874b3e1da60536d56edbe5133fdccd3d0725",
       "11f0d1df93ac9cd41c2a6399a1076bcd6ea44c8056649861a43765b9469454d3",
       "651a712c4121133041fb2ad3b3951757befbbed6d338ab2191492ffea31733d3",
       "9f77301648232f162a4c43c61aee141b54074befd8fe10c213d078b813f0d3f4",
       "33380054a50a22beddee309479e2f44f71229f854c91b69ae4fc4028c2130c04",
       "b78093c730ef0c56a31c883f9196a883ee0289d808dd5b0169cb21362c75e54e",
       "4d5355ba90744716748fa3d1637f1618816ec4c11a77246af0cf90b1923dbce5",
       "175d802b8dc4a5b71bbb10628fda7ac4cef6849a3ea0f15b9fd668340f9e4449",
       "94966c91ac57f2bb17d0941743cc0bf34ea01a27794f037591884dfeac797ff1",
       "2f778f5ef323eacd2d1f56ef958d8eb67262f243033753cab077ba0bacd7763c",
       "87c919d651fde5087ff99d977267f4e4eaaf3d8cd5e936ce3c5f88a050cb70e2",
       "80f41aeb9f3d0c1c8f544cd2a0468d112a46f427f06ec813ba14c7a0a274ec10",
       "80be7405b55aaecddba2d41990a90f30f1699e1566b9778de05eb8fe2011e89c",
       "5cb1833280908f9bbf10039c379c0f3e002dce097fcc1ba68be58ea07d366060",
       "f59b3a31ff806f8f3001d33e586d7390e408c81afab439b183c3e37c3a8f5c0d",
       "b228ba331e43b122bfba000c71887abccfd8ec3ced19bd07b022f991357cfccc",
       "d14c45357cfc9c1dc5451ffc53b417ec0e04aef3b10a3501cac5eed71bef4904",
       "0bed986a6f3c4b259c6deef71339adb22fd461e7fa3705f5ffe11c980e4afcf5",
       "a4a8d6fb3feba0da35188f4222e5e0ae445dbfe14feab5bae0536a020e4d0054",
       "fe38531ce5cbbd8012abe4073cf3dcd9d3d799ee72bbbfefbf0408e22c66715a",
       "76b3ba1e7056f2b8e0075940d1097b704b88c6ce0d02d143429775c7435c6e7d",
       "235ce7fbda956ea662a5b7a6b7e023bd360b1f15e819f16f9057253ebc3ccfeb",
       "6b9a0836e636770f3930114d5b89c6e13d2d9f280baa11217bb27afee0669c9f",
       "d333ac3dc7c8afd7c34458b306bfcb4295d8b46a7dec44dda7bff14511e31959",
       "4faad0d870ab45dacb11569f07df0f92eade54cba877773fabe6c1f7b3a7d20e",
       "3fab98bf8dffb4160fcf5bd01a3f2f3d95875db261952c90060482e189936b06",
       "5bff1a3508bf339cf1dfcddafbf713ab602dfca931beb382c9350973aa638129",
       "96c0eb8e9084f5b359a0ff84bdcb6a2d4ade4dce1df4f98423417eb971e1a4d7",
       "067da67d932223ea1cb2becbf3951100c2e6304da9f5961113edc7451eb12864",
       "a10045771ae7c1472ddbe26900b3f7aa515aec3417283beb530c9e7b003cf5f8",
       "b91950b95a585497c3fbe4fb328cd093dd36522f26e85087e8c62bdab4b0b323",
       "f2a3e80180438bbb5eb4473004efa300a23199fbe872b2c5e61aab7886b87bd8",
       "c87c9b71f5d77f1799f6888594514f3653850c1c14d43cc2ac36441104968027",
       "e3f474945abeb6a16b46a0515223780d830f19bec80128f8e5441a3b446420e8",
       "1a5015ba11aa31e66b2c8451eb2b6a16adfd0b9f3770996b89ebb25287c2ec72",
       "6552f8b18ca28d6bc99f6699d04037a05981ab810cc2c2fe0a9f6f9031e78e6c",
       "46c710f9e0367f1f850eed059e6385e93b5efb29a7c96434b9c0ad968686be06",
       "2db87d1c562de243765b0a57e06beaf598e5cac92159b71d607590891c6820e8",
       "bf801732c72618c6f4e513cb95654c8101f5db76b3f0f17359f8bd43150375e3",
       "657463dbdd3a2d44be57ad8b006fd761ceb7a28293f51f58974eb9918cf7e7bc",
       "01acd744d36579e779bb3785bec998949ad38c15f7c34e2f62c241a6696719f2",
       "7438949a94d6969f32dcc5c6d60bcacb6680c7b63f72ce9007e19461ba478319",
       "e441eded268d4bcdee064c8d4986cbe749637ec6050866ae78b283e5e61487ff",
       "646b5575e8be49a14445b0b1d90ee81e6f68fd7860258001806b3e49a5dbced3",
       "5009bc742df73bb0cfc6ef8b360a322f2dfc26a4e33c5aecae4f5e1eb7acfa9c",
       "abc1c2cd5c30d9a9c2ddc1e41235133e81d23162bfce3ecce135f8ad2c48aeea",
       "aac8352613fb89030ded411c6732066168fafdd97573ec61368a0d50cc67e494",
       "40bd8dd74026c677d0adcce5e91a37ad5981e7e72d08eaeed9384f44e2bdcf0e",
       "2f67462d2a79ea86bc252e070d849c26e5c8a2ada471c6be732e4805a36b13f2",
       "0012bd808065176bc113079eb16f69e988c98c4579ffadf3d854d323dd9ec1b1",
       "a86c2b65c4cf744109535dd246b398f7566a93507be31f324fa006f4331c8dd2",
       "e392bc65b8b92fd955116fe93ee5c3b8fd986b9f5ec4d6c132e41d770e5e6211",
       "5360379d39e881c6d82a225f481c12a292ff6a386f1168566e153e1d5e56a726",
       "728d68f4e728f043bcfc9c1550a98a22761803faec020eabebe73b98b7766b82",
       "fea76057ef292d3d6d53970b434da2baaa339a8501dd699803aad3fd2f21160b",
       "7e7f5ad50a83a1d4542022d85f591d467715556848cdf5ba2aaed65ca4782d10",
       "e30ba0954ecf14e2380e8e7579fef98589fa7ae18577f0589e5a4e0e671d1e81",
       "48649c119eddb1910b0f65e96a7795cbc43e734f053ddbc191bc61869d32e7f5",
       "ef82d07e21dc86cbdb90830d33b9762c25c30bf47bfc4e81fdb2472b05dd60da",
       "2db862b36f64ed633aa38ac310c742382dcf6aa64830a9360c6cb746bea5f975",
       "fd1e6454b9c65f4f13b979368d3bb99becbd8625a2c99c2091da0d400a934a61",
       "2f3a7195a2aad225cf6583e6f39123c56a0f6b392ea0e31e4b156b53d600b630",
       "14899aeb6f977c6a457e91f0d4809b7ec17cffbdd7a3b6ada35dbdbe7d55a584",
       "552c27840a189bdc1cf56210bf3135000b1d5cbad8c33b65c284c6adee13e749",
       "03711d9efa417c87c7cdcb3908662a40696c58ead8017884133414af37d3e464",
       "bcbe51548ea665d64ce0debabeb1e2fbc89180fea8f420ba37bbfd0f86839371",
       "491c03c7e631ad6ba32d425e23a792627c552b1b47e62f42961ee2e824f4c0f4",
       "6bfe042b067c9cfaa8660453afddc4f0a6babee193f29b6c231c235d6784e7ac",
       "56685aaef805bc12a1166ed80e281c2572b0d1c26c31b0c38bc0dc1db994d0ed",
       "09aa5292c806cc19a30fa09f02367c2bd0e9eab78c1aadef7f188c55656ed163",
       "4fdf95cc9432d532ecc8a81cdb7087a9e868e6df87956323d397a78bed030501",
       "233a682fc3310206cef5d48dc69d866b6f7c174ab42416f3b1826903a9f08c1a",
       "cbb04261a7fd35a9fa83fd85de4bc90e971fcc1fa79f4d2bc5cb6239cfd0a1a7",
       "b35c63112b9571f4acef8d4f8e3c41ee1cfc224ea8d12c4307d0d51fec396e98",
       "92b362ced05a6d4990b3710d58884bb31f37862215246492a85cc3d08187d181",
       "62b1d3e2420712f945a84610612aa07e9514802e3c06ea82cbd1d193412d3d7f",
       "0789e8af7db65ebe91fd3451db39eafc9f5b0f09cabeff322975d167552782c8",
       "bc4efc64b2ac69128b58f2a81196555fb37eb73b7ea29d3e790f98ee4fbba46e",
       "9c15c8f6c660e385abe869e1f617250d0fa04ead0f3f864ca55262887f6db3a4",
       "10ca5c4459d4338fc3eea5bc20cadc8eb3ca2ebae0c4729789ac5a454b70d72b",
       "b6b39936e64d19e1e744e59166e8a8648821ebf50325ee90d7676a0d3838fe6e",
       "63e374e1fe899dca5343032baf5a277e0837836f9dc0ce1a76c1e0c0ca5dcf3a",
       "0994d5b8a42b9df7e82f68f3cd455c3d47b628b8ebf02d2b53c631ba040dc6b2",
       "b38b08236fa25e5e34977eaef465970d5743a855ca024f89f145e35dcfd20cf8",
       "7088b2e73cb6bf3ae6e2b0e9dbfbe6a47c68e47bf63b4980d257f0a6b11ef754",
       "481b1bf342b1e0eaa91dfdc0428f5abaa97a7e8b6b7b452ff681b3d817affbad",
       "214700795bc5797b39e5c4713191bb0eef7a849ed9ec964ae1b8fbcd37492848",
       "1de12efb634daa658d5009228e0b987c6a99a75795e9031585ce472e1e169c12",
       "72ca359bd54414ae615b87e4989146e0c5f27360cdc5bd19406da6c29308782d",
       "68f962f1e3200921bc37fd37c8745b93244cb2344229590e9e83101b33bd9eda",
       "ac016bca19fae21d9eb441f8ec5fa07bd6538d408c2ac6c008617d6ed2dfa16b",
       "bfc71886a813425525a7508c2f4f28b9e76dd6c794cdf2a593c24317e05ec9de",
       "c6c6708c9db103336bad4abb60a8dc049a2a49c46db7f3ecda3b5caefeaaa1c5",
       "21904cc2c0bfba4b326cac3e8434704307b6d57032ad528922c5fc6a6e010e19",
       "97120e97782a9ee1e410debec2ba32408d2ef89da40e7c50481fd9c885728f07",
       "4e14edf0f88fbc328b3db925bd199f443868955246a0a9af8c49a00afdded358",
       "127299302da77feeda9bdd6256cc2871691824bd9240f5fb2d9edaaba5e7c8d8",
       "60f5ee1c8a4749e0393b65895e82dd368d79cf0fa646e042a6a0442bbdc47b16",
       "9bed664860f9fb2a6cf0ff2da6fd94e64f4e637d60fe300cf595b027811ecb86",
       "dfebe603e7b72b71d422a54a0b8b863a5265346161c326960ab3b0bb8516f5aa",
       "42d1a05d769b5938163f1048afee9895cab0aacd6a5b11441d4dae73487be062",
       "9b9ec33c1541f7e251451c7d0ec99aa7782cae0183d949bde6aa4a2ba4cdb94d",
       "b79b632b946bcd033f13d7f6d61da349812f34d275a770bd818bb43c64c09e3d",
       "c27c1bd32ab83e86a1a57ba66ac42a93922b73952e0510cb36122c7a5261f88e",
       "de11932da4c7ff6da91e7a42675295133f150255366c977f4faea6c9734f6552",
       "52b2cefa8eac4fec399834f9fb520d3c1a9dac24051d2f5f5bcc0742f0c24f43",
       "f408ef52a5aa6f915b6c8a5f42f83686b7a87076f73d9b45bd52ec433da5968a",
       "edfb4494cc23fee5b7dff77166f1f6d1587579362306cc43daa54085ccef42dc",
       "7805873a4ab937e8f074ec92d57513c5dca4d1214f3df6177e1f0e94d8283d43",
       "ec35a15e24fadfe23120952fdd58500c296e7e41cea173a9f605942be0ea1a3f",
       "4d33d87df96027b9a8879c4efb5785563d566192b695e252dfce7f8731961606",
       "0cc9d6c171a787820fc86bd7dc2df907b16fed7b11b414272b89b23eabd7452d",
       "c7d07ab3a51c6026619db875d43b47692287843abe71fa90eefb66d95bd6fcbe",
       "03f873f0658359ced04a23086b85da83d4cfece98c9cf139374ab7de77e282aa",
       "e80e1c390a5d27b869e0aaba484996b27a6376d37cebf18a5d8f0f5a9efa18ed",
       "4fa3fd08bfbc30cccce86a96b4a099140ee5ee779906c3b7aac2f7d345ac518d",
       "856a3e959aad233a27aff8a0549452f8385685f81861bde5db5dee8a0a1530fe",
       "0469387512d3cc6e98edbb7f5cc121567275d1ba136fae783fad8d450a76b4cd",
       "a4156fa41a9e86c7b911ce71f1d7b3ba846fee3856fc535e142a5290f52d4e42",
       "0d023a757a21eed24b0b948967ed518e1300885075082fb1343e0037ae9774b1",
       "cf5a009382722eeece13fbfe7c2147cfbe614b833cc1152016ee40e1611db8dd",
       "8a08e70468a0d168836efa610b45ef62e5ec251525bf032f4619602151a68179",
       "24adb976f9f7a9c04547752175ec5b9b1668f37d04f38048c95d9926f3180380",
       "ecb2cdbd767c091a9cfd51de9a2fe38dc13a209e337a60d86bab48fe5e06e1b3",
       "5cba386f56339960b2f28876c0779140127b19a7ae7eba67e7339265ae177e73",
       "bf0f220437ef35f5a9005df86ef39bee9808e40f756e5b5fe6a48d2e992208d0",
       "092018b6601965d6daa5e06d3ced75a525cbc3a2f83fa33b7a494683ae8caf49",
       "1652adca84178335c527da74bb33ebe662810af6dad987e55d3cf63419604e9b",
       "46d6f727f297eb4b8ada0f00b58da95fa50e756676b2202574dccebf82166788",
       "b3f8a7b5a5bd20df77a9d6cddec789a192928961ab1195e3d05e541836e47e35",
       "8ce89d17385899e43083d8f3325eff4bf97c099b515f24b162ac5e5d2f0ca366",
       "5a8c7a602fc76ec313abf61b0e7c5acb3f54d2fa46bdd5a2b367e95e8420af4c",
       "6a4c162157492ee67d419125d3b7e12ddc0f1907153d9d73b857abb116ebf41d",
       "736856ab07aef0d785e4ab13f08a20ca7e3ea9b64250aafbdac134a6a7342657",
       "09d4024625565650f9a8be3b765f2c4b54ba9d40ad647598e271c726c7fda7af",
       "a29400ceff059f8b6e5fcfbdb65f7ec49af5fb0e5409a41b9385d672fa583748",
       "c0d4dc85e8b0ff406d5d852860b4452d6888e99829f033b6d3d26bf6bb781969",
       "5660dba109ac37c4890d02e5ff3f81f30a9708a51272a069d7ca5b1d60c707f7",
       "1d23e60af2243e420af9db658fc8164450b075e48543230429a2004b52175fa5",
       "6c31745d3973c9ed6fee1e1f91822b21f93451f101f680582fec7e570703eca2",
       "a24126fc7b96ebdf416b912a61bd7c63c59a437e013d9b5f0e45b5bad4237f9d",
       "edaf2e8618b666d48ac68d5eadd13799857252afadb5d23497ddac797fdc65ba",
       "68b3527e511ce56f3d4bdac93149539214f98ee87642c34e015f3fa9927dfea8",
       "7ee557ca513ea88a58ffc4cfdf0a46bf0ffafad113ca848494d4aef8c1e9f25e",
       "c7c0238696d612a5a43716c72a680b43c13fd2b1b6217d5e759f8831f5280a30",
       "b1f4a5b49d8f1d555f4977cb1480d733118cdfd3df5ab8ef99edb8ee3707de6b",
       "c108188a1630bf118bb252394bfa52af10d39001f4fb74f21c9171388522ffb8",
       "09a36d49621e89df3c5e80f1525d4ce2cafdbfa03e1dceaca45dd259cd328011",
       "190c8a5fdb755ecf76459cf7fb21185169a678ce5eabd5a03b8ae0641dbb1ba8",
       "bb1cea5ca1824a129e8efdb76dc208a7addba3d2066f93bb6702f46440056ae5",
       "440584ff073396cf884109f38a9eab069f8eee83e6750c0f870a4b2fd308c321",
       "49698ab54f8d8111b8fcffc40faf14ac7aa02ab52623a417a153747b038875a6",
       "d9135a8364bc7a718b349e87df084861fa121d25d155153bed4ff97eb7bd202b",
       "66ec7d65266fff58883ccf50842ebdf261873c919950e55348e98aac72963227",
       "dab933c69b77fc191679f76cb87fde2a6011f803b6886086c5bb7fc74a19b4bb",
       "05d49f084050ed9bcb80c3e7ec62850e8a1ee1ce5deccb60cc56c8039b0ab69b",
       "d206ef5095e94f2c7dcb37a36eff7823eff9958aaaa753b386ab9ec9358f07cb",
       "086f91c41935bc494f49de8109f73fa6eae1e5e5e36eb23c54c8592227f852cd",
       "3c1f9005925cf709c2ca7a2951d16fd644af6ddc86c74da1f47df78da38b55a2",
       "0e7d1adfeaae1b15da1c67a7ac4e5664346418e75a39857ce6409d8e97271655",
       "bb79f7ebc97568998451592c20b91c0d5f9a0103ee9f8d2a8f81bfe640f0fc1f",
       "88d6fc754745f152088f24586a1ef965ff8b40f4c2560e701f1bdc172df4597d",
       "3d84cf41f574f357e310115d7ce8e67cac65349dc5e513e03ca3efe4e944c217",
       "8f417a740f2dfb371a723cd8ab8cf210dbbe4bbee544ba08b539b31a286ddd47",
       "042a31be9a45ca6c0ba6f277d89e8bc7d1bbcfe9ee804a2a5bef64e730089bf8",
       "b3bc6092664549463616b82df5e0b0767535e3481b492b9492953b2b104cfed5",
       "3e283b5779157637ad36ec95c84de97f5196cffabdecae164759dcf91bec3e6a",
       "a19e97e78f784c4306ce19744568bfb54d6a5ea0091154f5452eec56ea889f2f",
       "f55285512a6f6447df0ba9f20c9ab8c804202d9cfcdf118314b86e06270058e4",
       "a54f6407bf5f23d0f87e75151e15342a4d7bbf142717719e9ad22749942b69e4",
       "a3940014746c8336a93c1fa9371756b187ca0ae99d2179858d1b8268c5d13a2a",
       "e3202a8872f7ae779b1b44fb154b27c1dc8bc981a45b7f0b1a9c271b0224255c",
       "1b3ed89d9e4a2fec2f8af8fc199924f1983597f330045a5620a56b8b87029f0e",
       "9f164c2f45b4afdb268bea681c5e6cce9e484ae647044d47b534bf15f374cc20",
       "56008a35384f1389a66e59dcded4decc25e0a1a0290c0edc8d2bbcc083e934e0",
       "94738a7077af95f3e221c5442c99ee259e9d1c418c94ab6f62351e1876665ed0",
       "0930d2df4e136c9274fe278384b0183d15a809ec7d9a8b14529dd846f203c91b",
       "e32db44dce3dacc45a3e93370e3d12ae38fbc02b34ae79ff19c666f0fda239a9",
       "6cf630cf7dbba08a90fa427bb0ef61814b4ea35508b3c3770a51c97428914fd1",
       "d2c2b0f35f00caf40657ae5264c9d8faf3b86b4aec30fede2c7f38b23e624735",
       "9dbc511c016ab3048427531c71ccad84206ec49daf31c3c9d309e970da25bef3",
       "db17a1fe355a4bdd6e173839490db73cae242efdd4be3bb5c7ad79bf82587ad3",
       "af2e5db819f35aa959c58c7c2060f99e3fb92891635a7687064ae8ef6a00100a",
       "55f3dc33fec57e53b23092193b8b24116908ce0663a8e6173cf0ee034d380b18",
       "fc8bc487e027cd62404e30dc97d9d81e281acdfd1ade47161f79530c85cdf2da",
       "b26d83c33095716198bcc7fd057ae209bfb86807415cefd8ccb620b8c2ecc6d3",
       "c1e15c83752ed4dfcc2bfe21dd33ccf34e600b56ddb50064602441e30e7744d3",
       "d203a92046bb54fc5eabb63d3afb4eaca6cebb0f285beab01c9c2b0f3371f8db",
       "ecca907df7c23db1b08e775885eacb127c0fc906c5927279bfeda95fad1a70e0",
       "c94b9babfd343b106bf181141ff0b656f4ccfc997b715a04ff6ec4e13c9000e4",
       "907762ccd69814ffb39b846f78416f05fc07ecbc587b658a7b73d77ce8651cc1",
       "48a4e111bf9c2c6fd99f4737ff3d4952f8d023d02421d178263472c766ef1cd0",
       "75c5e44c02bddce6504737d5c0de594cb7da7daab472062ad3bf81350e91ba9e",
       "e27a6a42cd110c6c4f6247eb288a05fa228d8f151bcd31d3ef3b2379eb43b094",
       "63b0e5f3cadd0369622555c8e1e7195e64a953bf81eb120229537112a820ddfb",
       "cd5831767f451558c9977ef10b582ae0c7f8b2938fa9f12b2d76279857173084",
       "fbb6a9332bb74f7782a7f27554ecc3ff39518e05ffaafceca4d4f5c84215efae",
       "012cca4dbdd67c08eb7ed13be2aec030cf4ef4719a82d47c34345ce684fdd779",
       "7ce1c4fd4b12a264d105a59df83412a18643cb82adfd35d6c1e445f7634dcec4",
       "9c54c4a4737af3ece274012de49a686e36b4b2d9641d91e21982cbc2fafb957b",
       "0e87fcc80569ea2c3515821935fcea59bea4fa16157b50764c653909274983d2",
       "ced1d5affe2c94f317f6595a674220f94680b37660706d669f889a01d90eb129",
       "6446640a8af9c9c31c99b7aa86453b16f1441a9af4098635e41c5c000e258d90",
       "a97e3ed82147d6e8c369d3980f0e8eedbcf38c2ec14fa580cfc99a767ee0610d",
       "e7959bc59037aff529d9dc03e9ee8db8dfe93e8dc40d948a9bc61ca0ef16eea5",
       "a951e221587aa92bffe0bcdcdef42b0c435c19178967437a6d8ad28d214e76e4",
       "9978907b4815aa38dc4206e6e111847f57041d060eefc5a34f247febc494f67e",
       "815a3b4775102b9d0944ba29a963047e86af0a53d7e3b537814c0cd56a4891b2",
       "5f49c4ee48de6805f62a6e5a61425349958287e463bdda926b9135940bd6dd3a",
       "195f3d2d71fe6ab9a623dc0a0c7e01e09bbcb9a399a7209a526d2dada1191654",
       "3fd4a6789e08cc12554c0326b8d0f12c7f595eec5b2e32000a9de80b5d3847bc",
       "76aba6eb5e43d9385fe0464b3a1518dc081a244b4243b7fd2fbbc05d064ac598",
       "148d497b16916b63b272b1c300ca44832f038e5190ededb65a0fbf1f0ebbc524",
       "da786c6da8cef2a6868801c27816a1fcd1ebf5c49cff9dcabe06889eee00a244",
       "184ff1dbbb5039f72608a5ad8ecd36562ff0d01f3accbc9c64d3bb6363872333",
       "9a891353a2175515de45af1683af3433caf591a7f7c3050d1baf3b9a621c39ce",
       "d4ec462413a055ac65534fdba51479c7675c9a96687bc8a8486e52db9bdf4309",
       "ff7a0f128d2ab4559766b4c2753ce7cad0af7ca2e8a5e2ee6f630a0dcc17923b",
       "710f027ef38f7e9c2050ab725a6095dbe719ab1eb88cbb71836c7b5e06115d4c",
       "0643efe9f5f0dda5d0f2ef722041e2ae5f81100fd57dd646b516967d01c03efb",
       "9b9e5ba9c8e63206930d5ebce9d155116496534501b8d056c6331fb39fe68f97",
       "a02b7557ff03fe068f5c882273ad354940500d61d8a55acc2d89fb9f23905f4d",
       "90f92fb7ee0fa3a2feeac3ad7c90867e7255c539c114b6d6b8d42579f4792a3f",
       "747d9f48bd4a60d1cfd1daffb739e7226a752344d183c4a27305245ab188a44a",
       "d73b3d531111790c6e3986fad2f7ca274746041b1e78c6131b094ffa019b8efe",
       "b1de8fc765116af21e258b78893ceb89bc1b838f939c44e1524970cb77041d09",
       "50b78d7f67e1f822eb87ea30ee0deb9ccbc0e97c4fef30744af77880ae71b25b",
       "9587d6dec845ab1b888e7b7a4407eab7aed5e247defe72ed78b0fcc0be4fc7b0",
       "39bbe65045339e4dc295b62600d7f9b317e0b2855d2f88aee57e3e4cc573c540",
       "b5dc951bca5ef96487f8553673cf44db9bdf22a3d183913db1e55612297d2127",
       "788e578a30509281797d4d0263a2d883f0ec60be9679d7a57ba1a6d50649a6f6",
       "d5ac45b0af891a9de8e58b88d44aec3c6f56f00b7b23077dbe6d47fc544daa01",
       "a05926ccdf23dee98ac39ab1e4e03abcf76cf46e312fd9cdffd52b999424f99c",
       "81267fe8d210cd9a032d9adca68b5daab5a622e52c95f6b4cc38597620fb7ebb",
       "abc97426042deed81c2469751b6cc10ad1aca0ac3a6c0ce299b0bb8c7ace880c",
       "d5bfe3b5badac8aad39b100a21bfb7c2851a9bdfb009266a8c258d5d05caeef5",
       "6ad86129805fc297bc173b932617f45e7d6e8466a73c245b88a403a8b3399f63",
       "2d5944d91fbb35b81a243a0a3635ae03430428cfe820f565e69204b1dad4c236",
       "e44fcfdfe3f26ded3325fe880ebba3184c45379dfe538548c18f68c7df1e9aff",
       "8ab6d73b8cd548bee48f947ab03db65ab4d7427a458af18f96b4621b41dc5dfb",
       "33a7d4ac4237325901b246b7231a44fe9280910dbd0df066f3c259c8d8630ef7",
       "e2747df3871ef39b426a88e9ccc7c872afd00ae6558f9f7e378d9844bef562e9",
       "7e5ddcf0e0358338be2d5d3c600724ff3e0da404eedc96ec152ccda19482b9ee",
       "5738975610de9d250ea9803ed298c4867e6f9bf7e60dcbba70419113c308c65f",
       "208a8e2690da5027cc2fe2cd8feb1ccf7ad825dff06553c1d6368e8d5e76f934",
       "195c56eb1f48a7dbd594fe3fdac60d82db834e69e5ca23368565dc7e6f0ac82a",
       "a9698123b5b906a09fcaa836732f2a413d9b88ca579de5360bc0d798f326d2ff",
       "019ce17c6ade306c4b262bd0d460dbb2f6f443e04f65e028682d7bd3b7430df0",
       "92fc1ccb3fcb4c9dc5b78c447c1277e89a2b268ea16553e4f27075f388df3b16",
       "4b432e6a3a0b9609d5589eca577d4be800e30453e0bc5a43f94728c3fe890398",
       "8e92045aad848b4133d56df31fcc9f7debdeea352844f95ad6b9548a73d97c79",
       "0ccac5f066d83dfd1cf200e4f8b5d49eaa183e91aa032c72b4e57c185d921ef9",
       "c6d27f4507da2f56c4efc7750c2e6635774273accaf3b04dfef497068d572c96",
       "e4ead416671d235dac12be685274ad39f27363d0ecfd7cb72ac2f6fdf3e5ab00",
       "1c12e429f564ed52180b7feddf25885d449d07d7f517d605eac9fe4e98458da8",
       "c5629ca4445e0395fc14a94765501c5c0b276cb65fff895d6e17fb02d4555b14",
       "19e07dbd943b4640a3f6bb7145245856eb7cb3e086db96ea845be4a79523ff9f",
       "8c9b0b3d6bee7a950831f5f0f4e346a408581344164c1db96c425b17bf4c3176",
       "8ec47346310e4607c91be68fb13332f59573e3a29d3c5f7a87258fc87a94f94e",
       "50471866ed9253029b9d044a1a32af607cec74b0c42e053b7c062dc553b7ba1e",
       "e759d2a9c002c2dbbf673954d8bda02d5f99011a64f74fcd3274d9aa34fb3502",
       "0d18b95e00a7f8dd114c305b02dd5b8aa6daf98b46602efb65aabc1c81c13183",
       "edc52324dc688422bcf22768374a16d6cb0ae6897e9c259541dd5b675e79b501",
       "9237668f3e5b71eba6d19502e1d91f3f6ed67497088aa87382ab0a7892290d4f",
       "b82212990483fbe76969ccd6a0ab5dccc3b616b8374bec2d76598af98102e961",
       "26452b0b64b8b1cfa438831fb43f8a33dab02b0102b5b288da1010c9ab9f1b17",
       "4b1aae73cbb5108e8dc57a0de7afea3fcddcb2855b1f3fe43a2a66b44a4e3793",
       "d047f8d401c1b6004b1c4162ad3403021091290bb8cccd8b2ba8efb03ecc15e6",
       "6e62e8c3ef7b8bd4a0ca99df28f1aaf7b8a0357b4e2fa2fc15a31712009b7cac",
       "b8b13195a60a02ffda21e0b9274a98924b62e0bf81db37666ea2ec870aabf2f2",
       "77df17bb901c182db23e0b3035ac88bcd3c7c19416b9c1ccd6e8012b594b57fa",
       "3b698a0d05e46375a889da9a72f58a813281f516c6676ec78d90d5e443ba0a2f",
       "65eabb79d2bd86bfdad0d909b492733d61b4b8f499c0dd5979e23fc4beaef7e3",
       "67569bbb0581f51cedf324edb039f7fa2642063a0aef83555893e6dc4829618a",
       "d5612496f5365264ac0db807d0f9488ba3b6809d32241041dd901c474b33b0d5",
       "5aaee0ea43df53fd203c3686fce239aefd102c694eb399caa8657aba7971310f",
       "147d8f8d46110434ce01166ace9bf61daf2f56fd71ea08de24037dbcd906f554",
       "7386b748e165645852eae4526c394af1b74998d917c9cee5716e9a55289984fa",
       "07cd895c796131d18aef0a54d6298e9e479160e94cce0ad7fcec13c47e8e03da",
       "a6b5e6ecacb74dbb6d45466ff9fce9eb3c3a8692de6cc515e04791407a296e2c",
       "a4364135139bfee497a6cd9b10b271d119993c3603b017e4e03506998deaf86a",
       "42c6f430d12adb166fb5e1ac6ff5c894e4ccecf257e90c7471960efb932f8c62",
       "6b43b541465ad00e1989d5d91f1110baf0fd60073ba32f24f77febe5b0ccd24c",
       "ec242ecbe3ecff7a08f2ac01b8bc453c0418e86c82f8e764318db366b1d56b0c",
       "ae38659dd8784dfb6fd9bf74809551534315fdbfaa86ab7b7f033802d912ba20",
       "8b983bd5b7ab7bfe6f66a06871e764977a884a4fc8890d727909057e0bbb1467",
       "8d506468eda79b59ba3c33aa4921e75d9bc6da239d6d9ecd3900942e55fe93df",
       "69b058ec7c8f6e2c1e56977d8e7dff702100721d5eb044653db36bb5ec50b853",
       "738b982f207ffee9d78296b518756a5023a46567ca8c5572cd45251deacea1c3",
       "38826e1058c846893da10c89cffe1696e7e29c99c061be7e6b034390497cabbc",
       "b0a4a45d082b8d96430797be3cb3ac74f8832c6a6d0e3e1cca634eb37f570a71",
       "35028e915c9f3e83804ae9ea10ddd6c5bbd7ec2455a26a5c89c4ffd44d310cc2",
       "7f436d13bce5e4dd50af1008f855ea6365769630a9094d7c16f3f9f36ed75c92",
       "44137f218efdf5cb384514ec8f6638b70321a4f33dda2e1fc5fef06e6034922f",
       "850a81e5f22deb5560e283f7baf51bfd0672046d497b7e117b567d88e91106a8",
       "e65ccfa0bf0c522c6b53895f984d2f2fcd4b70991d3610808b806ba06e188798",
       "61b8dbd890e78a8708f3568d2f9bd13e6e2ad3085365b93161a58973a8e0ca01",
       "53dce1a3d1e0cac4496b8625e4f6630def41900f3c97075d969266273712edad",
       "dde4968a51e59e25fd715621ecb5102f531e2f20a0883b599a8cec152745c1d0",
       "474f0b70fd10b1001379bf354e143a3cc16f941dc798e2ddb079d098c0227a08",
       "4b504ea682069987ea23391d790ee84e979733704df20af729d3c9f5bee60b98",
       "e6558527e77bd8dbc20815dc12b1b41d5adaa93e4c2a31e24d5c30d650b88a91",
       "64c298d386c6e76f013c9c89a472144170b08fd35425c22d55f769f90ca54b9e",
       "b8e2483dab3915b2d0f528870eef67d7c6d8b547dcd1ed384fb185b3a3e0e5d7",
       "4483c7887c0964b9e8b6341acb9038d86be2583775bc5bb897dd8d466c95af57",
       "c8bf6dd27a3d5ed662d24f2b408524c900bf902fd972336bcba879f9394f9c35",
       "a9e24bfa0afe6b38a4d887562fba4f8bbff3e357dc81a757d261bc9dfc0e031c",
       "7aa533d2c6fbc7414680c7e313fcdb3560126ca14b644b12c73fa8c8ad0732ed",
       "36e8249002ba1676e494477597bab4d7f505b1b3f80c962ad95665e2092473a6",
       "fea31e6b0038f74c1f6377fdbadc687373e545e3125819a6a3cdb8c69b495bdd",
       "0d08b741c6b3c96d3c098328b744d0e634d026dcf2bd0404011b43d5ebbbd83d",
       "5a3c69201569e314f1561ebda0ebf84279bae460accf7027de862d6443204cd2",
       "154527d5a782f68b15c2d7c3c265581067965b44c01d5145c3b5015ed588df66",
       "db75b5f959e2f259c68bd61fa00ed4012b823a83f200d3a9c1021db081445f26",
       "a388b04566e48c249c953fbe438c0f9a196051cda7082b2c5998860f8ea15804",
       "20af37651c2a3115ebd8a9ef2deb83cb3f06f1e0e7d2e8c7e315e80b4f03bd93",
       "5547e9ee10ac65ee27c7953450ec21d1d64a9f03c81105d6ca75b5cf9c329480",
       "c98264f4bea7555944c5760f0c437d786205219856eaaee0c525b9d05cb4cd5a",
       "51d05c2e0df404a199f030f6097bcd1c6b1968ace0608602f8398cc662a68c66",
       "bd437421de58b7d2bac348f1eb7ecd6f376e2c31056848e52e6727b3cb98f557",
       "86fe33c28b78ad5122b75b107acf7d4656ecd95022165206921a6253a610ac92",
       "821a97975ad89b42cf3173474f830f19e554959d9c4b29166bbd3790b42188f0",
       "192f06bf4c87d25fa0714aff30a31cfa7c687caa45be146f8dc3493be44c6192",
       "6f4f71610d80bbb6fa4647b16d08e772834186a3ceecc76d5dcc3a0df5ef802a",
       "dcf36f3e01b37875eb00c76012f5d51c426d8c6651350fdd1a897fa4650e6934",
       "9f231281f95f9eb4888781c4106669a33a37f3279041f33fec656bd050c6f62c",
       "c7b4035ff93c55ef0f9241b10c5a9098ea93ca7de7b3b7e8b6355b0a324e14e1",
       "966701ad56e38f9ca864ddb0dafb85e2b878feef682510d8a2ddc8bb12eb1ab0",
       "9008df73f39a7d16f9d450fe712968a3d5a5894e5acd8a5220700d536f592964",
       "94ef5a19a9a13d43ee407f5ff112606e2b716c1fc9b8725af77c7dcd2c8a744d",
       "e0937c8b051a7d8b2a3073c03f803be3f2afbfb8c12f6641646a31a2c2cc1fc9",
       "8bd7ca5aa08df5fd85dc48df51d6bfa51d703ff50761ac4596414f1c76337a51",
       "f6a5aaef454fa99af861caee6d2fe090f7c67b357e71e7f0514faa1ff269086d",
       "e64f7403d31615c0398ab65a19bc5600e98fbe8b3b90ff88d0dfd671542f9883",
       "12a49c43f45fdde9a8698292e2e24822ae2ec9111456f10dc01a093a174e9907",
       "63f790d28afa3d9a747a9b313155bb655ac80e3c46dabc741f95d0c340abe7da",
       "cf6dd3d36a73519237bfe2e69c83fe68ada22de399ce1f370bba010c73169c85",
       "8895ad3d7c4d6694695d485a6437979529357fb769ecc7b6fb929ccb3c09e339",
       "e8cb776997d10b53627df4609e77a680eb268e9581be7df39a3b55551f1deb38",
       "022459274937075f095e1c99ccb13e28efd72e7ffc4994d988b9fa287b2a63cf",
       "d29c4fcecfcd7f86a4f03375b164ffd81273c1782c5cc018a0ac0ca6c3400d5e",
       "9f7be1c1cead097690e6b6c19ac75179e8a20f93017f21f420056e51fd5368d7",
       "a9e99804f34299a8ed08ba225a6805ab6e2cf3c21b43ffb045610d9b0b46755b",
       "111ae8ba48f5ea83a3a1dc536e75248bd346171e3f17339f8d7170392b05e0c4",
       "92c3bb8402d24f2a550afbc682dc49b557722c8bcf9953716b2415531d65486a",
       "ea328b172e658ceb264445c8e7086985e694e355a417475b955c5d946fa8b454",
       "0090f233ffb617e901d3de93b82796aaf64ef28c4cb556c10fa669f6b4128026",
       "c9641759164062e673a326124fa366567a9fa675b777562e9fdcef3e85ebb728",
       "e77ea19e2cce3db1bd92cbd682a1f55c0d7f72ab711da5642516467873d82570",
       "da61e13141a478466bb0f5b16b3d5b8d82afc2fe9cb6c8f5d2f6a25a6a1dcbaa",
       "ad024b8c3612174ce12d7f724cd1e2017489c8f1145344cb672ca94b0b09d202",
       "0a0917795385cd59ed417fb14e277462a8706240b9100d9e02f01bc31f2eb330",
       "3ecb8eea3071d056b3d9c8e89223e9f132c9a219a0c6b4cdca25e0dc41b4dc3b",
       "93a288e24ceabef0a34b5a906b4f61873c1457e748a1ea360e9320cb7f9b3e91",
       "1a0641598bdef9662fd0af4079ae57febaa1ee8a19aefeb856570e1be7381473",
       "790d260f010f272060b34b4a79e5aba24cc568d2e6aff98dd5ffa88ceaeb43f6",
       "a17e326300c01ee40a5954ed7c87a87cdfbcfd2170521674ed4ccb75aa48595e",
       "a72ccdf9b738b664ea6e37eacbb8151c5ff109cf29f9c6326f6219df13098f24",
       "0fd0a90f7d5ff70e60354754b87eabdb13fa279aaa22731c6fb8bb3ca81f0e4a",
       "ea1684ebc22241dae52a095635cf030f54d2a8c4d7012ea8d1980be5e3105b1d",
       "b9a525aaa16f56e912824b97f6b8aad5b439a68393722b8a33d31d6f9daa6003",
       "4544f3ec70b59339e98be25abbb93f68980b46e5436ae80f9d2810c23c048be3",
       "db97bad97137becec61f52671f533f2912a7aff065653b70cecb9a03e1b9086b",
       "90543b40a810b47d05e815b34eb103d6d9887d384de25180f38809fe632d2fbf",
       "505d40a7b4f87531a8dbb8c4f17aaa8649488ce02bd367fc1cce19f12dfadf75",
       "69d4b1c4a1b8ab02e531a158206629348d172cb52aa83b01120608b99a81e358",
       "60d2b43d28a49a9d9c16724f84b5cc86212f4add2362278540f09faf623cd9dd",
       "27058f1e915eb3ab33a5b4488150e8516f35bd86351f5aa924adc8261b93a037",
       "380b17f7eedbff4138e400102d5f0a8fcacf661297090c9bbd417f6ae3aaa616",
       "215ec8a36bd5c80e5fa749ec395a9148f52a67b4ec3938f5a9b04d463a27c042" >>

\* The n-th u32 of StdRng::seed_from_u64(seed).
RngValue(seed, n) ==
    LET table == IF seed = Seed1 THEN StdRng1 ELSE StdRng2
        row == table[(n - 1) \div 8 + 1]
        at == ((n - 1) % 8) * 8
    IN  << Half(row, at + 1), Half(row, at + 5) >>

\* UniformInt::<u32>::sample_single_inclusive for a range of `range` values
\* (range = high - low + 1, wrapping): the offset from low and the place of
\* the generator afterwards.  One value is drawn, and a second when the
\* low half of the product exceeds range.wrapping_neg().
sample_single_inclusive(seed, n, range) ==
    IF range = << 0, 0 >> THEN [value |-> RngValue(seed, n), next |-> n + 1]
    ELSE LET Biased(m, new_hi_order) ==
                 [value |-> IF AddOverflows(m.lo, new_hi_order) THEN Incremented(m.hi) ELSE m.hi,
                  next |-> n + 2]
             Canon(m) ==
                 IF GreaterU32(m.lo, wrapping_neg(range))
                 THEN Biased(m, wmul(RngValue(seed, n + 1), range).hi)
                 ELSE [value |-> m.hi, next |-> n + 1]
         IN  Canon(wmul(RngValue(seed, n), range))

\* rng.random_range(lo..=hi) with the generator at its n-th value, for a u8
\* or usize range below 2^31 (an empty range panics: the callers test for
\* it before drawing).
random_range(seed, n, lo, hi) ==
    LET Offset(s) == [value |-> lo + ToInt(s.value), next |-> s.next]
    IN  Offset(sample_single_inclusive(seed, n, FromInt(hi - lo + 1)))

\* b'A' and b'Z'
BYTE_A == 65
BYTE_Z == 90

\* rng.random_range(b'A'..=b'Z') as char: the first draw of get_word.
first_draw(seed) == random_range(seed, 1, BYTE_A, BYTE_Z)
first_letter(seed) == UPPER[first_draw(seed).value - BYTE_A + 1]

\* calculate_bound_u32(m): the product m * (m+1) * .. as far as it fits a
\* u32, and the number of factors.
RECURSIVE BoundFrom(_, _, _)
BoundFrom(m, product, current) ==
    LET lo == product[2] * current
        hi == product[1] * current + lo \div U16
    IN  IF hi >= U16 THEN [bound |-> product, remaining |-> current - m]
        ELSE BoundFrom(m, << hi, lo % U16 >>, current + 1)

calculate_bound_u32(m) == BoundFrom(m, FromInt(m), m + 1)

\* IncreasingUniform::new(rng, 0), the generator at its pos-th value.
IncreasingUniform(pos) == [n |-> 0, chunk |-> << 0, 0 >>, chunk_remaining |-> 1, pos |-> pos]

\* IncreasingUniform::next_index: an index in 0..=n, taken out of the chunk
\* at hand or, when that is used up, out of a new chunk drawn with
\* rng.random_range(..bound).
next_index(seed, st) ==
    LET next_n == st.n + 1
        Refilled(b, s) ==
            [st EXCEPT !.chunk = s.value, !.chunk_remaining = b.remaining, !.pos = s.next]
        Drawn(b) == Refilled(b, sample_single_inclusive(seed, st.pos, b.bound))
        Taken(at) ==
            LET next_chunk_remaining == at.chunk_remaining - 1 IN
            [index |-> IF next_chunk_remaining = 0
                       THEN ToInt(at.chunk) ELSE ModSmall(at.chunk, next_n),
             st |-> [n |-> next_n,
                     chunk |-> IF next_chunk_remaining = 0
                               THEN at.chunk ELSE DivSmall(at.chunk, next_n),
                     chunk_remaining |-> next_chunk_remaining,
                     pos |-> at.pos]]
    IN  Taken(IF st.chunk_remaining = 0 THEN Drawn(calculate_bound_u32(next_n)) ELSE st)

\* json.response.docs.into_iter().nth(nth): None past the end.
Nth(docs, nth) == IF nth + 1 <= Len(docs) THEN Some(docs[nth + 1]) ELSE None


---------------------------------------------------------------------------
\* get_word: the body after the registry answered

\* rng.random_range(1..=num_found) panics on the empty range 1..=0.
GetWordPanics(r) ==
    r.kind = "payload" /\ r.status = STATUS_SUCCESS /\ r.num_found = 0

fetched_symbol(seed, r) ==
    IF r.status = STATUS_SUCCESS
    THEN Nth(r.docs, random_range(seed, first_draw(seed).next, 1, r.num_found).value - 1)
    ELSE None

\* format!("{API}{first_letter}*")
PrefixUrl(seed) == API \o first_letter(seed) \o "*"

GetWordResult(seed, r) ==
    CASE r.kind = "transport" -> ErrWord(TransportMsg(PrefixUrl(seed)))
      [] r.kind = "http" -> ErrWord(LOOKUP_MSG)
      [] r.kind = "parse" -> ErrWord(PARSE_MSG)
      [] OTHER -> LET Fetched(symbol) ==
                          IF symbol # None THEN OkWord(symbol[1]) ELSE ErrWord(NOT_FOUND_MSG)
                  IN  Fetched(fetched_symbol(seed, r))

\* word.chars().count() as isize, or -1.
LengthOf(wres) == IF wres.ok THEN Len(wres.word) ELSE -1

---------------------------------------------------------------------------
\* _valid_guess: the checks before and after the exact-match query

\* A validator that looks every guess of the right length up, whatever the mode.
LengthCheckAnyMode(word, mode, len) ==
    IF len = -1 THEN Some(OkInvalid("internal_error", FETCH_MSG))
    ELSE IF Len(word) # len
         THEN Some(IF Len(word) < len
                   THEN OkInvalid("not_enough_letters", "")
                   ELSE OkInvalid("too_many_letters", ""))
    ELSE None

\* Some(outcome) when the length and mode checks decide, None when the
\* exact-match query has to be sent.
LengthCheck(word, mode, len) ==
    IF len = -1 THEN Some(OkInvalid("internal_error", FETCH_MSG))
    ELSE IF Len(word) # len
         THEN Some(IF Len(word) < len
                   THEN OkInvalid("not_enough_letters", "")
                   ELSE OkInvalid("too_many_letters", ""))
    ELSE IF mode = Normal THEN Some(OkValid)
    ELSE None

\* A match that does not look at numFound.
foundUncounted(word, r) ==
    /\ r.status = STATUS_SUCCESS
    /\ \E i \in 1..Len(r.docs) : r.docs[i] = word

found(word, r) ==
    /\ r.status = STATUS_SUCCESS
    /\ r.num_found >= 1
    /\ \E i \in 1..Len(r.docs) : r.docs[i] = word

\* format!("{API}{guess}")
ExactUrl(word) == API \o Collect(word)

ExactResult(word, r) ==
    CASE r.kind = "transport" -> ErrValid(TransportMsg(ExactUrl(word)))
      [] r.kind = "http" -> ErrValid(LOOKUP_MSG)
      [] r.kind = "parse" -> ErrValid(PARSE_MSG)
      [] OTHER -> IF found(word, r) THEN OkValid ELSE OkInvalid("not_in_corpus", "")

---------------------------------------------------------------------------
\* guess: the scorer

\* char_counts: occurrences of each letter of the secret.
Occurrences(c, w) == Cardinality({i \in 1..Len(w) : w[i] = c})

Letters(w) == {w[i] : i \in 1..Len(w)}

char_counts(word) == [c \in Letters(word) |-> Occurrences(c, word)]

\* First loop: positions of guess.word.iter().zip(&word) that match.
RECURSIVE FirstPass(_, _, _, _)
FirstPass(g, word, i, st) ==
    IF i > Min(Len(g), Len(word)) THEN st
    ELSE IF g[i] = word[i]
         THEN FirstPass(g, word, i + 1,
                        [result |-> [st.result EXCEPT ![i] = Correct],
                         counts |-> [st.counts EXCEPT ![g[i]] = @ - 1]])
         ELSE FirstPass(g, word, i + 1, st)

\* A second loop that does not use up the occurrence it marks Present.
RECURSIVE SecondPassUnconsumed(_, _, _)
SecondPassUnconsumed(g, i, st) ==
    IF i > Len(g) THEN st
    ELSE IF st.result[i] = Absent /\ g[i] \in DOMAIN st.counts /\ st.counts[g[i]] > 0
         THEN SecondPassUnconsumed(g, i + 1,
                         [result |-> [st.result EXCEPT ![i] = Present],
                          counts |-> st.counts])
         ELSE SecondPassUnconsumed(g, i + 1, st)

\* Second loop: every position of the guess, in order; result[i] is read
\* only for i within the feedback vector.
RECURSIVE SecondPass(_, _, _)
SecondPass(g, i, st) ==
    IF i > Len(g) THEN st
    ELSE IF st.result[i] = Absent /\ g[i] \in DOMAIN st.counts /\ st.counts[g[i]] > 0
         THEN SecondPass(g, i + 1,
                         [result |-> [st.result EXCEPT ![i] = Present],
                          counts |-> [st.counts EXCEPT ![g[i]] = @ - 1]])
         ELSE SecondPass(g, i + 1, st)

\* result[i] with i >= result.len() panics: the guess is longer than the word.
ScorePanics(g, word) == Len(g) > Len(word)

Score(g, word) ==
    LET st0 == [result |-> [i \in 1..Len(word) |-> Absent], counts |-> char_counts(word)]
        st2 == SecondPass(g, 1, FirstPass(g, word, 1, st0))
    IN  IF ScorePanics(g, word)
        THEN Panicked(SCORE_PANIC)
        ELSE Valid(\A i \in 1..Len(st2.result) : st2.result[i] = Correct, st2.result)

---------------------------------------------------------------------------
\* _generate_game: the letters, the pool and the retry loop

MAX_ITERS == 10000

\* The pool is fetched for num_letters + POOL_EXTRA shuffled letters.
POOL_EXTRA == 5

VALID_LETTERS == UPPER \o << "-" >>

Swap(l, i, j) == [l EXCEPT ![i] = l[j], ![j] = l[i]]

\* partial_shuffle: for i in 0..len, position i is swapped with
\* chooser.next_index(), an index at or below it.  Shuffle does the span
\* positions from i on and gives the letters and the chooser afterwards.
\* The span is cut in three parts down to single positions; the parts are
\* done in order, each on what the one before left.
RECURSIVE Shuffle(_, _, _, _, _)
Shuffle(l, seed, i, span, st) ==
    IF span <= 0 THEN [letters |-> l, st |-> st]
    ELSE IF span = 1
         THEN LET Swapped(r) == [letters |-> Swap(l, i, r.index + 1), st |-> r.st]
              IN  Swapped(next_index(seed, st))
    ELSE LET part == (span + 2) \div 3
             Part(before, j) ==
                 Shuffle(before.letters, seed, i + j * part,
                         Min(part, span - j * part), before.st)
             s1 == Shuffle(l, seed, i, part, st)
             s2 == Part(s1, 1)
             s3 == Part(s2, 2)
         IN  << s1, s2, s3 >>[3]

\* letters.shuffle(&mut rng) with the generator at its pos-th value: the
\* shuffled letters and the place of the generator afterwards.
Shuffled(seed, pos) ==
    LET Done(shuffled) == [letters |-> shuffled.letters, next |-> shuffled.st.pos]
    IN  Done(Shuffle(VALID_LETTERS, seed, 1, Len(VALID_LETTERS), IncreasingUniform(pos)))

\* letters.truncate(n)
Truncate(l, n) == SubSeq(l, 1, Min(n, Len(l)))

\* The letters whose symbols make up the pool.
PoolShuffle(p) == Shuffled(p.seed, 1)
PoolLetters(p) == Truncate(PoolShuffle(p).letters, p.num_letters + POOL_EXTRA)

\* Result<SpellingGeneGame, String>
OkGame(outer, center, symbols) ==
    [ok |-> TRUE, err |-> "", outer_letters |-> outer, center_letter |-> center,
     valid_symbols |-> symbols]
ErrGame(e) ==
    [ok |-> FALSE, err |-> e, outer_letters |-> << >>, center_letter |-> "",
     valid_symbols |-> { }]

GENERATION_MSG == "Failed to generate a valid game"

\* What get_options(letter) adds to the pool, given the answers to its
\* prefix and suffix queries: nothing if either exchange fails (the suffix
\* query is not sent when the prefix one failed), else the docs of each
\* answer whose status is STATUS_SUCCESS.  An exchange fails when send()
\* fails or json() cannot decode the body; the HTTP status is not looked at.
Failed(r) == r.kind = "transport" \/ ~r.body

\* The exchange failed, or its payload carries a non-zero status: the query
\* contributes no symbol.
Unanswered(r) == Failed(r) \/ r.status # STATUS_SUCCESS

Docs(r) == IF r.status = STATUS_SUCCESS THEN {r.docs[i] : i \in 1..Len(r.docs)} ELSE { }

get_options(starting_with, containing) ==
    IF Failed(starting_with) \/ Failed(containing) THEN { }
    ELSE Docs(starting_with) \cup Docs(containing)

\* A pool that keeps the short symbols too.
LongEnoughUnfiltered(symbols, min_length) == symbols

\* symbols.into_iter().filter(|s| s.chars().count() >= min_length)
LongEnough(symbols, min_length) == {sym \in symbols : Len(sym) >= min_length}

\* letters.pop().unwrap() on an empty vector panics.
GeneratePanics(p) == p.num_letters = 0

\* One turn of the retry loop with the generator at its pos-th value: the
\* candidate letters, what they keep, and the place of the generator after
\* the turn's shuffle.
Candidate(p, all_symbols, pos) ==
    LET Turn(shuffled) ==
            LET letters == Truncate(shuffled.letters, p.num_letters)
                center_letter == letters[Len(letters)]
                letters_set == {letters[i] : i \in 1..Len(letters)}
                filtered == {sym \in all_symbols :
                                /\ \E i \in 1..Len(sym) : sym[i] = center_letter
                                /\ \A i \in 1..Len(sym) : sym[i] \in letters_set}
            IN  [accepted |-> Cardinality(filtered) >= p.min_words,
                 game |-> OkGame(SubSeq(letters, 1, Len(letters) - 1), center_letter, filtered),
                 next |-> shuffled.next]
    IN  Turn(Shuffled(p.seed, pos))

\* Turns done+1 .. done+span of the loop, in order, as far as MAX_ITERS, the
\* generator at its pos-th value before the first of them: the first
\* accepted game, if any, the turn that gave it (or the last turn taken) and
\* the place of the generator afterwards.  The span is cut in ten parts down
\* to single turns; the parts are taken in order, each from where the one
\* before stopped, and none after a game was accepted.
RECURSIVE FirstAccepted(_, _, _, _, _)
FirstAccepted(p, all_symbols, done, span, pos) ==
    IF done >= MAX_ITERS \/ span <= 0 THEN [hit |-> None, iter |-> done, next |-> pos]
    ELSE IF span = 1
         THEN LET Turn(c) == [hit |-> IF c.accepted THEN Some(c.game) ELSE None,
                              iter |-> done + 1, next |-> c.next]
              IN  Turn(Candidate(p, all_symbols, pos))
    ELSE LET part == (span + 9) \div 10
             Part(before, j) ==
                 IF before.hit # None \/ span <= j * part THEN before
                 ELSE FirstAccepted(p, all_symbols, done + j * part,
                                    Min(part, span - j * part), before.next)
             t1 == FirstAccepted(p, all_symbols, done, part, pos)
             t2 == Part(t1, 1)
             t3 == Part(t2, 2)
             t4 == Part(t3, 3)
             t5 == Part(t4, 4)
             t6 == Part(t5, 5)
             t7 == Part(t6, 6)
             t8 == Part(t7, 7)
             t9 == Part(t8, 8)
             t10 == Part(t9, 9)
         IN  << t1, t2, t3, t4, t5, t6, t7, t8, t9, t10 >>[10]

\* while iter < MAX_ITERS { .. }, then the terminal error: what the body
\* returns, and the value of iter it returns at.  The pool letters are
\* shuffled first, the loop comes second: at its first turn the generator
\* stands after that shuffle.
RetryLoop(p, all_symbols) ==
    LET Returned(searched) ==
            [result |-> IF searched.hit # None THEN searched.hit[1]
                        ELSE ErrGame(GENERATION_MSG),
             iter |-> searched.iter]
        pool == PoolShuffle(p)
        Loop(before) == Returned(FirstAccepted(p, all_symbols, 0, MAX_ITERS, before.next))
    IN  << pool, Loop(pool) >>[2]

---------------------------------------------------------------------------
\* State

VARIABLES
    GET_WORD,       \* store of get_word: seed -> Option<Result<String, String>>
    NUM_LETTERS,    \* store of _num_letters: seed -> Option<isize>
    VALID_GUESS,    \* store of _valid_guess: Guess -> Option<Result<..>>
    GENERATE_GAME,  \* store of _generate_game: parameters -> Option<Result<..>>
    task,           \* the request each task is serving and where it stands
    mix,            \* the requests the clients of this run make
    SESSIONS,       \* session store: session id -> Option<Record>
    today           \* the calendar day (chrono::Utc::now().num_days_from_ce())

vars == << GET_WORD, NUM_LETTERS, VALID_GUESS, GENERATE_GAME, task, mix, SESSIONS, today >>

\* The ids of the records the store comes to hold; 0 stands for no id (a
\* request that carries no session cookie, a session not yet saved).
SessionIds == 1..NumSessions

GuessWords == { <<"M", "X">>, <<"M", "I", "B">> }
GuessSessions == { Seed1 }
Guesses == [word : GuessWords, session : GuessSessions, mode : GameMode]

\* The (min_length, min_words, num_letters, seed) tuples requests may carry.
Games == [min_length : {2, 3}, min_words : {0, 1}, num_letters : {0, 3}, seed : {Seed1}]

GameOf(tk) ==
    [min_length |-> tk.min_length, min_words |-> tk.min_words,
     num_letters |-> tk.num_letters, seed |-> tk.key]

GuessOf(tk) == [word |-> tk.word, session |-> tk.key, mode |-> tk.mode]

IdleTask ==
    [op |-> "", pc |-> "idle", key |-> 0, word |-> << >>, mode |-> Normal,
     caller |-> "", prefix |-> None, wres |-> None, len |-> None, vres |-> None, exact |-> None,
     starting_with |-> None,
     min_length |-> 0, min_words |-> 0, num_letters |-> 0,
     letters |-> << >>, fetched |-> 0, failed |-> FALSE, all_symbols |-> { },
     iter |-> 0,
     gres |-> None,
     cookie |-> 0, sid |-> 0, word_selection |-> None, word_of_the_day |-> 0,
     hit |-> FALSE, queries |-> 0, out |-> NoResult]

\* The stores are empty and no request is being served.
Start ==
    /\ GET_WORD = [k \in Seeds |-> None]
    /\ NUM_LETTERS = [k \in Seeds |-> None]
    /\ VALID_GUESS = [g \in Guesses |-> None]
    /\ GENERATE_GAME = [p \in Games |-> None]
    /\ task = [t \in Tasks |-> IdleTask]
    /\ SESSIONS = [s \in SessionIds |-> None]
    /\ today = 1

---------------------------------------------------------------------------
\* The code that runs, without awaiting, once a memoized call has returned

\* Back in the caller of get_word with its result.
AfterGetWord(tk, wres) ==
    CASE tk.caller = "num_letters" ->
            [tk EXCEPT !.wres = Some(wres), !.out = Count(LengthOf(wres)), !.pc = "done"]
      [] tk.caller = "_num_letters" ->
            [tk EXCEPT !.wres = Some(wres), !.len = Some(LengthOf(wres)), !.pc = "nl_store"]
      [] OTHER ->
            [tk EXCEPT !.wres = Some(wres), !.pc = "done",
                       !.out = IF wres.ok THEN Score(tk.word, wres.word)
                               ELSE Invalid("internal_error", wres.err)]

\* Back in _valid_guess with the length: the checks up to the query.
AfterNumLetters(tk, len) ==
    LET decided == LengthCheck(tk.word, tk.mode, len) IN
    IF decided # None
    THEN [tk EXCEPT !.len = Some(len), !.vres = decided, !.pc = "vg_store"]
    ELSE [tk EXCEPT !.len = Some(len), !.pc = "vg_query", !.queries = @ + 1]

\* Back in guess with the validator's outcome.
AfterValidGuess(tk, vres) ==
    IF tk.op = "valid_guess"
    THEN [tk EXCEPT !.vres = Some(vres), !.pc = "done", !.out = Checked(vres)]
    ELSE IF vres = OkValid
    THEN [tk EXCEPT !.vres = Some(vres), !.pc = "gw_lookup", !.caller = "guess"]
    ELSE [tk EXCEPT !.vres = Some(vres), !.pc = "done",
                    !.out = IF vres.ok THEN Invalid(vres.reason, vres.msg)
                            ELSE Invalid("internal_error", vres.msg)]

\* Back in get_letters or check_guess with the game.
AfterGenerateGame(tk, gres) ==
    [tk EXCEPT !.gres = Some(gres), !.pc = "done",
               !.out = IF tk.op = "check_guess"
                       THEN Bool(gres.ok /\ tk.word \in gres.valid_symbols)
                       ELSE IF gres.ok THEN Metadata(gres.outer_letters, gres.center_letter)
                       ELSE Metadata(<< >>, "")]

\* The pool is complete: the retry loop runs without awaiting.
AfterPool(tk, all_symbols) ==
    IF GeneratePanics(GameOf(tk))
    THEN [tk EXCEPT !.all_symbols = all_symbols, !.pc = "done", !.iter = 1,
                    !.out = Panicked(UNWRAP_PANIC)]
    ELSE LET Returned(returned) ==
                 [tk EXCEPT !.all_symbols = all_symbols, !.pc = "gg_store",
                            !.iter = returned.iter,
                            !.gres = Some(returned.result)]
         IN  Returned(RetryLoop(GameOf(tk), all_symbols))

---------------------------------------------------------------------------
\* The memoization wrapper

\* A wrapper that never finds its key.
CacheGetMiss(store, key) == None

\* cache.cache_get(&key): the stored value, if any.
CacheGet(store, key) == store[key]

\* cache.cache_set(key, result.clone()).
CacheSet(store, key, value) == [store EXCEPT ![key] = Some(value)]

---------------------------------------------------------------------------
\* Requests

\* GET /api/v1/genedle-letters/{id}
CallNumLetters(t, keys) ==
    /\ task[t].pc = "idle"
    /\ \E key \in keys :
         task' = [task EXCEPT ![t] = [IdleTask EXCEPT !.op = "num_letters", !.key = key,
                                                      !.pc = "gw_lookup", !.caller = "num_letters"]]
    /\ UNCHANGED << GET_WORD, NUM_LETTERS, VALID_GUESS, GENERATE_GAME, mix, SESSIONS, today >>

\* POST /api/v1/genedle-guess
CallGuess(t, guesses) ==
    /\ task[t].pc = "idle"
    /\ \E g \in guesses :
         task' = [task EXCEPT ![t] = [IdleTask EXCEPT !.op = "guess", !.key = g.session,
                                                      !.word = g.word, !.mode = g.mode,
                                                      !.pc = "vg_lookup"]]
    /\ UNCHANGED << GET_WORD, NUM_LETTERS, VALID_GUESS, GENERATE_GAME, mix, SESSIONS, today >>

\* valid_guess, which no route of the server is bound to.
CallValidGuess(t, guesses) ==
    /\ task[t].pc = "idle"
    /\ \E g \in guesses :
         task' = [task EXCEPT ![t] = [IdleTask EXCEPT !.op = "valid_guess", !.key = g.session,
                                                      !.word = g.word, !.mode = g.mode,
                                                      !.pc = "vg_lookup"]]
    /\ UNCHANGED << GET_WORD, NUM_LETTERS, VALID_GUESS, GENERATE_GAME, mix, SESSIONS, today >>

\* _valid_guess: the wrapper's lookup.
ValidGuessLookup(t) ==
    /\ task[t].pc = "vg_lookup"
    /\ LET cached == CacheGet(VALID_GUESS, GuessOf(task[t])) IN
       task' = [task EXCEPT ![t] =
                  IF cached # None
                  THEN AfterValidGuess([task[t] EXCEPT !.hit = TRUE], cached[1])
                  ELSE [task[t] EXCEPT !.pc = "nl_lookup"]]
    /\ UNCHANGED << GET_WORD, NUM_LETTERS, VALID_GUESS, GENERATE_GAME, mix, SESSIONS, today >>

\* _num_letters: the wrapper's lookup.
NumLettersLookup(t) ==
    /\ task[t].pc = "nl_lookup"
    /\ LET cached == CacheGet(NUM_LETTERS, task[t].key) IN
       task' = [task EXCEPT ![t] =
                  IF cached # None
                  THEN AfterNumLetters(task[t], cached[1])
                  ELSE [task[t] EXCEPT !.pc = "gw_lookup", !.caller = "_num_letters"]]
    /\ UNCHANGED << GET_WORD, NUM_LETTERS, VALID_GUESS, GENERATE_GAME, mix, SESSIONS, today >>

\* get_word: the wrapper's lookup; on a miss the body sends the prefix query.
GetWordLookup(t) ==
    /\ task[t].pc = "gw_lookup"
    /\ LET cached == CacheGet(GET_WORD, task[t].key) IN
       task' = [task EXCEPT ![t] =
                  IF cached # None
                  THEN AfterGetWord([task[t] EXCEPT !.hit = (@ \/ task[t].op = "num_letters")],
                                    cached[1])
                  ELSE [task[t] EXCEPT !.pc = "gw_query", !.queries = @ + 1]]
    /\ UNCHANGED << GET_WORD, NUM_LETTERS, VALID_GUESS, GENERATE_GAME, mix, SESSIONS, today >>

\* get_word: send() resolves.  A failure to send and a status that is not
\* 2xx end the body; of a 2xx response the body goes on to await json().
GetWordResponse(t, responses) ==
    /\ task[t].pc = "gw_query"
    /\ \E r \in PrefixResponses(first_letter(task[t].key)) \cap responses :
         task' = [task EXCEPT ![t] =
                    IF r.kind \in {"transport", "http"}
                    THEN [task[t] EXCEPT !.pc = "gw_store", !.prefix = Some(r),
                                         !.wres = Some(GetWordResult(task[t].key, r))]
                    ELSE [task[t] EXCEPT !.pc = "gw_json"]]
    /\ UNCHANGED << GET_WORD, NUM_LETTERS, VALID_GUESS, GENERATE_GAME, mix, SESSIONS, today >>

\* get_word: json() resolves with the body of the 2xx response and the body
\* of get_word finishes.
GetWordJson(t, responses) ==
    /\ task[t].pc = "gw_json"
    /\ \E r \in PrefixResponses(first_letter(task[t].key)) \cap responses :
         /\ r.kind \in {"parse", "payload"}
         /\ task' = [task EXCEPT ![t] =
                    IF GetWordPanics(r)
                    THEN [task[t] EXCEPT !.pc = "done", !.prefix = Some(r),
                                         !.out = Panicked(RANGE_PANIC)]
                    ELSE [task[t] EXCEPT !.pc = "gw_store", !.prefix = Some(r),
                                         !.wres = Some(GetWordResult(task[t].key, r))]]
    /\ UNCHANGED << GET_WORD, NUM_LETTERS, VALID_GUESS, GENERATE_GAME, mix, SESSIONS, today >>

\* get_word: the wrapper stores the body's result and returns it.
GetWordStore(t) ==
    /\ task[t].pc = "gw_store"
    /\ GET_WORD' = CacheSet(GET_WORD, task[t].key, task[t].wres[1])
    /\ task' = [task EXCEPT ![t] = AfterGetWord(task[t], task[t].wres[1])]
    /\ UNCHANGED << NUM_LETTERS, VALID_GUESS, GENERATE_GAME, mix, SESSIONS, today >>

\* _num_letters: the wrapper stores the length and returns it.
NumLettersStore(t) ==
    /\ task[t].pc = "nl_store"
    /\ NUM_LETTERS' = CacheSet(NUM_LETTERS, task[t].key, task[t].len[1])
    /\ task' = [task EXCEPT ![t] = AfterNumLetters(task[t], task[t].len[1])]
    /\ UNCHANGED << GET_WORD, VALID_GUESS, GENERATE_GAME, mix, SESSIONS, today >>

\* _valid_guess: send() of the exact-match query resolves.  A failure to
\* send and a status that is not 2xx end the body; of a 2xx response the
\* body goes on to await json().
ValidGuessResponse(t, responses) ==
    /\ task[t].pc = "vg_query"
    /\ \E r \in ExactResponses(task[t].word) \cap responses :
         task' = [task EXCEPT ![t] =
                    IF r.kind \in {"transport", "http"}
                    THEN [task[t] EXCEPT !.pc = "vg_store", !.exact = Some(r),
                                         !.vres = Some(ExactResult(task[t].word, r))]
                    ELSE [task[t] EXCEPT !.pc = "vg_json"]]
    /\ UNCHANGED << GET_WORD, NUM_LETTERS, VALID_GUESS, GENERATE_GAME, mix, SESSIONS, today >>

\* _valid_guess: json() resolves with the body of the 2xx response.
ValidGuessJson(t, responses) ==
    /\ task[t].pc = "vg_json"
    /\ \E r \in ExactResponses(task[t].word) \cap responses :
         /\ r.kind \in {"parse", "payload"}
         /\ task' = [task EXCEPT ![t] =
                       [task[t] EXCEPT !.pc = "vg_store", !.exact = Some(r),
                                       !.vres = Some(ExactResult(task[t].word, r))]]
    /\ UNCHANGED << GET_WORD, NUM_LETTERS, VALID_GUESS, GENERATE_GAME, mix, SESSIONS, today >>

\* _valid_guess: the wrapper stores the outcome and returns it.
ValidGuessStore(t) ==
    /\ task[t].pc = "vg_store"
    /\ VALID_GUESS' = CacheSet(VALID_GUESS, GuessOf(task[t]), task[t].vres[1])
    /\ task' = [task EXCEPT ![t] = AfterValidGuess(task[t], task[t].vres[1])]
    /\ UNCHANGED << GET_WORD, NUM_LETTERS, GENERATE_GAME, mix, SESSIONS, today >>

\* GET /api/v1/spelling-gene/{seed}/{min_length}/{min_words}/{num_letters}
CallGetLetters(t, games) ==
    /\ task[t].pc = "idle"
    /\ \E p \in games :
         task' = [task EXCEPT ![t] = [IdleTask EXCEPT !.op = "get_letters", !.key = p.seed,
                                        !.min_length = p.min_length, !.min_words = p.min_words,
                                        !.num_letters = p.num_letters, !.pc = "gg_lookup"]]
    /\ UNCHANGED << GET_WORD, NUM_LETTERS, VALID_GUESS, GENERATE_GAME, mix, SESSIONS, today >>

\* GET /api/v1/spelling-gene-guess/{seed}/{min_length}/{min_words}/{num_letters}/{guess}
CallCheckGuess(t, games, words) ==
    /\ task[t].pc = "idle"
    /\ \E p \in games, w \in words :
         task' = [task EXCEPT ![t] = [IdleTask EXCEPT !.op = "check_guess", !.key = p.seed,
                                        !.word = w,
                                        !.min_length = p.min_length, !.min_words = p.min_words,
                                        !.num_letters = p.num_letters, !.pc = "gg_lookup"]]
    /\ UNCHANGED << GET_WORD, NUM_LETTERS, VALID_GUESS, GENERATE_GAME, mix, SESSIONS, today >>

\* _generate_game: the wrapper's lookup; on a miss the body starts on the pool.
GenerateGameLookup(t) ==
    /\ task[t].pc = "gg_lookup"
    /\ LET cached == CacheGet(GENERATE_GAME, GameOf(task[t])) IN
       task' = [task EXCEPT ![t] =
                  IF cached # None
                  THEN AfterGenerateGame([task[t] EXCEPT !.hit = TRUE], cached[1])
                  ELSE [task[t] EXCEPT !.pc = "gg_fetch",
                                       !.letters = PoolLetters(GameOf(task[t]))]]
    /\ UNCHANGED << GET_WORD, NUM_LETTERS, VALID_GUESS, GENERATE_GAME, mix, SESSIONS, today >>

\* The task once get_options has returned for its next pool letter; after
\* the last letter the body goes on to its retry loop.  queries counts the
\* queries get_options sent: the suffix query is sent once the prefix
\* exchange has not failed.
AfterOptions(tk, starting_with, containing) ==
    LET all_symbols == tk.all_symbols
            \cup LongEnough(get_options(starting_with, containing), tk.min_length)
        sent == IF Failed(starting_with) THEN 1 ELSE 2
        next == [tk EXCEPT !.pc = "gg_fetch", !.starting_with = None,
                           !.fetched = @ + 1, !.queries = @ + sent,
                           !.failed = (@ \/ Unanswered(starting_with)
                                         \/ Unanswered(containing)),
                           !.all_symbols = all_symbols]
    IN  IF tk.fetched + 1 = Len(tk.letters) THEN [next EXCEPT !.pc = "gg_retry"] ELSE next

\* A body that publishes the game of the pool it has so far after each letter.
ExtendPoolPublishing(t, starting_with, containing) ==
    /\ task' = [task EXCEPT ![t] = AfterOptions(task[t], starting_with, containing)]
    /\ GENERATE_GAME' = [GENERATE_GAME EXCEPT ![GameOf(task[t])] =
                            Some(OkGame(<< >>, "", task'[t].all_symbols))]
    /\ UNCHANGED << GET_WORD, NUM_LETTERS, VALID_GUESS, mix, SESSIONS, today >>

\* all_symbols.extend(..) for one pool letter: the pool is a local of the
\* body and no store is touched.
ExtendPool(t, starting_with, containing) ==
    /\ task' = [task EXCEPT ![t] = AfterOptions(task[t], starting_with, containing)]
    /\ UNCHANGED << GET_WORD, NUM_LETTERS, VALID_GUESS, GENERATE_GAME, mix, SESSIONS, today >>

\* The pool letter get_options is called with.
Letter(tk) == tk.letters[tk.fetched + 1]

\* get_options: send() of the prefix query resolves; a failure to send
\* makes get_options return at its first `?`.
GetOptionsPrefix(t, responses) ==
    /\ task[t].pc = "gg_fetch"
    /\ \E r \in PoolResponses(PrefixSymbols(Letter(task[t]))) \cap responses :
         IF r.kind = "transport"
         THEN ExtendPool(t, r, NotSent)
         ELSE /\ task' = [task EXCEPT ![t] = [task[t] EXCEPT !.pc = "gg_prefix_json"]]
              /\ UNCHANGED << GET_WORD, NUM_LETTERS, VALID_GUESS, GENERATE_GAME,
                              mix, SESSIONS, today >>

\* get_options: json() of the prefix answer resolves; a body that does not
\* decode makes get_options return, else the suffix query is sent.
GetOptionsPrefixJson(t, responses) ==
    /\ task[t].pc = "gg_prefix_json"
    /\ \E r \in PoolResponses(PrefixSymbols(Letter(task[t]))) \cap responses :
         /\ r.kind # "transport"
         /\ IF Failed(r)
            THEN ExtendPool(t, r, NotSent)
            ELSE /\ task' = [task EXCEPT ![t] =
                               [task[t] EXCEPT !.pc = "gg_suffix", !.starting_with = Some(r)]]
                 /\ UNCHANGED << GET_WORD, NUM_LETTERS, VALID_GUESS, GENERATE_GAME,
                                 mix, SESSIONS, today >>

\* get_options: send() of the suffix query resolves.
GetOptionsSuffix(t, responses) ==
    /\ task[t].pc = "gg_suffix"
    /\ \E r \in PoolResponses(SuffixSymbols(Letter(task[t]))) \cap responses :
         IF r.kind = "transport"
         THEN ExtendPool(t, task[t].starting_with[1], r)
         ELSE /\ task' = [task EXCEPT ![t] = [task[t] EXCEPT !.pc = "gg_suffix_json"]]
              /\ UNCHANGED << GET_WORD, NUM_LETTERS, VALID_GUESS, GENERATE_GAME,
                              mix, SESSIONS, today >>

\* get_options: json() of the suffix answer resolves and get_options
\* returns.
GetOptionsSuffixJson(t, responses) ==
    /\ task[t].pc = "gg_suffix_json"
    /\ \E r \in PoolResponses(SuffixSymbols(Letter(task[t]))) \cap responses :
         /\ r.kind # "transport"
         /\ ExtendPool(t, task[t].starting_with[1], r)

\* _generate_game: the retry loop over the finished pool.  It awaits
\* nothing and reads and writes locals of the body only.
GenerateGameRetry(t) ==
    /\ task[t].pc = "gg_retry"
    /\ task' = [task EXCEPT ![t] = AfterPool(task[t], task[t].all_symbols)]
    /\ UNCHANGED << GET_WORD, NUM_LETTERS, VALID_GUESS, GENERATE_GAME, mix, SESSIONS, today >>

\* _generate_game: the wrapper stores the body's result and returns it.
GenerateGameStore(t) ==
    /\ task[t].pc = "gg_store"
    /\ GENERATE_GAME' = CacheSet(GENERATE_GAME, GameOf(task[t]), task[t].gres[1])
    /\ task' = [task EXCEPT ![t] = AfterGenerateGame(task[t], task[t].gres[1])]
    /\ UNCHANGED << GET_WORD, NUM_LETTERS, VALID_GUESS, mix, SESSIONS, today >>

\* The client disconnects: the request's future is dropped at its await.
Cancel(t) ==
    /\ task[t].pc \notin {"idle", "done", "gg_retry"}
    /\ task' = [task EXCEPT ![t] = IdleTask]
    /\ UNCHANGED << GET_WORD, NUM_LETTERS, VALID_GUESS, GENERATE_GAME, mix, SESSIONS, today >>

\* The response (or the panic) has left the task: it takes the next request.
Respond(t) ==
    /\ task[t].pc = "done"
    /\ task' = [task EXCEPT ![t] = IdleTask]
    /\ UNCHANGED << GET_WORD, NUM_LETTERS, VALID_GUESS, GENERATE_GAME, mix, SESSIONS, today >>

\* The requests and the registry answers of one run.  The two games share no
\* store, and the length requests of another seed touch no store a guess
\* reads: a run serves one of these mixes.
MainGuesses ==
    { [word |-> <<"M", "X">>, session |-> Seed1, mode |-> Normal],
      [word |-> <<"M", "I", "B">>, session |-> Seed1, mode |-> Hard] }

MainGames == { [min_length |-> 2, min_words |-> 0, num_letters |-> 3, seed |-> Seed1] }

MainWords == { <<"N", "Q">> }

\* Of the registry: one failure, and the well-formed answers that list what
\* the registry holds or held before its last symbol was added.
MainResponses ==
    { r \in UNION {PrefixResponses(first_letter(k)) : k \in Seeds}
                \cup UNION {ExactResponses(w) : w \in GuessWords}
                \cup UNION {PoolResponses(PrefixSymbols(l)) : l \in Range(VALID_LETTERS)}
                \cup UNION {PoolResponses(SuffixSymbols(l)) : l \in Range(VALID_LETTERS)} :
        \/ r.kind = "transport"
        \/ r.kind = "payload" /\ r.status = STATUS_SUCCESS /\ Len(r.docs) = r.num_found
                              /\ (r.num_found > 0 => r.docs[1] # OtherSymbol) }

\* The answers of the registry to the pool queries of a task's computation:
\* of the exchanges of one computation, the registry fails one at most.
MainPoolResponses(tk) ==
    IF tk.failed THEN {r \in MainResponses : r.kind # "transport"} ELSE MainResponses

Init == Start /\ mix \in {"letters", "guesses", "games"}

Next ==
    \/ \E t \in Tasks : CallNumLetters(t, IF mix = "letters" THEN Seeds
                                          ELSE IF mix = "guesses" THEN {Seed1} ELSE { })
    \/ \E t \in Tasks : CallGuess(t, IF mix = "guesses" THEN MainGuesses ELSE { })
    \/ \E t \in Tasks : CallGetLetters(t, IF mix = "games" THEN MainGames ELSE { })
    \/ \E t \in Tasks : CallCheckGuess(t, IF mix = "games" THEN MainGames ELSE { }, MainWords)
    \/ \E t \in Tasks : ValidGuessLookup(t)
    \/ \E t \in Tasks : NumLettersLookup(t)
    \/ \E t \in Tasks : GetWordLookup(t)
    \/ \E t \in Tasks : GetWordResponse(t, MainResponses)
    \/ \E t \in Tasks : GetWordJson(t, MainResponses)
    \/ \E t \in Tasks : GetWordStore(t)
    \/ \E t \in Tasks : NumLettersStore(t)
    \/ \E t \in Tasks : ValidGuessResponse(t, MainResponses)
    \/ \E t \in Tasks : ValidGuessJson(t, MainResponses)
    \/ \E t \in Tasks : ValidGuessStore(t)
    \/ \E t \in Tasks : GenerateGameLookup(t)
    \/ \E t \in Tasks : GetOptionsPrefix(t, MainPoolResponses(task[t]))
    \/ \E t \in Tasks : GetOptionsPrefixJson(t, MainPoolResponses(task[t]))
    \/ \E t \in Tasks : GetOptionsSuffix(t, MainPoolResponses(task[t]))
    \/ \E t \in Tasks : GetOptionsSuffixJson(t, MainPoolResponses(task[t]))
    \/ \E t \in Tasks : GenerateGameRetry(t)
    \/ \E t \in Tasks : GenerateGameStore(t)
    \/ \E t \in Tasks : Cancel(t)
    \/ \E t \in Tasks : Respond(t)

Spec == Init /\ [][Next]_vars

---------------------------------------------------------------------------
\* The validator on every guess and every registry answer

AllResponses ==
    UNION {PrefixResponses(first_letter(k)) : k \in Seeds}
        \cup UNION {ExactResponses(w) : w \in GuessWords}

InitValidator == Start /\ mix = "validator"

\* One task serves the guesses one after another.
NextValidator ==
    \/ CallGuess(1, Guesses)
    \/ CallValidGuess(1, Guesses)
    \/ ValidGuessLookup(1)
    \/ NumLettersLookup(1)
    \/ GetWordLookup(1)
    \/ GetWordResponse(1, AllResponses)
    \/ GetWordJson(1, AllResponses)
    \/ GetWordStore(1)
    \/ NumLettersStore(1)
    \/ ValidGuessResponse(1, AllResponses)
    \/ ValidGuessJson(1, AllResponses)
    \/ ValidGuessStore(1)
    \/ Respond(1)

SpecValidator == InitValidator /\ [][NextValidator]_vars

---------------------------------------------------------------------------
\* The scorer on every guess and secret of equal length

ScoreAlphabet == {"A", "B", "C"}

Words(n) == UNION {[1..k -> ScoreAlphabet] : k \in 1..n}

InitScore == Start /\ mix = "scorer"

\* guess, from the point where the validator has accepted the guess and
\* get_word has returned the secret.
ScoreGuess(t) ==
    /\ task[t].pc = "idle"
    /\ \E g \in Words(MaxLen), secret \in Words(MaxLen) :
         /\ Len(g) = Len(secret)
         /\ task' = [task EXCEPT ![t] =
                       AfterGetWord([IdleTask EXCEPT !.op = "guess", !.word = g,
                                                     !.caller = "guess"],
                                    OkWord(secret))]
    /\ UNCHANGED << GET_WORD, NUM_LETTERS, VALID_GUESS, GENERATE_GAME, mix, SESSIONS, today >>

NextScore ==
    \/ ScoreGuess(1)
    \/ Respond(1)

SpecScore == InitScore /\ [][NextScore]_vars

---------------------------------------------------------------------------
\* The word of the day of a session (games/genedle.rs)

\* An init_word that writes the day's value whatever the session holds.
init_wordAlways(word_selection, word_of_the_day) ==
    [write |-> TRUE, word |-> word_of_the_day]

\* init_word: what it returns and whether it inserts, given what the
\* session holds under WORD_KEY and the day.
init_word(word_selection, word_of_the_day) ==
    IF word_selection = None
    THEN [write |-> TRUE, word |-> word_of_the_day]
    ELSE [write |-> FALSE, word |-> word_selection[1]]

\* The session store (tower_sessions, as main builds it)

\* Expiry::OnInactivity(Duration::days(1)): a record expires this many days
\* after it was last saved.
EXPIRY_DAYS == 1

\* A record the layer saves on the day `day`: the value under WORD_KEY, the
\* day its expiry instant falls in, and whether that instant has passed
\* (the clock counts days, the expiry instant lies within one).
Record(word, day) == [word |-> word, expiry_date |-> day + EXPIRY_DAYS, lapsed |-> FALSE]

\* store.load(id): the record under the id unless it has expired.  The
\* store keeps an expired record and no longer hands it out.
load(sid) ==
    IF sid = 0 \/ SESSIONS[sid] = None THEN None
    ELSE IF SESSIONS[sid][1].lapsed THEN None
    ELSE SESSIONS[sid]

\* GET /games/genedle, with the cookie of a session the store holds or with
\* none.  The store holds a record only for a session something was
\* inserted into, and init_word's insert is the only one there is.  A run
\* makes no more visits than NumSessions leaves records for: those the
\* store holds and those the visits under way may yet have saved.
CallGenedle(t) ==
    /\ task[t].pc = "idle"
    /\ LET held == {s \in SessionIds : SESSIONS[s] # None}
           pending == {u \in Tasks : task[u].pc \in {"iw_get", "iw_insert", "iw_save"}}
       IN  /\ Cardinality(held) + Cardinality(pending) < NumSessions
           /\ \E sid \in {0} \cup held :
                 task' = [task EXCEPT ![t] = [IdleTask EXCEPT !.op = "genedle", !.cookie = sid,
                                                              !.sid = sid, !.pc = "iw_get"]]
    /\ UNCHANGED << GET_WORD, NUM_LETTERS, VALID_GUESS, GENERATE_GAME, mix, SESSIONS, today >>

\* get_word(session): session.get::<u64>(WORD_KEY) loads the record of the
\* cookie's session (a session whose record is not handed out starts anew,
\* without an id), and the match on it: the Some arm returns the value, the
\* None arm reads the clock and goes on to insert.
SessionGet(t) ==
    /\ task[t].pc = "iw_get"
    /\ LET Arm(record) ==
               LET word_selection == IF record = None THEN None ELSE Some(record[1].word)
                   r == init_word(word_selection, today)
                   got == [task[t] EXCEPT !.word_selection = word_selection,
                                          !.sid = IF record = None THEN 0 ELSE @]
               IN  IF r.write
                   THEN [got EXCEPT !.word_of_the_day = r.word, !.pc = "iw_insert"]
                   ELSE [got EXCEPT !.pc = "done", !.out = Word(r.word)]
       IN  task' = [task EXCEPT ![t] = Arm(load(task[t].sid))]
    /\ UNCHANGED << GET_WORD, NUM_LETTERS, VALID_GUESS, GENERATE_GAME, mix, SESSIONS, today >>

\* init_word, None arm: session.insert(WORD_KEY, word_of_the_day) resolves.
\* An Err leaves at the `?` and genedle answers with the error's text; else
\* init_word returns the day it read and genedle its text, which leaves
\* once the layer has saved the session.
SessionInsert(t) ==
    /\ task[t].pc = "iw_insert"
    /\ \/ task' = [task EXCEPT ![t] = [task[t] EXCEPT !.pc = "iw_save",
                                                      !.out = Word(task[t].word_of_the_day)]]
       \/ task' = [task EXCEPT ![t] = [task[t] EXCEPT !.pc = "done",
                                                      !.out = InitError("session store failure")]]
    /\ UNCHANGED << GET_WORD, NUM_LETTERS, VALID_GUESS, GENERATE_GAME, mix, SESSIONS, today >>

\* The layer saves the modified session after the handler has returned: a
\* session without an id is created under a fresh one, and the record
\* expires EXPIRY_DAYS after this save.
SessionSave(t) ==
    /\ task[t].pc = "iw_save"
    /\ \E sid \in SessionIds :
         /\ IF task[t].sid = 0 THEN SESSIONS[sid] = None ELSE sid = task[t].sid
         /\ SESSIONS' = [SESSIONS EXCEPT ![sid] = Some(Record(task[t].word_of_the_day, today))]
         /\ task' = [task EXCEPT ![t] = [task[t] EXCEPT !.sid = sid, !.pc = "done"]]
    /\ UNCHANGED << GET_WORD, NUM_LETTERS, VALID_GUESS, GENERATE_GAME, mix, today >>

\* The expiry instant of a record passes, within the day it falls in.
Expire(sid) ==
    /\ SESSIONS[sid] # None
    /\ ~SESSIONS[sid][1].lapsed
    /\ SESSIONS[sid][1].expiry_date = today
    /\ SESSIONS' = [SESSIONS EXCEPT ![sid] = Some([@[1] EXCEPT !.lapsed = TRUE])]
    /\ UNCHANGED << GET_WORD, NUM_LETTERS, VALID_GUESS, GENERATE_GAME, task, mix, today >>

\* Midnight (UTC) passes, and with it every expiry instant of the day.
NextDay ==
    /\ today < MaxDay
    /\ today' = today + 1
    /\ SESSIONS' = [s \in SessionIds |->
                      IF SESSIONS[s] # None /\ SESSIONS[s][1].expiry_date <= today
                      THEN Some([SESSIONS[s][1] EXCEPT !.lapsed = TRUE])
                      ELSE SESSIONS[s]]
    /\ UNCHANGED << GET_WORD, NUM_LETTERS, VALID_GUESS, GENERATE_GAME, task, mix >>

InitSession == Start /\ mix = "session"

NextSession ==
    \/ \E t \in Tasks : CallGenedle(t)
    \/ \E t \in Tasks : SessionGet(t)
    \/ \E t \in Tasks : SessionInsert(t)
    \/ \E t \in Tasks : SessionSave(t)
    \/ \E s \in SessionIds : Expire(s)
    \/ \E t \in Tasks : Cancel(t)
    \/ \E t \in Tasks : Respond(t)
    \/ NextDay

SpecSession == InitSession /\ [][NextSession]_vars

---------------------------------------------------------------------------
\* The puzzle generator on every parameter tuple and every registry answer

GameWords == { <<"N", "Q">> }

PoolAnswers ==
    UNION {PoolResponses(PrefixSymbols(l)) : l \in Range(VALID_LETTERS)}
        \cup UNION {PoolResponses(SuffixSymbols(l)) : l \in Range(VALID_LETTERS)}

\* The clients of a run ask for one parameter tuple.
InitGame == Start /\ mix \in Games

\* One task serves the requests one after another.
NextGame ==
    \/ CallGetLetters(1, {mix})
    \/ CallCheckGuess(1, {mix}, GameWords)
    \/ GenerateGameLookup(1)
    \/ GetOptionsPrefix(1, PoolAnswers)
    \/ GetOptionsPrefixJson(1, PoolAnswers)
    \/ GetOptionsSuffix(1, PoolAnswers)
    \/ GetOptionsSuffixJson(1, PoolAnswers)
    \/ GenerateGameRetry(1)
    \/ GenerateGameStore(1)
    \/ Respond(1)

SpecGame == InitGame /\ [][NextGame]_vars

---------------------------------------------------------------------------
\* Where a task stands

\* The task is inside the body of the memoized function (between the
\* wrapper's miss and its store).
InGetWord(tk) == tk.pc \in {"gw_query", "gw_json", "gw_store"}

InNumLetters(tk) ==
    \/ tk.pc = "nl_store"
    \/ tk.pc \in {"gw_lookup", "gw_query", "gw_json", "gw_store"} /\ tk.caller = "_num_letters"

InValidGuess(tk) ==
    tk.pc \in {"nl_lookup", "vg_query", "vg_json", "vg_store"} \/ InNumLetters(tk)

\* The body of _generate_game is in get_options, at one of its four awaits.
InGetOptions(tk) == tk.pc \in {"gg_fetch", "gg_prefix_json", "gg_suffix", "gg_suffix_json"}

InGenerateGame(tk) == InGetOptions(tk) \/ tk.pc \in {"gg_retry", "gg_store"}

\* The task's request has been answered (or has panicked).
Done(tk) == tk.pc = "done"

---------------------------------------------------------------------------
\* C1: coalescing.  No two tasks are ever inside the body of the same
\* memoized function for the same key at the same time: the callers of a key
\* that is not cached yet share one invocation of the body.
C1_OneInvocationPerKey ==
    \A t1, t2 \in Tasks :
        t1 # t2 =>
            /\ ~(InGetWord(task[t1]) /\ InGetWord(task[t2])
                    /\ task[t1].key = task[t2].key)
            /\ ~(InNumLetters(task[t1]) /\ InNumLetters(task[t2])
                    /\ task[t1].key = task[t2].key)
            /\ ~(InValidGuess(task[t1]) /\ InValidGuess(task[t2])
                    /\ GuessOf(task[t1]) = GuessOf(task[t2]))
            /\ ~(InGenerateGame(task[t1]) /\ InGenerateGame(task[t2])
                    /\ GameOf(task[t1]) = GameOf(task[t2]))

\* C2: cache hit.  A lookup that finds its key stored hands the caller the
\* stored value and sends no query, for each of the four memoized functions;
\* and a request whose memoized call was a hit has sent no query at all.
C2_HitStep(t) ==
    LET old == task[t]
        new == task'[t]
    IN  (new # old /\ new.pc # "idle") =>
          /\ (old.pc = "gw_lookup" /\ GET_WORD[old.key] # None) =>
                /\ new.wres = GET_WORD[old.key]
                /\ new.pc # "gw_query"
                /\ new.queries = old.queries
          /\ (old.pc = "nl_lookup" /\ NUM_LETTERS[old.key] # None) =>
                /\ new.len = NUM_LETTERS[old.key]
                /\ new.pc \notin {"gw_lookup", "gw_query"}
                /\ new.wres = None
          /\ (old.pc = "vg_lookup" /\ VALID_GUESS[GuessOf(old)] # None) =>
                /\ new.vres = VALID_GUESS[GuessOf(old)]
                /\ new.pc \notin {"nl_lookup", "vg_query"}
                /\ new.queries = old.queries
          /\ (old.pc = "gg_lookup" /\ GENERATE_GAME[GameOf(old)] # None) =>
                /\ new.gres = GENERATE_GAME[GameOf(old)]
                /\ new.pc = "done"
                /\ new.queries = old.queries

\* C2: every step keeps the cache-hit rule, and a request answered from the
\* stores alone has sent no registry query.
C2_CacheHit ==
    [][ /\ \A t \in Tasks : C2_HitStep(t)
        /\ \A t \in Tasks : task'[t].hit => task'[t].queries = 0
      ]_vars

\* A guess has been scored with both of its memoized calls answered from
\* the stores.
C2_Witness ==
    \E t \in Tasks :
        /\ Done(task[t]) /\ task[t].hit
        /\ task[t].op = "guess" /\ task[t].out.type = "valid"

\* C3: a stored secret word or puzzle never changes to a different value.
C3_EntryNeverChanges ==
    [][ /\ \A k \in Seeds :
              (GET_WORD[k] # None /\ GET_WORD[k][1].ok) => GET_WORD'[k] = GET_WORD[k]
        /\ \A p \in Games :
              (GENERATE_GAME[p] # None /\ GENERATE_GAME[p][1].ok)
                  => GENERATE_GAME'[p] = GENERATE_GAME[p]
      ]_vars

\* C4: a store changes only when a task whose body has run to its end sets
\* its own key to the result of that body (for _generate_game: the result of
\* the retry loop over the pool of all the pool letters); a task that is
\* still running or is cancelled part-way changes no store; and the game a
\* request answers with is a stored one or the finished one of its own body.
C4_Finished(tk) ==
    /\ tk.fetched = Len(tk.letters)
    /\ Len(tk.letters) = Min(tk.num_letters + POOL_EXTRA, Len(VALID_LETTERS))
    /\ tk.gres = Some(RetryLoop(GameOf(tk), tk.all_symbols).result)

\* C4: every step stores complete results only, and a cancelled or running
\* body stores nothing.
C4_OnlyCompleteResults ==
    [][ /\ \A k \in Seeds :
              GET_WORD'[k] # GET_WORD[k] =>
                  \E t \in Tasks : /\ task[t].pc = "gw_store" /\ task[t].key = k
                                   /\ task[t].wres # None
                                   /\ GET_WORD' = [GET_WORD EXCEPT ![k] = task[t].wres]
        /\ \A p \in Games :
              GENERATE_GAME'[p] # GENERATE_GAME[p] =>
                  \E t \in Tasks : /\ task[t].pc = "gg_store" /\ GameOf(task[t]) = p
                                   /\ Done(task'[t])
                                   /\ GENERATE_GAME' = [GENERATE_GAME EXCEPT ![p] = task[t].gres]
        /\ \A t \in Tasks :
              (task[t].pc \notin {"gw_store", "nl_store", "vg_store", "gg_store"})
                  => (task'[t] = task[t]
                        \/ UNCHANGED << GET_WORD, NUM_LETTERS, VALID_GUESS, GENERATE_GAME >>)
        /\ \A t \in Tasks :
              (task'[t].pc = "idle" /\ ~Done(task[t]) /\ task[t].pc # "idle")
                  => UNCHANGED << GET_WORD, NUM_LETTERS, VALID_GUESS, GENERATE_GAME >>
        /\ \A t \in Tasks :
              (Done(task'[t]) /\ ~Done(task[t]) /\ task'[t].gres # None) =>
                  \/ task[t].pc = "gg_lookup"
                        /\ task'[t].gres = GENERATE_GAME[GameOf(task[t])]
                  \/ task[t].pc = "gg_store" /\ C4_Finished(task[t])
                        /\ task'[t].gres = task[t].gres
      ]_vars

\* A request is part-way through its pool, with symbols collected, while
\* the store of _generate_game holds a finished game for its key and another
\* task is idle.
C4_Witness ==
    \E t1, t2 \in Tasks :
        /\ task[t1].pc = "gg_fetch" /\ task[t1].fetched > 0
        /\ task[t1].all_symbols # { }
        /\ GENERATE_GAME[GameOf(task[t1])] # None
        /\ GENERATE_GAME[GameOf(task[t1])][1].valid_symbols # { }
        /\ task[t2].pc = "idle"

\* C5: selector determinism.  Every outcome of get_word a task holds for a
\* seed is the outcome every other task holds for it and the stored one.
C5_SameOutcomePerSeed ==
    \A t1 \in Tasks :
        task[t1].wres # None =>
            /\ \A t2 \in Tasks :
                  (task[t2].wres # None /\ task[t2].key = task[t1].key)
                      => task[t2].wres = task[t1].wres
            /\ GET_WORD[task[t1].key] # None => GET_WORD[task[t1].key] = task[t1].wres

\* C8: a guess is scored only against a secret of its own length: a guess
\* that was answered did not panic in the scorer, and a Valid answer carries
\* one feedback per letter of the guess and per letter of the secret.
C8_ScoredAtEqualLength ==
    \A t \in Tasks :
        (Done(task[t]) /\ task[t].op = "guess") =>
            /\ task[t].out # Panicked(SCORE_PANIC)
            /\ task[t].out.type = "valid" =>
                  /\ Len(task[t].out.result) = Len(task[t].word)
                  /\ Len(task[t].wres[1].word) = Len(task[t].word)

---------------------------------------------------------------------------
\* C6: the scorer against the two-pass reference.  For a guess g and a
\* secret w of equal length: position i is Correct iff g[i] = w[i]; another
\* position is Present iff fewer occurrences of its letter are used up (by
\* the Correct positions anywhere and the non-Correct positions before it)
\* than w holds, else Absent; per letter the Correct-or-Present positions
\* number min(occurrences in g, occurrences in w); is_correct iff g = w.
C6_Matches(g, w, c) == {j \in 1..Len(g) : g[j] = c /\ w[j] = c}

C6_EarlierMisses(g, w, i) == {j \in 1..(i - 1) : g[j] = g[i] /\ w[j] # g[j]}

C6_InSecret(w, c) == {j \in 1..Len(w) : w[j] = c}

C6_Reference(g, w, i) ==
    IF g[i] = w[i] THEN Correct
    ELSE IF Cardinality(C6_Matches(g, w, g[i])) + Cardinality(C6_EarlierMisses(g, w, i))
              < Cardinality(C6_InSecret(w, g[i]))
         THEN Present
         ELSE Absent

\* C6: the Valid outcome of guess is the two-pass reference at every
\* position, per letter and in is_correct.
C6_TwoPassScoring ==
    \A t \in Tasks :
        LET tk == task[t]
            g == tk.word
            w == tk.wres[1].word
            fb == tk.out.result
        IN  (Done(tk) /\ tk.op = "guess" /\ tk.wres # None /\ tk.wres[1].ok
                /\ Len(g) = Len(w)) =>
              /\ tk.out.type = "valid"
              /\ Len(fb) = Len(g)
              /\ \A i \in 1..Len(g) : fb[i] = C6_Reference(g, w, i)
              /\ \A c \in Letters(g) :
                    Cardinality({i \in 1..Len(g) : g[i] = c /\ fb[i] \in {Correct, Present}})
                        = Min(Cardinality(C6_InSecret(g, c)), Cardinality(C6_InSecret(w, c)))
              /\ tk.out.is_correct <=> (g = w)

\* A guess that repeats a letter the secret holds once was scored: the
\* occurrence in place is Correct and an earlier one is Absent.
C6_Witness ==
    \E t \in Tasks :
        LET tk == task[t] IN
        /\ Done(tk) /\ tk.out.type = "valid"
        /\ \E i, j \in 1..Len(tk.word) :
              /\ i < j /\ tk.word[i] = tk.word[j]
              /\ tk.out.result[i] = Absent /\ tk.out.result[j] = Correct

---------------------------------------------------------------------------
\* The validator ran in this request (the guess was not in the store of
\* _valid_guess) and is past its length checks.
Validated(tk) == tk.op = "guess" /\ tk.len # None /\ tk.pc # "nl_store"

\* The exact-match query is in flight or was answered.
ExactSent(tk) == tk.exact # None \/ tk.pc \in {"vg_query", "vg_json"}

\* No exact-match query was sent and no feedback came back.
NotQueried(tk) == ~ExactSent(tk)

Rejected(tk, reason, msg) ==
    /\ tk.vres = Some(OkInvalid(reason, msg))
    /\ NotQueried(tk)
    /\ tk.pc \in {"vg_store", "done"}
    /\ Done(tk) => tk.out = Invalid(reason, msg)

\* The length lookup of the guess ended with the secret's length.
Resolved(tk) == tk.len # None /\ tk.len[1] >= 0

\* With the length resolved, a shorter guess is NotEnoughLetters and a
\* longer one TooManyLetters, in either mode, with no exact-match query and
\* no feedback; a length of -1 is InternalError.
LengthOutcomes ==
    \A t \in Tasks :
        LET tk == task[t] IN
        Validated(tk) =>
            /\ tk.len[1] = -1 => Rejected(tk, "internal_error", FETCH_MSG)
            /\ (tk.len[1] >= 0 /\ Len(tk.word) < tk.len[1])
                    => Rejected(tk, "not_enough_letters", "")
            /\ (tk.len[1] >= 0 /\ Len(tk.word) > tk.len[1])
                    => Rejected(tk, "too_many_letters", "")

\* A guess that ran the validator and ended with no secret resolved, be it
\* that get_word returned an error or that it did not return, is answered
\* Invalid(InternalError), with no exact-match query and no feedback.
UnresolvedOutcome ==
    \A t \in Tasks :
        LET tk == task[t] IN
        (tk.op = "guess" /\ Done(tk) /\ ~tk.hit /\ ~Resolved(tk)) =>
            /\ tk.out.type = "invalid"
            /\ tk.out.reason = "internal_error"
            /\ NotQueried(tk)

\* C7: when the secret resolves, a shorter guess is NotEnoughLetters and a
\* longer one TooManyLetters, in either mode, with no exact-match query and
\* no feedback; when the secret cannot be resolved, the guess is answered
\* InternalError before any length comparison.
C7_LengthErrors == LengthOutcomes /\ UnresolvedOutcome

\* C9: in Normal mode a guess of the secret's length passes the validator
\* with no exact-match query.
C9_NormalAccepts ==
    \A t \in Tasks :
        LET tk == task[t] IN
        (Validated(tk) /\ tk.mode = Normal /\ tk.len[1] = Len(tk.word)) =>
            /\ tk.vres = Some(OkValid)
            /\ NotQueried(tk)
            /\ tk.queries <= 1

\* A Normal-mode guess of the right length was scored.
C9_Witness ==
    \E t \in Tasks :
        /\ Done(task[t]) /\ Validated(task[t]) /\ task[t].mode = Normal
        /\ task[t].len[1] = Len(task[t].word)
        /\ task[t].out.type = "valid"

\* C10: in Hard mode the exact-match query is sent for a guess of the right
\* length only; a payload accepts the guess iff its status is 0, numFound is
\* at least 1 and a listed symbol is the guess, and is NotInCorpus otherwise;
\* a transport error, a non-2xx status or an unparsable body is an Err of
\* the validator and InternalError of guess.
C10_HardModeLookup ==
    \A t \in Tasks :
        LET tk == task[t]
            r == tk.exact[1]
            listed == /\ r.status = 0
                      /\ r.num_found >= 1
                      /\ tk.word \in Range(r.docs)
        IN  /\ (tk.op = "guess" /\ ExactSent(tk)) =>
                  (tk.mode = Hard /\ tk.len = Some(Len(tk.word)))
            /\ (tk.op = "guess" /\ tk.exact # None) =>
              /\ (r.kind = "payload" /\ listed) => tk.vres = Some(OkValid)
              /\ (r.kind = "payload" /\ ~listed) =>
                    /\ tk.vres = Some(OkInvalid("not_in_corpus", ""))
                    /\ Done(tk) => tk.out = Invalid("not_in_corpus", "")
              /\ r.kind # "payload" =>
                    /\ tk.vres # None /\ ~tk.vres[1].ok
                    /\ Done(tk) => (tk.out.type = "invalid" /\ tk.out.reason = "internal_error")
              /\ (Done(tk) /\ tk.out.type = "valid") => (r.kind = "payload" /\ listed)

\* A Hard-mode guess was answered NotInCorpus on a payload that lists the
\* guess but counts no symbol.
C10_Witness ==
    \E t \in Tasks :
        /\ Done(task[t]) /\ task[t].exact # None
        /\ task[t].exact[1] = Payload(STATUS_SUCCESS, 0, << task[t].word >>)
        /\ task[t].out = Invalid("not_in_corpus", "")

---------------------------------------------------------------------------
\* The registry answered the task's prefix query with a payload of status 0
\* that counts no symbol.
NoneFound(tk) ==
    /\ tk.prefix # None
    /\ tk.prefix[1].kind = "payload"
    /\ tk.prefix[1].status = STATUS_SUCCESS
    /\ tk.prefix[1].num_found = 0

\* C11: when the prefix query is answered with numFound = 0, get_word
\* returns Err("No gene symbol found") as a value and does not abort:
\* num_letters answers -1 and guess answers Invalid(InternalError).
C11_NoSymbolFoundValue ==
    \A t \in Tasks :
        LET tk == task[t] IN
        NoneFound(tk) =>
            /\ tk.out # Panicked(RANGE_PANIC)
            /\ tk.wres = Some(ErrWord(NOT_FOUND_MSG))
            /\ (Done(tk) /\ tk.op = "num_letters") => tk.out = Count(-1)
            /\ (Done(tk) /\ tk.op = "guess") =>
                  (tk.out.type = "invalid" /\ tk.out.reason = "internal_error")

\* The registry's answer to the task's prefix query was unsuccessful: the
\* exchange failed in transport, the HTTP status was not 2xx, or the payload
\* carries a non-zero registry status.
Unsuccessful(r) ==
    \/ r.kind \in {"transport", "http"}
    \/ r.kind = "payload" /\ r.status # STATUS_SUCCESS

\* C12: for every unsuccessful answer to the prefix query get_word fails
\* with "Unable to query genenames.org", which is not the no-symbol-found
\* error.
C12_LookupFailure ==
    \A t \in Tasks :
        LET tk == task[t] IN
        (tk.prefix # None /\ Unsuccessful(tk.prefix[1])) =>
            /\ tk.wres = Some(ErrWord(LOOKUP_MSG))
            /\ LOOKUP_MSG # NOT_FOUND_MSG

\* C13: no memoized operation returns a success computed after one of its
\* own registry queries failed (in transport, by a non-2xx status, by an
\* undecodable body or by a non-zero registry status), and no request
\* aborts after such a failure: get_word holds an Err, the validator does
\* not accept, guess answers Invalid, and _generate_game holds no puzzle.
C13_FailuresConverted ==
    \A t \in Tasks :
        LET tk == task[t]
            bad(r) == r.kind # "payload" \/ r.status # STATUS_SUCCESS
        IN  /\ (tk.prefix # None /\ bad(tk.prefix[1])) =>
                  /\ tk.wres # None /\ ~tk.wres[1].ok
                  /\ tk.out.type # "panic"
            /\ (tk.exact # None /\ bad(tk.exact[1])) =>
                  /\ tk.vres # Some(OkValid)
                  /\ tk.out.type \notin {"valid", "panic"}
            /\ (tk.op \in {"get_letters", "check_guess"} /\ tk.failed) =>
                  /\ tk.gres # None => ~tk.gres[1].ok
                  /\ tk.out.type # "panic"

---------------------------------------------------------------------------
\* The task ran the body of _generate_game in this request and is past the
\* pool: the retry loop has run.
Searched(tk) ==
    /\ tk.op \in {"get_letters", "check_guess"}
    /\ tk.pc \in {"gg_store", "done"}
    /\ ~tk.hit

\* C14: every call of _generate_game that reaches its retry loop leaves it
\* with a value and without aborting: a puzzle that one of the first
\* MAX_ITERS candidates gave, or, when none of the MAX_ITERS candidates
\* meets min_words, Err("Failed to generate a valid game").
C14_BoundedSearch ==
    \A t \in Tasks :
        LET tk == task[t]
            p == GameOf(tk)
        IN  Searched(tk) =>
              /\ tk.out.type # "panic"
              /\ tk.gres # None
              /\ tk.gres # None =>
                    /\ tk.iter \in 1..MAX_ITERS
                    /\ ~tk.gres[1].ok =>
                          /\ tk.gres[1] = ErrGame(GENERATION_MSG)
                          /\ tk.iter = MAX_ITERS

\* The puzzle g is one for the parameters p: every valid symbol has at
\* least min_length characters, is spelt with the outer letters and the
\* center letter only and holds the center letter, and there are at least
\* min_words of them.
WellFormed(g, p) ==
    /\ \A sym \in g.valid_symbols :
          /\ Len(sym) >= p.min_length
          /\ \A i \in 1..Len(sym) : sym[i] \in Range(g.outer_letters) \cup {g.center_letter}
          /\ \E i \in 1..Len(sym) : sym[i] = g.center_letter
    /\ Cardinality(g.valid_symbols) >= p.min_words

\* C15: every puzzle _generate_game returns or stores for a parameter tuple
\* is well formed for that tuple.
C15_PuzzleWellFormed ==
    /\ \A t \in Tasks :
          (task[t].gres # None /\ task[t].gres[1].ok)
              => WellFormed(task[t].gres[1], GameOf(task[t]))
    /\ \A p \in Games :
          (GENERATE_GAME[p] # None /\ GENERATE_GAME[p][1].ok)
              => WellFormed(GENERATE_GAME[p][1], p)

\* A puzzle was returned for min_length 3 and min_words 1 whose pool held a
\* symbol of the right length that its letters do not spell.
C15_Witness ==
    \E t \in Tasks :
        LET tk == task[t] IN
        /\ Done(tk) /\ tk.op = "get_letters" /\ ~tk.hit
        /\ tk.min_length = 3 /\ tk.min_words = 1
        /\ tk.gres # None /\ tk.gres[1].ok
        /\ tk.gres[1].valid_symbols # { }
        /\ tk.all_symbols \ tk.gres[1].valid_symbols # { }

\* C16: for every num_letters the generation does not abort, and a puzzle it
\* returns has exactly num_letters - 1 outer letters, pairwise distinct,
\* with the center letter not among them.
C16_LetterCount ==
    \A t \in Tasks :
        LET tk == task[t] IN
        (tk.op \in {"get_letters", "check_guess"}) =>
            /\ tk.out.type # "panic"
            /\ (tk.gres # None /\ tk.gres[1].ok) =>
                  LET outer == tk.gres[1].outer_letters IN
                  /\ Len(outer) = tk.num_letters - 1
                  /\ \A i, j \in 1..Len(outer) : i # j => outer[i] # outer[j]
                  /\ tk.gres[1].center_letter \notin Range(outer)

\* C17: check_guess answers true iff the generation for its tuple succeeded
\* and the word is among the valid symbols of the tuple's puzzle, the one
\* the store holds and get_letters reports the letters of; it answers false
\* for any other word and when the generation failed.
C17_Membership ==
    \A t \in Tasks :
        LET tk == task[t]
            stored == GENERATE_GAME[GameOf(tk)]
        IN  /\ (Done(tk) /\ tk.op = "check_guess") =>
                  /\ stored # None
                  /\ tk.out = Bool(stored[1].ok /\ tk.word \in stored[1].valid_symbols)
            /\ (Done(tk) /\ tk.op = "get_letters" /\ tk.out.type # "panic") =>
                  /\ stored # None
                  /\ tk.out = IF stored[1].ok
                              THEN Metadata(stored[1].outer_letters, stored[1].center_letter)
                              ELSE Metadata(<< >>, "")

---------------------------------------------------------------------------
\* The request was a guess and has been answered with a GuessResult.
Answered(tk) == Done(tk) /\ tk.op = "guess" /\ tk.out.type \in {"valid", "invalid"}

\* C18: idempotence of guessing.  Any two answered requests that carry the
\* same Guess value (letters, session, mode) were answered alike, whatever
\* other guesses and num_letters requests were served besides.
C18_Idempotent ==
    \A t1, t2 \in Tasks :
        (Answered(task[t1]) /\ Answered(task[t2])
            /\ GuessOf(task[t1]) = GuessOf(task[t2]))
                => task[t1].out = task[t2].out

---------------------------------------------------------------------------
\* No step changes the value a session holds, and the day's value is
\* written only by a visit that found its session to hold none.
ValueKept ==
    /\ \A s \in SessionIds :
          SESSIONS[s] # None =>
              SESSIONS'[s] # None /\ SESSIONS'[s][1].word = SESSIONS[s][1].word
    /\ \A t \in Tasks :
          (task[t].pc = "iw_save" /\ Done(task'[t])) => task[t].word_selection = None

\* Task t's visit, made with the cookie of a session that holds a value, is
\* answered by this step.
Revisited(t) ==
    /\ ~Done(task[t]) /\ Done(task'[t])
    /\ task'[t].op = "genedle" /\ task'[t].out.type = "word"
    /\ task'[t].cookie # 0

\* C19: a session that holds a word keeps it: init_word writes the day's
\* value only when the session holds none, no step changes the value a
\* session holds, and every visit made with the cookie of a session that
\* holds a value is answered with that value, whatever the day.
C19_WordPersists ==
    [][ /\ ValueKept
        /\ \A t \in Tasks :
              Revisited(t) => task'[t].out = Word(SESSIONS[task'[t].cookie][1].word)
      ]_vars

\* C19 as amended: the same, for the visits made before the session
\* expires (EXPIRY_DAYS after its value was stored); every answer is the
\* value held by the session the answer's cookie names, and a visit that
\* finds its session live is answered at once and changes nothing.
C19_WordPersistsLive ==
    [][ /\ ValueKept
        /\ \A t \in Tasks :
              /\ (task[t].pc = "iw_get" /\ load(task[t].cookie) # None) =>
                    /\ task'[t].pc \in {"iw_get", "idle"}
                       \/ /\ Done(task'[t])
                          /\ task'[t].out = Word(SESSIONS[task[t].cookie][1].word)
                    /\ SESSIONS' = SESSIONS \/ task'[t] = task[t]
              /\ (Done(task'[t]) /\ task'[t].op = "genedle" /\ task'[t].out.type = "word") =>
                    /\ task'[t].sid \in SessionIds
                    /\ SESSIONS'[task'[t].sid] # None
                    /\ SESSIONS'[task'[t].sid][1].word = task'[t].out.count
      ]_vars

\* A repeat visit on a later day, made before the session expired, was
\* answered with the value stored on the day of the first visit.
C19_Witness ==
    \E t \in Tasks :
        /\ Done(task[t]) /\ task[t].op = "genedle"
        /\ task[t].cookie # 0
        /\ task[t].word_selection # None
        /\ task[t].word_selection[1] < today
        /\ task[t].out = Word(task[t].word_selection[1])
        /\ SESSIONS[task[t].cookie][1].word = task[t].word_selection[1]

---------------------------------------------------------------------------
\* The letters _generate_game samples for its pool: min(num_letters + 5, 27).
Sampled(p) == Min(p.num_letters + POOL_EXTRA, Len(VALID_LETTERS))

\* The turns of the retry loop from the generator's pos-th value on all
\* reject their candidate.  The turns are cut in ten parts down to single
\* turns, and the parts are looked at in order.
RECURSIVE NoneAccepted(_, _, _, _)
NoneAccepted(p, all_symbols, pos, turns) ==
    IF turns <= 0 THEN [all |-> TRUE, next |-> pos]
    ELSE IF turns = 1
         THEN LET c == Candidate(p, all_symbols, pos) IN
              [all |-> ~c.accepted, next |-> c.next]
    ELSE LET part == (turns + 9) \div 10
             Part(before, j) ==
                 IF ~before.all \/ turns <= j * part THEN before
                 ELSE NoneAccepted(p, all_symbols, before.next, Min(part, turns - j * part))
             n1 == NoneAccepted(p, all_symbols, pos, part)
             n2 == Part(n1, 1)
             n3 == Part(n2, 2)
             n4 == Part(n3, 3)
             n5 == Part(n4, 4)
             n6 == Part(n5, 5)
             n7 == Part(n6, 6)
             n8 == Part(n7, 7)
             n9 == Part(n8, 8)
             n10 == Part(n9, 9)
         IN  << n1, n2, n3, n4, n5, n6, n7, n8, n9, n10 >>[10]

\* The game is that of turn iter of the retry loop, the first whose
\* candidate the pool all_symbols lets through; the loop starts where the
\* shuffle of the pool letters left the generator.
FirstDrawn(p, all_symbols, game, iter) ==
    LET pool == PoolShuffle(p)
        earlier == NoneAccepted(p, all_symbols, pool.next, iter - 1)
        drawn == Candidate(p, all_symbols, earlier.next)
    IN  /\ iter \in 1..MAX_ITERS
        /\ pool.next > 1
        /\ earlier.all
        /\ drawn.accepted
        /\ drawn.game = game

\* C20: within one computation of _generate_game the registry is queried
\* only while the pool is fetched; when the retry loop starts, one prefix
\* and one suffix query have been issued for each of the
\* min(num_letters + 5, 27) sampled letters; the retry loop issues no query
\* and leaves the pool as it is; and a puzzle it returns is that of the
\* first candidate whose filtered count reaches min_words.
C20_CorpusFirst ==
    [][ \A t \in Tasks :
          LET tk == task[t]
              after == task'[t]
              p == GameOf(tk)
          IN  /\ (InGenerateGame(tk) /\ after.queries # tk.queries /\ after.pc # "idle")
                    => InGetOptions(tk)
              /\ (tk.pc = "gg_retry" /\ after.pc # "gg_retry") =>
                    /\ tk.fetched = Sampled(p)
                    /\ tk.queries = 2 * Sampled(p)
                    /\ after.queries = tk.queries
                    /\ after.all_symbols = tk.all_symbols
                    /\ (after.gres # None /\ after.gres[1].ok)
                          => FirstDrawn(p, tk.all_symbols, after.gres[1], after.iter)
      ]_vars

---------------------------------------------------------------------------
\* The registry answered the task's prefix query successfully with at
\* least one symbol found.
SomeFound(tk) ==
    /\ tk.prefix # None
    /\ tk.prefix[1].kind = "payload"
    /\ tk.prefix[1].status = STATUS_SUCCESS
    /\ tk.prefix[1].num_found >= 1

\* C21: for every successful answer to the prefix query with numFound >= 1
\* get_word returns Ok with the symbol at the drawn index i,
\* 0 <= i < numFound, of the answer's docs, also when docs holds fewer than
\* numFound entries.
C21_SymbolAtDrawnIndex ==
    \A t \in Tasks :
        LET tk == task[t]
            r == tk.prefix[1]
            i == random_range(tk.key, first_draw(tk.key).next, 1, r.num_found).value - 1
        IN  (SomeFound(tk) /\ tk.wres # None) =>
              /\ 0 <= i /\ i < r.num_found
              /\ tk.wres[1].ok
              /\ i + 1 <= Len(r.docs)
              /\ tk.wres[1].word = r.docs[i + 1]

---------------------------------------------------------------------------
\* The stored outcome of a memoized call is a failure.
FailedWord(entry) == entry # None /\ ~entry[1].ok
FailedLength(entry) == entry = Some(-1)
FailedGuess(entry) ==
    entry # None /\ (~entry[1].ok \/ entry[1].reason = "internal_error")
FailedGame(entry) == entry # None /\ ~entry[1].ok

\* C22: a stored failure stays: no step changes a failure a store holds; a
\* call that finds one returns it without a registry query (num_letters
\* then answers -1 and the validator Invalid(InternalError)); and the
\* length the validator's store holds for a seed is that of the outcome the
\* selector's store holds for it.
C22_StickyFailures ==
    [][ /\ \A k \in Seeds :
              /\ FailedWord(GET_WORD[k]) => GET_WORD'[k] = GET_WORD[k]
              /\ FailedLength(NUM_LETTERS[k]) => NUM_LETTERS'[k] = NUM_LETTERS[k]
              /\ NUM_LETTERS'[k] # None =>
                    /\ GET_WORD'[k] # None
                    /\ NUM_LETTERS'[k][1] = LengthOf(GET_WORD'[k][1])
        /\ \A g \in Guesses :
              FailedGuess(VALID_GUESS[g]) => VALID_GUESS'[g] = VALID_GUESS[g]
        /\ \A p \in Games :
              FailedGame(GENERATE_GAME[p]) => GENERATE_GAME'[p] = GENERATE_GAME[p]
        /\ \A t \in Tasks :
              LET tk == task[t]
                  after == task'[t]
              IN  /\ (tk.pc = "gw_lookup" /\ after # tk /\ after.pc # "idle"
                        /\ FailedWord(GET_WORD[tk.key])) =>
                        /\ after.queries = tk.queries
                        /\ after.wres = GET_WORD[tk.key]
                        /\ tk.caller = "num_letters" => after.out = Count(-1)
                        /\ tk.caller = "_num_letters" => after.len = Some(-1)
                        /\ tk.caller = "guess" => after.out.reason = "internal_error"
                  /\ (tk.pc = "nl_lookup" /\ after # tk /\ after.pc # "idle"
                        /\ FailedLength(NUM_LETTERS[tk.key])) =>
                        /\ after.queries = tk.queries
                        /\ after.vres = Some(OkInvalid("internal_error", FETCH_MSG))
                  /\ (tk.pc = "vg_lookup" /\ after # tk /\ after.pc # "idle"
                        /\ FailedGuess(VALID_GUESS[GuessOf(tk)])) =>
                        /\ after.queries = tk.queries
                        /\ after.vres = VALID_GUESS[GuessOf(tk)]
                        /\ Done(after)
                        /\ after.out.type = "invalid" /\ after.out.reason = "internal_error"
                  /\ (tk.pc = "gg_lookup" /\ after # tk /\ after.pc # "idle"
                        /\ FailedGame(GENERATE_GAME[GameOf(tk)])) =>
                        /\ after.queries = tk.queries
                        /\ after.gres = GENERATE_GAME[GameOf(tk)]
                        /\ Done(after)
      ]_vars

=============================================================================
